---------------------------- MODULE ReporterProofs ----------------------------
(***************************************************************************)
(* Proofs about Reporter, for every channel capacity, any number of         *)
(* application goroutines that shut down and every set of periodic tasks.   *)
(***************************************************************************)
EXTENDS Reporter, BytesBucketProofs

-----------------------------------------------------------------------------
(* The reporter runs its bucket as BytesBucket says. *)

LEMMA BucketStep == TypeOK /\ [Next]_vars => [BucketNext]_bucketVars
  <1> SUFFICES ASSUME TypeOK, [Next]_vars PROVE [BucketNext]_bucketVars
    OBVIOUS
  <1>1. ASSUME NEW size \in Sizes, ReportEvent(size) PROVE BucketNext
    BY <1>1 DEF ReportEvent, BucketNext
  <1>2. CASE EventSender
    <2>1. CASE SenderStart
      BY <2>1 DEF SenderStart, BucketNext, TypeOK
    <2>2. CASE SenderPour \/ SenderStep \/ SenderDrain
      BY <2>2 DEF SenderPour, SenderStep, SenderDrain, BucketNext, Owner
    <2>3. CASE SenderSkip \/ SenderPush \/ SenderCheck
      BY <2>3 DEF SenderSkip, SenderPush, SenderCheck
    <2> QED
      BY <1>2, <2>1, <2>2, <2>3 DEF EventSender
  <1>3. CASE BatchSender
    BY <1>3 DEF BatchSender, BatchReceive, BatchClosed, BatchDone, bsRest
  <1>4. CASE Periodic \/ \E p \in Tasks : PeriodicTask(p)
    BY <1>4 DEF Periodic, PeriodicTop, PeriodicCollect, PeriodicDone, PeriodicFlushed,
                PeriodicTask, perRest
  <1>5. ASSUME NEW p \in Procs, RpcStep(p) PROVE UNCHANGED bucketVars
    BY <1>5 DEF RpcStep, RpcExit, RpcAttempt, RpcRetry, RpcReturn, RpcInvalidKey
  <1>6. ASSUME NEW a \in Apps, ShutdownCall(a) \/ Expire(a) PROVE UNCHANGED bucketVars
    BY <1>6 DEF ShutdownCall, Expire
  <1>7. ASSUME NEW c \in Callers, ShutdownStep(c) PROVE [BucketNext]_bucketVars
    BY <1>7 DEF ShutdownStep, ShutdownSelect, ShutdownOnce, ShutdownClose, ShutdownWait,
                ShutdownFinish, BucketNext
  <1>8. CASE UNCHANGED vars
    BY <1>8 DEF vars
  <1> QED
    BY <1>1, <1>2, <1>3, <1>4, <1>5, <1>6, <1>7, <1>8, ReporterAssumption DEF Next

-----------------------------------------------------------------------------
(* Types. *)

LEMMA NoBatches == <<>> \in Seq(Seq(Events)) /\ Len(<<>>) = 0
  BY EmptySeq

LEMMA AppendBatch ==
  ASSUME NEW s \in Seq(Seq(Events)), NEW b \in Seq(Events)
  PROVE  Append(s, b) \in Seq(Seq(Events))
  BY AppendProperties

LEMMA AppendedBatch ==
  ASSUME NEW s \in Seq(Seq(Events)), NEW b \in Seq(Events)
  PROVE  /\ Len(Append(s, b)) = Len(s) + 1 /\ Len(s) \in Nat
         /\ \A i \in 1..Len(s) : Append(s, b)[i] = s[i]
         /\ Append(s, b)[Len(s) + 1] = b /\ Append(s, b) # <<>>
  <1> DEFINE B == Seq(Events)
  <1>1. s \in Seq(B) /\ b \in B
    OBVIOUS
  <1> HIDE DEF B
  <1> QED
    BY <1>1, AppendProperties, LenProperties

LEMMA InitTypes == Init => TypeOK /\ BucketInv
  <1> SUFFICES ASSUME Init PROVE TypeOK /\ BucketInv
    OBVIOUS
  <1>1. BucketInv
    BY BucketInvInit DEF Init
  <1>2. 0 <= BatchCap
    BY ReporterAssumption
  <1>3. TypeOK
    BY <1>1, <1>2, NoEvents, NoBatches, ReporterAssumption DEF Init, TypeOK, BucketInv
  <1> QED
    BY <1>1, <1>3

LEMMA SubsetsOfCallers == Procs \subseteq Callers /\ Apps \subseteq Callers
  BY DEF Callers

LEMMA ResumeTypes ==
  ASSUME NEW p \in Procs, TypeOK, Resume(p)
  PROVE  /\ proc' \in [Procs -> {"idle", "busy", "exited"}]
         /\ token' \in BOOLEAN
         /\ flushed' \in BOOLEAN
  BY DEF TypeOK, Resume

LEMMA InvokeTypes ==
  ASSUME NEW p \in Procs, TypeOK, Invoke(p)
  PROVE  /\ proc' \in [Procs -> {"idle", "busy", "exited"}]
         /\ rpc' \in [Procs -> {"none", "check", "call"}]
  BY DEF TypeOK, Invoke

LEMMA ReturnTypes ==
  ASSUME NEW c \in Callers, NEW err \in {"none", "nil", "closed", "timeout"}, TypeOK, Return(c, err)
  PROVE  /\ proc' \in [Procs -> {"idle", "busy", "exited"}]
         /\ token' \in BOOLEAN
         /\ flushed' \in BOOLEAN
         /\ shut' \in [Callers -> {"none", "select", "once", "marked", "wait", "finish", "returned"}]
         /\ result' \in [Callers -> {"none", "nil", "closed", "timeout"}]
  <1>1. CASE c \in Procs
    BY <1>1, ResumeTypes DEF Return, TypeOK
  <1>2. CASE c \notin Procs
    BY <1>2 DEF Return, TypeOK
  <1> QED
    BY <1>1, <1>2

\* The invariants of the bucket and the types of the reporter, together.
LEMMA StepTypes == TypeOK /\ BucketInv /\ [Next]_vars => TypeOK' /\ BucketInv'
  <1> SUFFICES ASSUME TypeOK, BucketInv, [Next]_vars PROVE TypeOK' /\ BucketInv'
    OBVIOUS
  <1>1. BucketInv' /\ BucketTypeOK'
    BY BucketStep, BucketInvNext DEF BucketInv
  <1>2. Procs \subseteq Callers /\ "events" \in Procs /\ "metrics" \in Procs
    BY DEF Callers, Procs
  <1>3. ASSUME NEW size \in Sizes, ReportEvent(size) PROVE TypeOK'
    BY <1>1, <1>3 DEF ReportEvent, TypeOK, bsVars, ptVars, rpcVars, shutVars
  <1>4. CASE EventSender
    <2>1. CASE SenderStart \/ SenderPour \/ SenderStep \/ SenderSkip \/ SenderCheck
      BY <1>1, <2>1 DEF SenderStart, SenderPour, SenderStep, SenderSkip, SenderCheck,
         TypeOK, senderRest, ptVars, rpcVars, shutVars
    <2>2. CASE SenderDrain
      BY <1>1, <2>2 DEF SenderDrain, TypeOK, BucketTypeOK, senderRest, ptVars, rpcVars, shutVars
    <2>3. CASE SenderPush
      <3>1. /\ Append(batches, held) \in Seq(Seq(Events))
            /\ Len(Append(batches, held)) = Len(batches) + 1
        BY AppendProperties DEF TypeOK
      <3>2. Len(batches) + 1 <= BatchCap
        BY <2>3, ReporterAssumption, LenProperties DEF SenderPush, TypeOK
      <3> QED
        BY <1>1, <2>3, <3>1, <3>2, NoEvents DEF SenderPush, TypeOK, senderRest, ptVars, rpcVars, shutVars
    <2> QED
      BY <1>4, <2>1, <2>2, <2>3 DEF EventSender
  <1>5. CASE BatchSender
    <2>1. batches # <<>> => /\ Head(batches) \in Seq(Events)
                            /\ Tail(batches) \in Seq(Seq(Events))
                            /\ Len(Tail(batches)) <= BatchCap
      <3> SUFFICES ASSUME batches # <<>>
                   PROVE  /\ Head(batches) \in Seq(Events)
                          /\ Tail(batches) \in Seq(Seq(Events))
                          /\ Len(Tail(batches)) <= BatchCap
        OBVIOUS
      <3>1. Head(batches) \in Seq(Events) /\ Tail(batches) \in Seq(Seq(Events))
        BY HeadTailProperties DEF TypeOK
      <3>2. Len(Tail(batches)) = Len(batches) - 1
        BY HeadTailProperties DEF TypeOK
      <3> QED
        BY <3>1, <3>2, LenProperties, ReporterAssumption DEF TypeOK
    <2>2. CASE BatchReceive
      <3>1. CASE Head(batches) # <<>>
        <4>1. posts' \in Seq(Seq(Events))
          <5>1. posts \in Seq(Seq(Events))
            BY DEF TypeOK
          <5>2. Head(batches) \in Seq(Events) /\ posts' = Append(posts, Head(batches))
            BY <2>1, <2>2, <3>1 DEF BatchReceive
          <5> QED
            BY <5>1, <5>2, AppendBatch
        <4>2. /\ proc' \in [Procs -> {"idle", "busy", "exited"}]
              /\ rpc' \in [Procs -> {"none", "check", "call"}]
          BY <1>2, <2>2, <3>1, InvokeTypes DEF BatchReceive
        <4>3. messages' \in Seq(Events) /\ batches' \in Seq(Seq(Events)) /\ Len(batches') <= BatchCap
          BY <2>1, <2>2 DEF BatchReceive
        <4>4. deaf' \in BOOLEAN
          BY <2>2 DEF BatchReceive
        <4> QED
          BY <1>1, <2>2, <4>1, <4>2, <4>3, <4>4
             DEF BatchReceive, TypeOK, bsRest, ptVars, shutVars
      <3>2. CASE Head(batches) = <<>>
        BY <1>1, <2>1, <2>2, <3>2 DEF BatchReceive, TypeOK, bsRest, ptVars, shutVars, rpcVars
      <3> QED
        BY <3>1, <3>2
    <2>3. CASE BatchClosed
      BY <1>1, <2>3, NoEvents DEF BatchClosed, TypeOK, bsRest, ptVars, shutVars, rpcVars
    <2>4. CASE BatchDone
      <3>1. messages' \in Seq(Events)
        BY <2>1, <2>4, NoEvents DEF BatchDone, NextMessages, TypeOK
      <3>2. batches' \in Seq(Seq(Events)) /\ Len(batches') <= BatchCap
        BY <2>1, <2>4 DEF BatchDone, TypeOK
      <3>3. CASE gracefully /\ messages' # <<>>
        <4>1. posts' \in Seq(Seq(Events))
          <5>1. posts \in Seq(Seq(Events))
            BY DEF TypeOK
          <5>2. posts' = Append(posts, messages')
            BY <2>4, <3>3 DEF BatchDone
          <5> QED
            BY <3>1, <5>1, <5>2, AppendBatch
        <4>2. /\ proc' \in [Procs -> {"idle", "busy", "exited"}]
              /\ rpc' \in [Procs -> {"none", "check", "call"}]
          BY <1>2, <2>4, <3>3, InvokeTypes DEF BatchDone
        <4>3. lastRound' = TRUE /\ flushed' = flushed
          BY <2>4, <3>3 DEF BatchDone
        <4> QED
          BY <1>1, <2>4, <3>1, <3>2, <4>1, <4>2, <4>3
             DEF BatchDone, TypeOK, bsRest, ptVars, shutVars
      <3>4. CASE ~(gracefully /\ messages' # <<>>)
        <4>1. /\ proc' = [proc EXCEPT !["events"] = "exited"] /\ flushed' = TRUE
              /\ UNCHANGED <<lastRound, rpc, posts>>
          BY <2>4, <3>4 DEF BatchDone
        <4>2. proc' \in [Procs -> {"idle", "busy", "exited"}]
          BY <1>2, <4>1 DEF TypeOK
        <4> QED
          BY <1>1, <2>4, <3>1, <3>2, <4>1, <4>2 DEF BatchDone, TypeOK, bsRest, ptVars, shutVars
      <3> QED
        BY <3>3, <3>4
    <2> QED
      BY <1>5, <2>2, <2>3, <2>4 DEF BatchSender
  <1>6. CASE Periodic
    <2>1. CASE PeriodicTop
      BY <1>1, <2>1 DEF PeriodicTop, TypeOK, perRest, bsVars, rpcVars, shutVars
    <2>4. CASE PeriodicFlushed
      BY <1>1, <2>4 DEF PeriodicFlushed, TypeOK, perRest, bsVars, rpcVars, shutVars
    <2>2. TryCollect => /\ token' \in BOOLEAN
                        /\ proc' \in [Procs -> {"idle", "busy", "exited"}]
                        /\ rpc' \in [Procs -> {"none", "check", "call"}]
      BY <1>2, InvokeTypes DEF TryCollect, TypeOK, rpcVars
    <2>3. CASE PeriodicCollect
      BY <1>1, <2>2, <2>3 DEF PeriodicCollect, TypeOK, perRest, bsVars, rpcVars, shutVars
    <2>5. CASE PeriodicDone
      BY <1>1, <2>2, <2>5 DEF PeriodicDone, TypeOK, perRest, bsVars, rpcVars, shutVars
    <2> QED
      BY <1>6, <2>1, <2>3, <2>4, <2>5 DEF Periodic
  <1>7. ASSUME NEW p \in Tasks, PeriodicTask(p) PROVE TypeOK'
    <2>1. p \in Procs
      BY DEF Procs
    <2>2. /\ proc' \in [Procs -> {"idle", "busy", "exited"}]
          /\ rpc' \in [Procs -> {"none", "check", "call"}]
      BY <1>7, <2>1, InvokeTypes DEF PeriodicTask, TypeOK, rpcVars
    <2> QED
      BY <1>1, <1>7, <2>2 DEF PeriodicTask, TypeOK, perRest, bsVars, shutVars
  <1>8. ASSUME NEW p \in Procs, RpcStep(p) PROVE TypeOK'
    <2>1. CASE RpcExit(p)
      <3>1. rpc' \in [Procs -> {"none", "check", "call"}]
        BY <2>1 DEF RpcExit, TypeOK
      <3>2. UNCHANGED <<bucketVars, sender, held, bsVars, per, shutVars, posts>>
        BY <2>1 DEF RpcExit
      <3>3. proc' \in [Procs -> {"idle", "busy", "exited"}] /\ token' \in BOOLEAN /\ flushed' \in BOOLEAN
        BY <2>1, ResumeTypes DEF RpcExit
      <3> QED
        BY <1>1, <3>1, <3>2, <3>3 DEF TypeOK, bsVars, shutVars
    <2>4. CASE RpcReturn(p)
      <3>1. rpc' \in [Procs -> {"none", "check", "call"}]
        BY <2>4 DEF RpcReturn, TypeOK
      <3>2. UNCHANGED <<bucketVars, sender, held, bsVars, per, shutVars, posts>>
        BY <2>4 DEF RpcReturn
      <3>3. proc' \in [Procs -> {"idle", "busy", "exited"}] /\ token' \in BOOLEAN /\ flushed' \in BOOLEAN
        BY <2>4, ResumeTypes DEF RpcReturn
      <3> QED
        BY <1>1, <3>1, <3>2, <3>3 DEF TypeOK, bsVars, shutVars
    <2>2. CASE RpcAttempt(p) \/ RpcRetry(p)
      <3>1. rpc' \in [Procs -> {"none", "check", "call"}]
        BY <2>2 DEF RpcAttempt, RpcRetry, TypeOK
      <3> QED
        BY <1>1, <2>2, <3>1 DEF RpcAttempt, RpcRetry, TypeOK, bsVars, ptVars, shutVars
    <2>3. CASE RpcInvalidKey(p)
      BY <1>1, <1>2, <2>3 DEF RpcInvalidKey, TypeOK, bsVars, ptVars
    <2> QED
      BY <1>8, <2>1, <2>2, <2>3, <2>4 DEF RpcStep
  <1>9. ASSUME NEW a \in Apps, ShutdownCall(a) \/ Expire(a) PROVE TypeOK'
    <2>1. CASE ShutdownCall(a)
      <3>1. shut' = [shut EXCEPT ![a] = "select"]
        BY <2>1 DEF ShutdownCall
      <3>2. shut' \in [Callers -> {"none", "select", "once", "marked", "wait", "finish", "returned"}]
        BY <3>1 DEF TypeOK
      <3> QED
        BY <1>1, <2>1, <3>2 DEF ShutdownCall, TypeOK, shutRest, bsVars
    <2>2. CASE Expire(a)
      BY <1>1, <2>2 DEF Expire, TypeOK, shutRest, bsVars
    <2> QED
      BY <1>9, <2>1, <2>2
  <1>10. ASSUME NEW c \in Callers, ShutdownStep(c) PROVE TypeOK'
    <2>1. CASE ShutdownSelect(c)
      <3>1. /\ proc' \in [Procs -> {"idle", "busy", "exited"}]
            /\ token' \in BOOLEAN
            /\ flushed' \in BOOLEAN
            /\ shut' \in [Callers -> {"none", "select", "once", "marked", "wait", "finish", "returned"}]
            /\ result' \in [Callers -> {"none", "nil", "closed", "timeout"}]
        <4>1. CASE closed
          BY <2>1, <4>1, ReturnTypes DEF ShutdownSelect
        <4>2. CASE ~closed
          <5>1. shut' = [shut EXCEPT ![c] = "once"] /\ UNCHANGED <<proc, token, flushed, result>>
            BY <2>1, <4>2 DEF ShutdownSelect
          <5> QED
            BY <5>1 DEF TypeOK
        <4> QED
          BY <4>1, <4>2
      <3> QED
        BY <1>1, <2>1, <3>1 DEF ShutdownSelect, TypeOK, shutRest, bsVars
    <2>2. CASE ShutdownOnce(c)
      <3>1. /\ proc' \in [Procs -> {"idle", "busy", "exited"}]
            /\ token' \in BOOLEAN /\ flushed' \in BOOLEAN /\ gracefully' \in BOOLEAN
            /\ once' \in Callers \cup {"free", "done"}
            /\ shut' \in [Callers -> {"none", "select", "once", "marked", "wait", "finish", "returned"}]
            /\ result' \in [Callers -> {"none", "nil", "closed", "timeout"}]
        <4>1. CASE once = "free"
          BY <2>2, <4>1 DEF ShutdownOnce, Graceful, TypeOK
        <4>2. CASE once # "free"
          <5>1. Return(c, "nil") /\ UNCHANGED <<once, gracefully>>
            BY <2>2, <4>2 DEF ShutdownOnce
          <5> QED
            BY <5>1, ReturnTypes DEF TypeOK
        <4> QED
          BY <4>1, <4>2
      <3> QED
        BY <1>1, <2>2, <3>1 DEF ShutdownOnce, TypeOK, shutRest, bsVars
    <2>3. CASE ShutdownClose(c) \/ ShutdownWait(c)
      <3>1. shut' \in [Callers -> {"none", "select", "once", "marked", "wait", "finish", "returned"}]
        BY <2>3 DEF ShutdownClose, ShutdownWait, TypeOK
      <3>2. result' \in [Callers -> {"none", "nil", "closed", "timeout"}]
        BY <2>3 DEF ShutdownClose, ShutdownWait, TypeOK
      <3> QED
        BY <1>1, <2>3, <3>1, <3>2 DEF ShutdownClose, ShutdownWait, TypeOK, shutRest, bsVars
    <2>4. CASE ShutdownFinish(c)
      <3>1. result[c] \in {"none", "nil", "closed", "timeout"}
        BY DEF TypeOK
      <3> QED
        BY <1>1, <2>4, <3>1, ReturnTypes DEF ShutdownFinish, TypeOK, shutRest, bsVars
    <2> QED
      BY <1>10, <2>1, <2>2, <2>3, <2>4 DEF ShutdownStep
  <1>11. CASE UNCHANGED vars
    BY <1>1, <1>11 DEF vars, TypeOK, bsVars, ptVars, rpcVars, shutVars
  <1> QED
    BY <1>1, <1>3, <1>4, <1>5, <1>6, <1>7, <1>8, <1>9, <1>10, <1>11, ReporterAssumption DEF Next

\* Type correctness of the reporter.
THEOREM ReporterTypeCorrect == Spec => []TypeOK
  BY InitTypes, StepTypes, PTL DEF Spec

\* The reporter's goroutines use the bucket as its specification assumes.
THEOREM ReporterImplementsBucket == Spec => ImplementsBucket
  <1>1. Init => BucketInit
    BY DEF Init
  <1> QED
    BY <1>1, InitTypes, StepTypes, BucketStep, PTL DEF Spec, ImplementsBucket, BucketSpec
-----------------------------------------------------------------------------
(* The inductive invariant. *)

\* What travels from eventSender to eventBatchSender is never an empty batch.
NonEmptyBatches ==
  /\ \A i \in 1..Len(batches) : batches[i] # <<>>
  /\ sender = "push" => held # <<>>

\* When eventBatchSender is leaving, the channel has room for the one batch eventSender
\* may still push, or eventSender is past its last push.
Leaving ==
  lastRound \/ proc["events"] = "exited" =>
    /\ closed
    /\ Len(batches) < BatchCap \/ sender \in {"check", "exited"}

\* The caller inside doneClosed.Do owns it, and `done' is closed from within only.
OnceOwner ==
  /\ \A c \in Callers : shut[c] \in {"marked", "wait", "finish"} => once = c
  /\ closed => once # "free"

\* periodicTasks leaves its loop only when `done' is closed.
FlushAfterClose == per \in {"flush", "exited"} => closed

ReporterInv ==
  /\ TypeOK
  /\ BucketInv
  /\ NonEmptyBatches
  /\ DeafOnlyAfterExit
  /\ Leaving
  /\ OnceOwner
  /\ FlushAfterClose
  /\ OneCollector
  /\ FlushComplete

LEMMA Names ==
  /\ "events" \in Procs
  /\ "metrics" \in Procs
  /\ "metrics" \notin Tasks
  /\ "events" \notin Tasks
  /\ \A c \in Callers : c # "free" /\ c # "done"
  BY ReporterAssumption DEF Callers, Procs

-----------------------------------------------------------------------------
(* Which steps touch what. *)

LEMMA QueueFrame ==
  [Next]_vars =>
    EventSender \/ BatchSender \/ UNCHANGED <<sender, held, batches, deaf, lastRound>>
  BY DEF Next, vars, ReportEvent, bsVars, Periodic, PeriodicTop, PeriodicCollect,
         PeriodicDone, PeriodicFlushed, PeriodicTask, perRest, RpcStep, RpcExit, RpcAttempt,
         RpcRetry, RpcReturn, RpcInvalidKey, ShutdownCall, Expire, ShutdownStep,
         ShutdownSelect, ShutdownOnce, ShutdownClose, ShutdownWait, ShutdownFinish, shutRest

\* `done' stays closed, and the manner of the shutdown with it.
LEMMA ClosedStays ==
  ASSUME OnceOwner, [Next]_vars, closed
  PROVE  closed' /\ gracefully' = gracefully
  <1>1. CASE EventSender
    BY <1>1 DEF EventSender, SenderStart, SenderPour, SenderStep, SenderDrain, SenderSkip,
       SenderPush, SenderCheck, senderRest, shutVars, bucketVars, New, PourIn, Refill, Arm,
       Receive, Discard, Fill, Postpone, TimeoutDrain, TimeoutEmpty, SeeClosing, Drain
  <1>2. CASE BatchSender
    BY <1>2 DEF BatchSender, BatchReceive, BatchClosed, BatchDone, bsRest, shutVars, bucketVars
  <1>3. CASE Periodic \/ \E p \in Tasks : PeriodicTask(p)
    BY <1>3 DEF Periodic, PeriodicTop, PeriodicCollect, PeriodicDone, PeriodicFlushed,
       PeriodicTask, perRest, shutVars, bucketVars
  <1>4. ASSUME NEW p \in Procs, RpcStep(p) PROVE closed' /\ gracefully' = gracefully
    BY <1>4 DEF RpcStep, RpcExit, RpcAttempt, RpcRetry, RpcReturn, RpcInvalidKey, shutVars,
       bucketVars
  <1>5. ASSUME NEW a, ShutdownCall(a) \/ Expire(a) PROVE closed' /\ gracefully' = gracefully
    BY <1>5 DEF ShutdownCall, Expire, bucketVars
  <1>6. ASSUME NEW c \in Callers, ShutdownStep(c) PROVE closed' /\ gracefully' = gracefully
    BY <1>6 DEF OnceOwner, ShutdownStep, ShutdownSelect, ShutdownOnce, ShutdownClose,
       ShutdownWait, ShutdownFinish, CloseIndicator, bucketVars
  <1>7. ASSUME NEW size, ReportEvent(size) PROVE closed' /\ gracefully' = gracefully
    BY <1>7 DEF ReportEvent, Offer, shutVars
  <1>8. CASE UNCHANGED vars
    BY <1>8 DEF vars, bucketVars, shutVars
  <1> QED
    BY <1>1, <1>2, <1>3, <1>4, <1>5, <1>6, <1>7, <1>8 DEF Next

-----------------------------------------------------------------------------
(* Each part is preserved. *)

LEMMA BatchesStep ==
  ASSUME TypeOK, BucketInv, NonEmptyBatches, DeafOnlyAfterExit, [Next]_vars
  PROVE  NonEmptyBatches' /\ DeafOnlyAfterExit'
  <1>1. CASE EventSender
    <2>1. CASE SenderDrain
      <3>1. held' # <<>>
        BY <2>1 DEF SenderDrain, Drain, BucketInv, FullNotEmpty
      <3> QED
        BY <2>1, <3>1 DEF SenderDrain, senderRest, NonEmptyBatches, DeafOnlyAfterExit
    <2>2. CASE SenderPush
      <3>1. /\ Len(batches') = Len(batches) + 1
            /\ \A i \in 1..Len(batches) : batches'[i] = batches[i]
            /\ batches'[Len(batches) + 1] = held
        BY <2>2, AppendProperties DEF SenderPush, TypeOK
      <3>2. ASSUME NEW i \in 1..Len(batches') PROVE batches'[i] # <<>>
        <4>1. CASE i \in 1..Len(batches)
          BY <3>1, <4>1 DEF NonEmptyBatches
        <4>2. CASE i \notin 1..Len(batches)
          <5>1. Len(batches) \in Nat
            BY LenProperties DEF TypeOK
          <5>2. i = Len(batches) + 1
            BY <3>1, <4>2, <5>1
          <5> QED
            BY <2>2, <3>1, <5>2 DEF NonEmptyBatches, SenderPush
        <4> QED
          BY <4>1, <4>2
      <3> QED
        BY <2>2, <3>2 DEF SenderPush, senderRest, NonEmptyBatches, DeafOnlyAfterExit
    <2>3. CASE SenderStart \/ SenderPour \/ SenderStep \/ SenderSkip \/ SenderCheck
      BY <2>3 DEF SenderStart, SenderPour, SenderStep, SenderSkip, SenderCheck, senderRest,
         NonEmptyBatches, DeafOnlyAfterExit
    <2> QED
      BY <1>1, <2>1, <2>2, <2>3 DEF EventSender
  <1>2. CASE BatchSender
    <2>1. batches # <<>> => /\ Head(batches) # <<>>
                            /\ \A i \in 1..Len(Tail(batches)) : Tail(batches)[i] # <<>>
      <3> SUFFICES ASSUME batches # <<>>
                   PROVE  /\ Head(batches) # <<>>
                          /\ \A i \in 1..Len(Tail(batches)) : Tail(batches)[i] # <<>>
        OBVIOUS
      <3>1. /\ Len(batches) \in Nat \ {0}
            /\ Head(batches) = batches[1]
            /\ Len(Tail(batches)) = Len(batches) - 1
            /\ \A i \in 1..Len(Tail(batches)) : Tail(batches)[i] = batches[i + 1]
        BY HeadTailProperties, EmptySeq, LenProperties DEF TypeOK
      <3> QED
        BY <3>1 DEF NonEmptyBatches
    <2>2. UNCHANGED <<sender, held>>
      BY <1>2 DEF BatchSender, BatchReceive, BatchClosed, BatchDone, bsRest
    <2>3. CASE BatchReceive
      BY <2>1, <2>2, <2>3 DEF BatchReceive, NonEmptyBatches, DeafOnlyAfterExit
    <2>4. CASE BatchClosed
      BY <2>2, <2>4 DEF BatchClosed, NonEmptyBatches, DeafOnlyAfterExit
    <2>5. CASE BatchDone
      BY <2>1, <2>2, <2>5 DEF BatchDone, NonEmptyBatches, DeafOnlyAfterExit
    <2> QED
      BY <1>2, <2>3, <2>4, <2>5 DEF BatchSender
  <1>3. CASE UNCHANGED <<sender, held, batches, deaf, lastRound>>
    BY <1>3 DEF NonEmptyBatches, DeafOnlyAfterExit
  <1> QED
    BY <1>1, <1>2, <1>3, QueueFrame

LEMMA OnceStep ==
  ASSUME TypeOK, OnceOwner, [Next]_vars
  PROVE  OnceOwner'
  <1>1. ASSUME UNCHANGED <<closed, once, shut>> PROVE OnceOwner'
    BY <1>1 DEF OnceOwner
  <1>2. ASSUME NEW c \in Callers, ShutdownStep(c) PROVE OnceOwner'
    <2>1. CASE ShutdownSelect(c)
      BY <2>1 DEF ShutdownSelect, Return, OnceOwner, TypeOK, bucketVars
    <2>2. CASE ShutdownOnce(c)
      BY <2>2, Names DEF ShutdownOnce, Return, OnceOwner, TypeOK, bucketVars
    <2>3. CASE ShutdownClose(c)
      BY <2>3, Names DEF ShutdownClose, OnceOwner, TypeOK
    <2>4. CASE ShutdownWait(c)
      BY <2>4 DEF ShutdownWait, OnceOwner, TypeOK, bucketVars
    <2>5. CASE ShutdownFinish(c)
      BY <2>5 DEF ShutdownFinish, Return, OnceOwner, TypeOK, bucketVars
    <2> QED
      BY <1>2, <2>1, <2>2, <2>3, <2>4, <2>5 DEF ShutdownStep
  <1>3. ASSUME NEW p \in Procs, RpcStep(p) PROVE OnceOwner'
    <2>1. CASE RpcInvalidKey(p)
      BY <2>1, SubsetsOfCallers DEF RpcInvalidKey, OnceOwner, TypeOK, bucketVars
    <2>2. CASE ~RpcInvalidKey(p)
      BY <1>1, <1>3, <2>2 DEF RpcStep, RpcExit, RpcAttempt, RpcRetry, RpcReturn, shutVars, bucketVars
    <2> QED
      BY <2>1, <2>2
  <1>4. ASSUME NEW a \in Apps, ShutdownCall(a) \/ Expire(a) PROVE OnceOwner'
    BY <1>4, SubsetsOfCallers DEF ShutdownCall, Expire, OnceOwner, TypeOK, bucketVars
  <1>5. CASE EventSender
    BY <1>1, <1>5 DEF EventSender, SenderStart, SenderPour, SenderStep, SenderDrain, SenderSkip,
       SenderPush, SenderCheck, senderRest, shutVars, bucketVars, New, PourIn, Refill, Arm,
       Receive, Discard, Fill, Postpone, TimeoutDrain, TimeoutEmpty, SeeClosing, Drain
  <1>6. CASE BatchSender
    BY <1>1, <1>6 DEF BatchSender, BatchReceive, BatchClosed, BatchDone, bsRest, shutVars, bucketVars
  <1>7. CASE Periodic \/ \E p \in Tasks : PeriodicTask(p)
    BY <1>1, <1>7 DEF Periodic, PeriodicTop, PeriodicCollect, PeriodicDone, PeriodicFlushed,
       PeriodicTask, perRest, shutVars, bucketVars
  <1>8. CASE UNCHANGED vars
    BY <1>1, <1>8 DEF vars, bucketVars, shutVars
  <1>9. ASSUME NEW size \in Sizes, ReportEvent(size) PROVE OnceOwner'
    BY <1>1, <1>9 DEF ReportEvent, Offer, shutVars
  <1> QED
    BY <1>2, <1>3, <1>4, <1>5, <1>6, <1>7, <1>8, <1>9, ReporterAssumption DEF Next

\* Only eventBatchSender's own steps make it leave.
LEMMA EventsFrame ==
  ASSUME TypeOK, [Next]_vars, ~BatchSender
  PROVE  lastRound' = lastRound /\ (proc'["events"] = "exited" => lastRound \/ proc["events"] = "exited")
  <1>1. ASSUME NEW p \in Procs, Resume(p)
        PROVE  proc'["events"] = "exited" => lastRound \/ proc["events"] = "exited"
    BY <1>1, Names DEF Resume, TypeOK
  <1>2. ASSUME NEW p \in Procs, Invoke(p)
        PROVE  proc'["events"] = "exited" => proc["events"] = "exited"
    BY <1>2, Names DEF Invoke, TypeOK
  <1>3. ASSUME NEW p \in Procs, RpcStep(p)
        PROVE  lastRound' = lastRound /\ (proc'["events"] = "exited" => lastRound \/ proc["events"] = "exited")
    BY <1>1, <1>3 DEF RpcStep, RpcExit, RpcAttempt, RpcRetry, RpcReturn, RpcInvalidKey, bsVars
  <1>4. ASSUME NEW c \in Callers, ShutdownStep(c)
        PROVE  lastRound' = lastRound /\ (proc'["events"] = "exited" => lastRound \/ proc["events"] = "exited")
    BY <1>1, <1>4 DEF ShutdownStep, ShutdownSelect, ShutdownOnce, ShutdownClose, ShutdownWait,
       ShutdownFinish, Return, shutRest, bsVars
  <1>5. CASE Periodic \/ \E p \in Tasks : PeriodicTask(p)
    <2>1. TryCollect => (proc'["events"] = "exited" => proc["events"] = "exited")
      BY <1>2, Names DEF TryCollect, rpcVars
    <2>2. CASE Periodic
      BY <2>1, <2>2 DEF Periodic, PeriodicTop, PeriodicCollect, PeriodicDone, PeriodicFlushed,
         perRest, bsVars, rpcVars
    <2>3. ASSUME NEW p \in Tasks, PeriodicTask(p)
          PROVE  lastRound' = lastRound /\ (proc'["events"] = "exited" => proc["events"] = "exited")
      <3>1. p \in Procs
        BY DEF Procs
      <3> QED
        BY <1>2, <2>3, <3>1 DEF PeriodicTask, perRest, bsVars, rpcVars
    <2> QED
      BY <1>5, <2>2, <2>3
  <1>6. CASE EventSender
    BY <1>6 DEF EventSender, SenderStart, SenderPour, SenderStep, SenderDrain, SenderSkip,
       SenderPush, SenderCheck, senderRest, rpcVars
  <1>7. ASSUME NEW a, ShutdownCall(a) \/ Expire(a) PROVE UNCHANGED <<lastRound, proc>>
    BY <1>7 DEF ShutdownCall, Expire, shutRest, bsVars
  <1>8. ASSUME NEW size, ReportEvent(size) PROVE UNCHANGED <<lastRound, proc>>
    BY <1>8 DEF ReportEvent, bsVars, rpcVars
  <1>9. CASE UNCHANGED vars
    BY <1>9 DEF vars, bsVars, rpcVars
  <1> QED
    BY <1>3, <1>4, <1>5, <1>6, <1>7, <1>8, <1>9 DEF Next

LEMMA LeavingStep ==
  ASSUME TypeOK, DeafOnlyAfterExit, OnceOwner, Leaving, [Next]_vars
  PROVE  Leaving'
  <1>1. CASE BatchDone
    <2>1. closed'
      BY <1>1 DEF BatchDone, bsRest, bucketVars
    <2>2. Len(batches') < BatchCap \/ sender' \in {"check", "exited"}
      <3>1. CASE deaf
        BY <1>1, <3>1 DEF BatchDone, bsRest, DeafOnlyAfterExit
      <3>2. CASE ~deaf /\ batches # <<>>
        <4>1. Len(Tail(batches)) = Len(batches) - 1 /\ Len(batches) \in Nat
          BY <3>2, HeadTailProperties, LenProperties DEF TypeOK
        <4>2. Len(batches) - 1 < BatchCap
          BY <4>1, ReporterAssumption DEF TypeOK
        <4> QED
          BY <1>1, <3>2, <4>1, <4>2 DEF BatchDone
      <3>3. CASE ~deaf /\ batches = <<>>
        <4>1. 0 < BatchCap
          BY ReporterAssumption
        <4> QED
          BY <1>1, <3>3, <4>1, NoBatches DEF BatchDone
      <3> QED
        BY <3>1, <3>2, <3>3
    <2> QED
      BY <2>1, <2>2 DEF Leaving
  <1>2. CASE BatchReceive
    <2>1. batches # <<>> /\ batches' = Tail(batches)
      BY <1>2 DEF BatchReceive
    <2>2. Len(batches') < BatchCap
      <3>1. Len(Tail(batches)) = Len(batches) - 1 /\ Len(batches) \in Nat
        BY <2>1, HeadTailProperties, LenProperties DEF TypeOK
      <3> QED
        BY <2>1, <3>1, ReporterAssumption DEF TypeOK
    <2>3. lastRound' \/ proc'["events"] = "exited" => lastRound
      BY <1>2, Names DEF BatchReceive, Invoke, TypeOK, rpcVars
    <2>4. closed' = closed
      BY <1>2 DEF BatchReceive, bsRest, bucketVars
    <2> QED
      BY <2>2, <2>3, <2>4 DEF Leaving
  <1>3. CASE BatchClosed
    BY <1>3 DEF BatchClosed, bsRest, bucketVars, rpcVars, Leaving
  <1>4. CASE ~BatchSender
    <2> SUFFICES ASSUME lastRound' \/ proc'["events"] = "exited"
                 PROVE  closed' /\ (Len(batches') < BatchCap \/ sender' \in {"check", "exited"})
      BY DEF Leaving
    <2>1. closed /\ (Len(batches) < BatchCap \/ sender \in {"check", "exited"})
      BY <1>4, EventsFrame DEF Leaving
    <2>2. closed'
      BY <2>1, ClosedStays
    <2>3. CASE EventSender
      BY <2>1, <2>2, <2>3 DEF EventSender, SenderStart, SenderPour, SenderStep, SenderDrain, SenderSkip,
         SenderPush, SenderCheck
    <2>4. CASE UNCHANGED <<sender, held, batches, deaf, lastRound>>
      BY <2>1, <2>2, <2>4
    <2> QED
      BY <1>4, <2>3, <2>4, QueueFrame
  <1> QED
    BY <1>1, <1>2, <1>3, <1>4 DEF BatchSender

\* Only periodicTasks starts collectMetrics, and only in its loop.
LEMMA MetricsFrame ==
  ASSUME TypeOK, OneCollector, [Next]_vars, ~Periodic
  PROVE  /\ OneCollector'
         /\ per' \in {"flush", "exited"} => per' = per
         /\ proc["metrics"] = "idle" => proc'["metrics"] = "idle"
  <1>1. ASSUME NEW p \in Procs, Resume(p)
        PROVE  OneCollector' /\ (proc["metrics"] = "idle" => proc'["metrics"] = "idle")
    <2>1. CASE p = "metrics"
      BY <1>1, <2>1, Names DEF Resume, TypeOK, OneCollector
    <2>2. CASE p # "metrics"
      <3>1. proc'["metrics"] = proc["metrics"]
        BY <1>1, <2>2, Names DEF Resume, TypeOK
      <3>2. token' = token
        BY <1>1, <2>2 DEF Resume, TypeOK
      <3> QED
        BY <3>1, <3>2 DEF OneCollector
    <2> QED
      BY <2>1, <2>2
  <1>2. ASSUME NEW p \in Procs, p # "metrics", Invoke(p), token' = token
        PROVE  OneCollector' /\ (proc["metrics"] = "idle" => proc'["metrics"] = "idle")
    BY <1>2, Names DEF Invoke, TypeOK, OneCollector
  <1>3. ASSUME UNCHANGED <<token, proc>>
        PROVE  OneCollector' /\ (proc["metrics"] = "idle" => proc'["metrics"] = "idle")
    BY <1>3 DEF OneCollector
  <1> DEFINE Goal == /\ OneCollector'
                     /\ per' \in {"flush", "exited"} => per' = per
                     /\ proc["metrics"] = "idle" => proc'["metrics"] = "idle"
  <1>4. ASSUME NEW p \in Procs, RpcStep(p) PROVE Goal
    BY <1>1, <1>3, <1>4 DEF RpcStep, RpcExit, RpcAttempt, RpcRetry, RpcReturn, RpcInvalidKey, ptVars
  <1>5. ASSUME NEW c \in Callers, ShutdownStep(c) PROVE Goal
    BY <1>1, <1>3, <1>5 DEF ShutdownStep, ShutdownSelect, ShutdownOnce, ShutdownClose,
       ShutdownWait, ShutdownFinish, Return, shutRest
  <1>6. CASE \E p \in Tasks : PeriodicTask(p)
    <2> PICK p \in Tasks : PeriodicTask(p)
      BY <1>6
    <2>1. p \in Procs /\ p # "metrics"
      BY Names DEF Procs
    <2> QED
      BY <1>2, <1>3, <2>1 DEF PeriodicTask, rpcVars
  <1>7. CASE BatchSender
    <2>1. "events" \in Procs /\ UNCHANGED ptVars
      BY <1>7, Names DEF BatchSender, BatchReceive, BatchClosed, BatchDone, bsRest
    <2>2. \/ Invoke("events")
          \/ UNCHANGED proc
          \/ proc' = [proc EXCEPT !["events"] = "exited"]
      BY <1>7 DEF BatchSender, BatchReceive, BatchClosed, BatchDone, rpcVars
    <2>3. ASSUME proc' = [proc EXCEPT !["events"] = "exited"]
          PROVE  proc'["metrics"] = proc["metrics"]
      BY <2>3, Names DEF TypeOK
    <2>4. UNCHANGED <<token, per>>
      BY <2>1 DEF ptVars
    <2> QED
      BY <1>2, <1>3, <2>1, <2>2, <2>3, <2>4 DEF OneCollector
  <1>8. CASE EventSender
    BY <1>3, <1>8 DEF EventSender, SenderStart, SenderPour, SenderStep, SenderDrain, SenderSkip,
       SenderPush, SenderCheck, senderRest, rpcVars, ptVars
  <1>9. ASSUME NEW a, ShutdownCall(a) \/ Expire(a) PROVE Goal
    BY <1>3, <1>9 DEF ShutdownCall, Expire, shutRest
  <1>10. ASSUME NEW size, ReportEvent(size) PROVE Goal
    BY <1>3, <1>10 DEF ReportEvent, rpcVars, ptVars
  <1>11. CASE UNCHANGED vars
    BY <1>3, <1>11 DEF vars, rpcVars, ptVars
  <1> QED
    BY <1>4, <1>5, <1>6, <1>7, <1>8, <1>9, <1>10, <1>11 DEF Next

LEMMA CollectorStep ==
  ASSUME TypeOK, OnceOwner, FlushAfterClose, OneCollector, FlushComplete, [Next]_vars
  PROVE  OneCollector' /\ FlushComplete' /\ FlushAfterClose'
  <1>1. CASE Periodic
    <2>1. UNCHANGED <<closed, gracefully>>
      BY <1>1 DEF Periodic, PeriodicTop, PeriodicCollect, PeriodicDone, PeriodicFlushed,
         perRest, bucketVars, shutVars
    <2>2. TryCollect => OneCollector'
      BY DEF TryCollect, OneCollector, rpcVars
    <2>3. CASE PeriodicTop
      BY <2>1, <2>3 DEF PeriodicTop, rpcVars, OneCollector, FlushComplete, FlushAfterClose
    <2>4. CASE PeriodicCollect
      BY <2>2, <2>4 DEF PeriodicCollect, FlushComplete, FlushAfterClose
    <2>5. CASE PeriodicDone
      BY <2>1, <2>2, <2>5 DEF PeriodicDone, rpcVars, OneCollector, FlushComplete, FlushAfterClose
    <2>6. CASE PeriodicFlushed
      BY <2>1, <2>6 DEF PeriodicFlushed, rpcVars, OneCollector, FlushComplete, FlushAfterClose
    <2> QED
      BY <1>1, <2>3, <2>4, <2>5, <2>6 DEF Periodic
  <1>2. CASE ~Periodic
    BY <1>2, MetricsFrame, ClosedStays DEF FlushComplete, FlushAfterClose
  <1> QED
    BY <1>1, <1>2

LEMMA ReporterInvInit == Init => ReporterInv
  <1> SUFFICES ASSUME Init PROVE ReporterInv
    OBVIOUS
  <1>1. NonEmptyBatches
    BY NoBatches DEF Init, NonEmptyBatches
  <1>2. Leaving /\ OneCollector /\ FlushComplete
    BY Names DEF Init, BucketInit, Leaving, OneCollector, FlushComplete
  <1>3. DeafOnlyAfterExit /\ OnceOwner /\ FlushAfterClose
    BY DEF Init, BucketInit, DeafOnlyAfterExit, OnceOwner, FlushAfterClose
  <1> QED
    BY <1>1, <1>2, <1>3, InitTypes DEF ReporterInv

LEMMA ReporterInvNext == ReporterInv /\ [Next]_vars => ReporterInv'
  BY StepTypes, BatchesStep, LeavingStep, OnceStep, CollectorStep DEF ReporterInv

-----------------------------------------------------------------------------
(* The order of the batches. *)

\* Handed out by the bucket, but not yet to InvokeRPC.
OnTheWay == batches \o (IF sender = "push" THEN <<held>> ELSE <<>>)

Listening == ~lastRound /\ proc["events"] # "exited"

\* eventBatchSender is busy while it is in InvokeRPC or in ShutdownNow, and in one of them.
Serving ==
  /\ rpc["events"] # "none" => proc["events"] = "busy" /\ shut["events"] = "none"
  /\ shut["events"] # "none" => proc["events"] = "busy"

\* As long as eventBatchSender listens, all that was drained has been posted or is on its
\* way, and `messages' is what was posted last.
Posting ==
  /\ \A i \in 1..Len(posts) : posts[i] # <<>>
  /\ lastRound => proc["events"] # "idle"
  /\ deaf => messages = <<>>
  /\ Listening => /\ CutUp(posts \o OnTheWay, drained)
                  /\ messages # <<>> => posts # <<>> /\ messages = posts[Len(posts)]

OrderInv == ReporterInv /\ Serving /\ Posting /\ PostsInOrder

\* The steps of the others.
LEMMA ServingFrame ==
  ASSUME TypeOK, [Next]_vars, ~BatchSender, ~RpcStep("events"), ~ShutdownStep("events")
  PROVE  /\ proc'["events"] = proc["events"]
         /\ rpc'["events"] = rpc["events"]
         /\ shut'["events"] = shut["events"]
  <1> DEFINE Goal == /\ proc'["events"] = proc["events"]
                     /\ rpc'["events"] = rpc["events"]
                     /\ shut'["events"] = shut["events"]
  <1>0. "events" \in Procs /\ "events" \in Callers /\ "events" \notin Apps
    BY Names, ReporterAssumption DEF Callers, Procs
  <1>1. ASSUME NEW p \in Procs, p # "events", Resume(p) PROVE proc'["events"] = proc["events"]
    BY <1>0, <1>1 DEF Resume, TypeOK
  <1>2. ASSUME NEW p \in Procs, p # "events", Invoke(p)
        PROVE  proc'["events"] = proc["events"] /\ rpc'["events"] = rpc["events"]
    BY <1>0, <1>2 DEF Invoke, TypeOK
  <1>3. ASSUME NEW p \in Procs, RpcStep(p) PROVE Goal
    <2>1. p # "events"
      BY <1>3
    <2> QED
      BY <1>0, <1>1, <1>3, <2>1 DEF TypeOK, RpcStep, RpcExit, RpcAttempt, RpcRetry, RpcReturn, RpcInvalidKey, shutVars
  <1>4. ASSUME NEW c \in Callers, ShutdownStep(c) PROVE Goal
    <2>1. c # "events"
      BY <1>4
    <2>2. ASSUME NEW err, Return(c, err)
          PROVE  proc'["events"] = proc["events"] /\ shut'["events"] = shut["events"]
      BY <1>0, <1>1, <2>1, <2>2 DEF Return, TypeOK
    <2> QED
      BY <1>0, <1>4, <2>1, <2>2 DEF TypeOK, ShutdownStep, ShutdownSelect, ShutdownOnce, ShutdownClose, ShutdownWait,
         ShutdownFinish, shutRest
  <1>5. CASE Periodic \/ \E p \in Tasks : PeriodicTask(p)
    <2>1. TryCollect => proc'["events"] = proc["events"] /\ rpc'["events"] = rpc["events"]
      BY <1>2, Names DEF TryCollect, rpcVars
    <2>2. CASE Periodic
      BY <2>1, <2>2 DEF Periodic, PeriodicTop, PeriodicCollect, PeriodicDone, PeriodicFlushed,
         perRest, shutVars, rpcVars
    <2>3. ASSUME NEW p \in Tasks, PeriodicTask(p) PROVE Goal
      <3>1. p \in Procs /\ p # "events"
        BY Names DEF Procs
      <3> QED
        BY <1>2, <2>3, <3>1 DEF PeriodicTask, perRest, shutVars, rpcVars
    <2> QED
      BY <1>5, <2>2, <2>3
  <1>6. CASE EventSender
    BY <1>6 DEF EventSender, SenderStart, SenderPour, SenderStep, SenderDrain, SenderSkip,
       SenderPush, SenderCheck, senderRest, rpcVars, shutVars
  <1>7. ASSUME NEW a \in Apps, ShutdownCall(a) \/ Expire(a) PROVE Goal
    BY <1>0, <1>7 DEF ShutdownCall, Expire, shutRest, TypeOK
  <1>8. ASSUME NEW size, ReportEvent(size) PROVE Goal
    BY <1>8 DEF ReportEvent, rpcVars, shutVars
  <1>9. CASE UNCHANGED vars
    BY <1>9 DEF vars, rpcVars, shutVars
  <1> QED
    BY <1>3, <1>4, <1>5, <1>6, <1>7, <1>8, <1>9, ReporterAssumption DEF Next

\* Whoever moves, eventBatchSender is idle again only if it was busy, and never after it has
\* left or in its last round.
LEMMA ServingStep ==
  ASSUME TypeOK, Serving, lastRound => proc["events"] # "idle", [Next]_vars, ~BatchSender
  PROVE  /\ Serving'
         /\ lastRound' => proc'["events"] # "idle"
         /\ Listening' => Listening
  <1>0. "events" \in Procs /\ "events" \in Callers
    BY Names DEF Callers
  <1>1. lastRound' = lastRound
    BY EventsFrame
  <1>2. CASE ~RpcStep("events") /\ ~ShutdownStep("events")
    BY <1>1, <1>2, ServingFrame DEF Serving, Listening
  <1>3. CASE RpcStep("events")
    <2>1. proc["events"] = "busy" /\ shut["events"] = "none"
      BY <1>3 DEF Serving, RpcStep, RpcExit, RpcAttempt, RpcRetry, RpcReturn, RpcInvalidKey
    <2>2. CASE RpcExit("events") \/ RpcReturn("events")
      <3>1. rpc'["events"] = "none" /\ shut'["events"] = "none"
        BY <1>0, <2>1, <2>2 DEF RpcExit, RpcReturn, TypeOK, shutVars
      <3>2. proc'["events"] = IF lastRound THEN "exited" ELSE "idle"
        BY <1>0, <2>2 DEF RpcExit, RpcReturn, Resume, TypeOK
      <3> QED
        BY <1>1, <2>1, <3>1, <3>2 DEF Serving, Listening
    <2>3. CASE RpcAttempt("events") \/ RpcRetry("events") \/ RpcInvalidKey("events")
      <3>1. proc'["events"] = "busy"
        BY <2>1, <2>3 DEF RpcAttempt, RpcRetry, RpcInvalidKey
      <3>2. rpc'["events"] # "none" => shut'["events"] = "none"
        BY <1>0, <2>1, <2>3 DEF RpcAttempt, RpcRetry, RpcInvalidKey, TypeOK, shutVars
      <3> QED
        BY <1>1, <2>1, <3>1, <3>2 DEF Serving, Listening
    <2> QED
      BY <1>3, <2>2, <2>3 DEF RpcStep
  <1>4. CASE ShutdownStep("events")
    <2>1. proc["events"] = "busy" /\ rpc["events"] = "none"
      BY <1>4 DEF Serving, ShutdownStep, ShutdownSelect, ShutdownOnce, ShutdownClose, ShutdownWait,
         ShutdownFinish
    <2>2. rpc'["events"] = "none"
      BY <1>4, <2>1 DEF ShutdownStep, ShutdownSelect, ShutdownOnce, ShutdownClose, ShutdownWait,
         ShutdownFinish, shutRest
    <2>3. ASSUME NEW err, Return("events", err)
          PROVE  shut'["events"] = "none" /\ proc'["events"] = IF lastRound THEN "exited" ELSE "idle"
      BY <1>0, <2>3 DEF Return, Resume, TypeOK
    <2>4. \/ proc'["events"] = "busy"
          \/ shut'["events"] = "none" /\ proc'["events"] = IF lastRound THEN "exited" ELSE "idle"
      BY <1>4, <2>1, <2>3 DEF ShutdownStep, ShutdownSelect, ShutdownOnce, ShutdownClose, ShutdownWait,
         ShutdownFinish
    <2> QED
      BY <1>1, <2>1, <2>2, <2>4 DEF Serving, Listening
  <1> QED
    BY <1>2, <1>3, <1>4

\* What only eventSender and eventBatchSender touch.
LEMMA PostsFrame ==
  ASSUME [Next]_vars
  PROVE  EventSender \/ BatchSender
         \/ UNCHANGED <<sender, held, batches, messages, deaf, lastRound, posts, drained>>
  BY DEF Next, vars, ReportEvent, Offer, CloseIndicator, bsVars, bucketVars, Periodic, PeriodicTop, PeriodicCollect,
         PeriodicDone, PeriodicFlushed, PeriodicTask, perRest, RpcStep, RpcExit, RpcAttempt,
         RpcRetry, RpcReturn, RpcInvalidKey, ShutdownCall, Expire, ShutdownStep,
         ShutdownSelect, ShutdownOnce, ShutdownClose, ShutdownWait, ShutdownFinish, shutRest

LEMMA OnTheWayTypes ==
  ASSUME TypeOK
  PROVE  /\ posts \in Seq(Seq(Events)) /\ batches \in Seq(Seq(Events)) /\ held \in Seq(Events)
         /\ OnTheWay \in Seq(Seq(Events))
         /\ posts \o OnTheWay \in Seq(Seq(Events))
         /\ AllButLast(posts) \in Seq(Seq(Events))
         /\ drained \in Seq(Events) /\ water \in Seq(Events)
  <1>1. posts \in Seq(Seq(Events)) /\ batches \in Seq(Seq(Events)) /\ held \in Seq(Events)
    BY DEF TypeOK
  <1>2. drained \in Seq(Events) /\ water \in Seq(Events)
    BY DEF TypeOK, BucketTypeOK
  <1> DEFINE last == IF sender = "push" THEN <<held>> ELSE <<>>
  <1>3. <<held>> \in Seq(Seq(Events)) /\ <<>> \in Seq(Seq(Events))
    BY <1>1
  <1>4. last \in Seq(Seq(Events))
    BY <1>3
  <1>5. OnTheWay \in Seq(Seq(Events))
    BY <1>1, <1>4, ConcatProperties DEF OnTheWay
  <1>6. posts \o OnTheWay \in Seq(Seq(Events))
    BY <1>1, <1>5, ConcatProperties
  <1>7. AllButLast(posts) \in Seq(Seq(Events))
    <2>1. Len(posts) \in Nat /\ \A i \in 1..(Len(posts) - 1) : posts[i] \in Seq(Events)
      BY <1>1, LenProperties
    <2>2. 1 \in Int /\ Len(posts) - 1 \in Int
      BY <2>1
    <2> QED
      BY <2>1, <2>2, SubSeqProperties DEF AllButLast
  <1> QED
    BY <1>1, <1>2, <1>5, <1>6, <1>7

LEMMA AllButAppended ==
  ASSUME NEW S, NEW s \in Seq(S), NEW e \in S
  PROVE  /\ AllButLast(Append(s, e)) = s
         /\ Append(s, e)[Len(Append(s, e))] = e
         /\ s # <<>> => /\ Len(Append(s, e)) > 1
                        /\ Append(s, e)[Len(Append(s, e)) - 1] = s[Len(s)]
  <1>1. /\ Len(Append(s, e)) = Len(s) + 1 /\ Len(s) \in Nat
        /\ \A i \in 1..Len(s) : Append(s, e)[i] = s[i]
        /\ Append(s, e)[Len(s) + 1] = e
    BY AppendProperties, LenProperties
  <1>2. SubSeq(Append(s, e), 1, Len(s)) = s
    <2>1. <<e>> \in Seq(S) /\ Append(s, e) = s \o <<e>>
      BY AppendIsConcat
    <2>2. SubSeq(s \o <<e>>, 0 + 1, Len(s)) = SubSeq(s, 0 + 1, Len(s))
      BY <1>1, <2>1, PieceStays
    <2> QED
      BY <2>1, <2>2, SubSeqFull
  <1>3. s # <<>> => Len(s) # 0
    BY EmptySeq
  <1>4. Len(Append(s, e)) - 1 = Len(s)
    BY <1>1
  <1>5. AllButLast(Append(s, e)) = s
    BY <1>2, <1>4 DEF AllButLast
  <1>6. ASSUME s # <<>> PROVE Len(s) \in 1..Len(s) /\ Len(Append(s, e)) > 1
    BY <1>1, <1>3, <1>6
  <1>7. s # <<>> => Append(s, e)[Len(Append(s, e)) - 1] = s[Len(s)]
    BY <1>1, <1>4, <1>6
  <1> QED
    BY <1>1, <1>5, <1>6, <1>7

\* eventSender adds batches at the end.
LEMMA SenderOrder ==
  ASSUME TypeOK, Posting, PostsInOrder, EventSender
  PROVE  Posting' /\ PostsInOrder'
  <1>1. UNCHANGED <<messages, deaf, lastRound, posts, proc>>
    BY DEF EventSender, SenderStart, SenderPour, SenderStep, SenderDrain, SenderSkip,
       SenderPush, SenderCheck, senderRest, rpcVars
  <1>2. CASE SenderDrain
    <2>1. OnTheWay = batches /\ OnTheWay' = Append(batches, water) /\ drained' = drained \o water
      <3>1. /\ sender = "in" /\ sender' = "push" /\ held' = water /\ batches' = batches
            /\ drained' = drained \o water
        BY <1>2 DEF SenderDrain, Drain
      <3>2. batches \o <<>> = batches /\ batches \o <<water>> = Append(batches, water)
        BY OnTheWayTypes, ConcatEmptySeq, AppendIsConcat
      <3> QED
        BY <3>1, <3>2 DEF OnTheWay
    <2>2. posts \o Append(batches, water) = Append(posts \o batches, water)
      BY OnTheWayTypes, ConcatAppend
    <2>3. ASSUME Listening PROVE CutUp(posts' \o OnTheWay', drained')
      <3>1. CutUp(posts \o batches, drained) /\ posts \o batches \in Seq(Seq(Events))
        BY <2>1, <2>3, OnTheWayTypes DEF Posting
      <3>2. CutUp(Append(posts \o batches, water), drained \o water)
        BY <3>1, OnTheWayTypes, OneMoreBatch
      <3> QED
        BY <1>1, <2>1, <2>2, <3>2
    <2>4. CutOff(posts, drained) => CutOff(posts, drained \o water)
      BY OnTheWayTypes, MoreEvents
    <2>5. CutOff(AllButLast(posts), drained) => CutOff(AllButLast(posts), drained \o water)
      BY OnTheWayTypes, MoreEvents
    <2>6. PostsInOrder'
      BY <1>1, <2>1, <2>4, <2>5 DEF PostsInOrder, Resent, AllButLast
    <2> QED
      BY <1>1, <2>3, <2>6 DEF Posting, Listening
  <1>3. ASSUME UNCHANGED <<OnTheWay, drained>> PROVE Posting' /\ PostsInOrder'
    BY <1>1, <1>3 DEF Posting, Listening, PostsInOrder, Resent, AllButLast
  <1>4. CASE SenderPush
    <2>1. /\ sender = "push" /\ sender' = "check" /\ batches' = Append(batches, held)
          /\ drained' = drained
      BY <1>4 DEF SenderPush, bucketVars
    <2>2. batches \o <<held>> = Append(batches, held) /\ Append(batches, held) \o <<>> = Append(batches, held)
      BY OnTheWayTypes, AppendIsConcat, AppendProperties, ConcatEmptySeq
    <2> QED
      BY <1>3, <2>1, <2>2 DEF OnTheWay
  <1>5. CASE SenderStart \/ SenderPour \/ SenderStep \/ SenderSkip \/ SenderCheck
    <2>1. sender # "push" /\ sender' # "push" /\ UNCHANGED <<batches, drained>>
      BY <1>5 DEF SenderStart, SenderPour, SenderStep, SenderSkip, SenderCheck, New, PourIn, Refill, Arm,
         Receive, Discard, Fill, Postpone, TimeoutDrain, TimeoutEmpty, SeeClosing, bucketVars
    <2> QED
      BY <1>3, <2>1 DEF OnTheWay
  <1> QED
    BY <1>2, <1>4, <1>5 DEF EventSender

\* One batch goes over from the channel to InvokeRPC.
LEMMA OneTaken ==
  ASSUME NEW S, NEW done \in Seq(S), NEW queue \in Seq(S), NEW last \in Seq(S), queue # <<>>
  PROVE  done \o (queue \o last) = Append(done, Head(queue)) \o (Tail(queue) \o last)
  <1> DEFINE h == Head(queue)
             t == Tail(queue)
  <1>1. h \in S /\ t \in Seq(S) /\ <<h>> \in Seq(S)
    BY HeadTailProperties
  <1>2. queue = <<h>> \o t
    BY <1>1, HeadTailProperties, ConcatProperties
  <1>3. t \o last \in Seq(S)
    BY <1>1, ConcatProperties
  <1>4. (<<h>> \o t) \o last = <<h>> \o (t \o last)
    BY <1>1, ConcatAssociative
  <1>5. done \o (<<h>> \o (t \o last)) = (done \o <<h>>) \o (t \o last)
    BY <1>1, <1>3, ConcatAssociative
  <1>6. Append(done, h) = done \o <<h>>
    BY <1>1, AppendIsConcat
  <1> QED
    BY <1>2, <1>4, <1>5, <1>6

LEMMA BatchTaken ==
  ASSUME TypeOK, NonEmptyBatches, batches # <<>>, batches' = Tail(batches), UNCHANGED <<sender, held>>
  PROVE  /\ Head(batches) \in Seq(Events) /\ Head(batches) # <<>>
         /\ OnTheWay' \in Seq(Seq(Events))
         /\ posts \o OnTheWay = Append(posts, Head(batches)) \o OnTheWay'
  <1>1. Head(batches) \in Seq(Events) /\ Tail(batches) \in Seq(Seq(Events))
    BY OnTheWayTypes, HeadTailProperties
  <1>2. Head(batches) # <<>>
    <2>1. Len(batches) \in Nat \ {0} /\ Head(batches) = batches[1]
      BY OnTheWayTypes, EmptySeq, LenProperties
    <2> QED
      BY <2>1 DEF NonEmptyBatches
  <1> DEFINE last == IF sender = "push" THEN <<held>> ELSE <<>>
  <1>3. last \in Seq(Seq(Events))
    <2>1. <<held>> \in Seq(Seq(Events)) /\ <<>> \in Seq(Seq(Events))
      BY OnTheWayTypes
    <2> QED
      BY <2>1
  <1>4. OnTheWay = batches \o last /\ OnTheWay' = Tail(batches) \o last
    BY DEF OnTheWay
  <1>5. Tail(batches) \o last \in Seq(Seq(Events))
    BY <1>1, <1>3, ConcatProperties
  <1>6. posts \o (batches \o last) = Append(posts, Head(batches)) \o (Tail(batches) \o last)
    <2> DEFINE B == Seq(Events)
    <2>1. posts \in Seq(B) /\ batches \in Seq(B) /\ last \in Seq(B)
      BY <1>3, OnTheWayTypes
    <2> HIDE DEF last, B
    <2> QED
      BY <2>1, OneTaken
  <1> QED
    BY <1>1, <1>2, <1>4, <1>5, <1>6

\* eventBatchSender takes batches at the beginning.
LEMMA BatchOrder ==
  ASSUME TypeOK, NonEmptyBatches, Serving, Posting, PostsInOrder, BatchSender
  PROVE  Serving' /\ Posting' /\ PostsInOrder'
  <1> DEFINE longer == Append(posts, Head(batches))
  <1>1. /\ proc["events"] = "idle" /\ ~lastRound /\ Listening
        /\ rpc["events"] = "none" /\ shut["events"] = "none"
    BY DEF BatchSender, BatchReceive, BatchClosed, BatchDone, Posting, Serving, Listening
  <1>2. /\ CutUp(posts \o OnTheWay, drained)
        /\ messages # <<>> => posts # <<>> /\ messages = posts[Len(posts)]
    BY <1>1 DEF Posting
  <1>3. UNCHANGED <<sender, held, drained, shut>>
    BY DEF BatchSender, BatchReceive, BatchClosed, BatchDone, bsRest, bucketVars, shutVars
  <1>4. "events" \in Procs
    BY Names
  <1>5. Invoke("events") => proc'["events"] = "busy"
    BY <1>4 DEF Invoke, TypeOK
  <1>6. Serving'
    <2>1. rpc'["events"] # "none" => Invoke("events")
      BY <1>1, <1>4 DEF BatchSender, BatchReceive, BatchClosed, BatchDone, rpcVars
    <2> QED
      BY <1>1, <1>3, <1>5, <2>1 DEF Serving
  <1>7. CutOff(posts, drained)
    <2>1. CutOff(posts \o OnTheWay, drained)
      BY <1>2, CutUpIsCutOff
    <2> QED
      BY <2>1, OnTheWayTypes, FirstBatches
  <1>8. ASSUME batches # <<>>, batches' = Tail(batches)
        PROVE  /\ CutUp(longer \o OnTheWay', drained)
               /\ CutOff(longer, drained)
               /\ \A i \in 1..Len(longer) : longer[i] # <<>>
               /\ longer # <<>>
               /\ longer[Len(longer)] = Head(batches)
    <2>1. /\ Head(batches) \in Seq(Events) /\ Head(batches) # <<>>
          /\ OnTheWay' \in Seq(Seq(Events))
          /\ posts \o OnTheWay = longer \o OnTheWay'
      BY <1>3, <1>8, BatchTaken
    <2>2. posts \in Seq(Seq(Events)) /\ longer \in Seq(Seq(Events)) /\ drained \in Seq(Events)
      BY <2>1, OnTheWayTypes, AppendProperties
    <2>3. CutUp(longer \o OnTheWay', drained)
      BY <1>2, <2>1
    <2>4. CutOff(longer \o OnTheWay', drained)
      BY <2>3, CutUpIsCutOff
    <2>5. CutOff(longer, drained)
      BY <2>1, <2>2, <2>4, FirstBatches
    <2>6. /\ Len(longer) = Len(posts) + 1 /\ Len(posts) \in Nat
          /\ \A i \in 1..Len(posts) : longer[i] = posts[i]
          /\ longer[Len(posts) + 1] = Head(batches) /\ longer # <<>>
      BY <2>1, <2>2, AppendedBatch
    <2>7. ASSUME NEW i \in 1..Len(longer) PROVE longer[i] # <<>>
      <3>1. i \in 1..Len(posts) \/ i = Len(posts) + 1
        BY <2>6
      <3> QED
        BY <2>1, <2>6, <3>1 DEF Posting
    <2> QED
      BY <2>3, <2>5, <2>6, <2>7
  <1>9. CASE BatchReceive
    <2>1. batches # <<>> /\ batches' = Tail(batches) /\ messages' = Head(batches) /\ lastRound' = lastRound
      BY <1>9 DEF BatchReceive
    <2>2. Head(batches) # <<>>
      BY <1>3, <2>1, BatchTaken
    <2>3. posts' = longer /\ Invoke("events") /\ ~deaf'
      BY <1>9, <2>2 DEF BatchReceive
    <2>4. Posting'
      BY <1>1, <1>3, <1>5, <1>8, <2>1, <2>3 DEF Posting
    <2>5. PostsInOrder'
      BY <1>3, <1>8, <2>1, <2>3 DEF PostsInOrder
    <2> QED
      BY <1>6, <2>4, <2>5
  <1>10. CASE BatchClosed
    <2>1. UNCHANGED <<batches, lastRound, posts, proc>> /\ messages' = <<>>
      BY <1>10 DEF BatchClosed, rpcVars
    <2>2. OnTheWay' = OnTheWay
      BY <1>3, <2>1 DEF OnTheWay
    <2>3. Posting' /\ PostsInOrder'
      BY <1>1, <1>3, <2>1, <2>2 DEF Posting, Listening, PostsInOrder, Resent, AllButLast
    <2> QED
      BY <1>6, <2>3
  <1>11. CASE BatchDone
    <2>1. ~Listening' /\ (lastRound' => proc'["events"] # "idle")
      <3>1. proc' = [proc EXCEPT !["events"] = "exited"] => proc'["events"] = "exited"
        BY <1>4 DEF TypeOK
      <3> QED
        BY <1>1, <1>5, <1>11, <3>1 DEF BatchDone, Listening
    <2>2. deaf' => messages' = <<>>
      BY <1>11 DEF BatchDone, NextMessages, Posting
    <2>3. CASE posts' = posts
      BY <1>3, <1>6, <1>7, <2>1, <2>2, <2>3 DEF Posting, PostsInOrder
    <2>4. CASE posts' # posts
      <3>1. posts' = Append(posts, messages') /\ messages' # <<>> /\ lastRound' /\ messages' = NextMessages
        BY <1>11, <2>4 DEF BatchDone
      <3>2. ~deaf
        BY <1>11, <2>2, <3>1 DEF BatchDone
      <3>3. CASE batches # <<>>
        <4>1. posts' = longer /\ batches' = Tail(batches)
          BY <1>11, <3>1, <3>2, <3>3 DEF BatchDone, NextMessages
        <4> QED
          BY <1>3, <1>6, <1>8, <2>1, <2>2, <3>3, <4>1 DEF Posting, PostsInOrder
      <3>4. CASE batches = <<>>
        <4>1. messages' = messages
          BY <3>1, <3>2, <3>4 DEF NextMessages
        <4>2. posts # <<>> /\ messages = posts[Len(posts)] /\ messages \in Seq(Events)
          BY <1>2, <3>1, <4>1 DEF TypeOK
        <4>3. /\ AllButLast(posts') = posts
              /\ posts'[Len(posts')] = messages
              /\ Len(posts') > 1
              /\ posts'[Len(posts') - 1] = posts[Len(posts)]
          BY <3>1, <4>1, <4>2, OnTheWayTypes, AllButAppended
        <4>4. CutOff(AllButLast(posts)', drained') /\ Resent'
          BY <1>3, <1>7, <4>2, <4>3 DEF AllButLast, Resent
        <4>5. \A i \in 1..Len(posts') : posts'[i] # <<>>
          <5>1. /\ Len(posts') = Len(posts) + 1 /\ Len(posts) \in Nat
                /\ \A i \in 1..Len(posts) : posts'[i] = posts[i]
            BY <3>1, <4>1, <4>2, OnTheWayTypes, AppendProperties, LenProperties
          <5>2. TAKE i \in 1..Len(posts')
          <5>3. i \in 1..Len(posts) \/ i = Len(posts')
            BY <5>1
          <5> QED
            BY <3>1, <4>1, <4>3, <5>1, <5>3 DEF Posting
        <4> QED
          BY <1>6, <2>1, <2>2, <3>1, <4>4, <4>5 DEF Posting, PostsInOrder
      <3> QED
        BY <3>3, <3>4
    <2> QED
      BY <2>3, <2>4
  <1> QED
    BY <1>9, <1>10, <1>11 DEF BatchSender

LEMMA OrderInvNext == OrderInv /\ [Next]_vars => OrderInv'
  <1> SUFFICES ASSUME OrderInv, [Next]_vars PROVE OrderInv'
    OBVIOUS
  <1>1. ReporterInv'
    BY ReporterInvNext DEF OrderInv
  <1>2. TypeOK /\ NonEmptyBatches /\ Serving /\ Posting /\ PostsInOrder
    BY DEF OrderInv, ReporterInv
  <1>3. CASE BatchSender
    BY <1>1, <1>2, <1>3, BatchOrder DEF OrderInv
  <1>4. CASE ~BatchSender
    <2>1. Serving' /\ (lastRound' => proc'["events"] # "idle") /\ (Listening' => Listening)
      BY <1>2, <1>4, ServingStep DEF Posting
    <2>2. CASE EventSender
      BY <1>1, <1>2, <2>1, <2>2, SenderOrder DEF OrderInv
    <2>3. CASE UNCHANGED <<sender, held, batches, messages, deaf, lastRound, posts, drained>>
      <3>1. OnTheWay' = OnTheWay
        BY <2>3 DEF OnTheWay
      <3>2. Posting'
        BY <1>2, <2>1, <2>3, <3>1 DEF Posting
      <3>3. PostsInOrder'
        BY <1>2, <2>3 DEF PostsInOrder, Resent, AllButLast
      <3> QED
        BY <1>1, <2>1, <3>2, <3>3 DEF OrderInv
    <2> QED
      BY <1>4, <2>2, <2>3, PostsFrame
  <1> QED
    BY <1>3, <1>4

LEMMA OrderInvInit == Init => OrderInv
  <1> SUFFICES ASSUME Init PROVE OrderInv
    OBVIOUS
  <1>1. posts = <<>> /\ OnTheWay = <<>> \o <<>> /\ drained = <<>> /\ messages = <<>> /\ ~lastRound
    BY DEF Init, BucketInit, OnTheWay
  <1>2. <<>> \o (<<>> \o <<>>) = <<>>
    BY NoBatches, ConcatEmptySeq
  <1>3. CutUp(posts \o OnTheWay, drained) /\ CutOff(posts, drained)
    BY <1>1, <1>2, NothingIsCutUp, CutUpIsCutOff
  <1>4. \A i \in 1..Len(posts) : posts[i] # <<>>
    BY <1>1, NoBatches
  <1>5. Posting /\ PostsInOrder
    BY <1>1, <1>3, <1>4 DEF Posting, PostsInOrder
  <1>6. Serving
    BY Names, SubsetsOfCallers DEF Init, Serving
  <1> QED
    BY <1>5, <1>6, ReporterInvInit DEF OrderInv

-----------------------------------------------------------------------------
(* Shutdown. *)

InShutdown(c) == shut[c] \notin {"none", "returned"}

\* What the next step of a caller of Shutdown finds, if nothing holds it up.
CanGoOn(c) ==
  \/ shut[c] \in {"select", "finish"}
  \/ shut[c] = "once" /\ once \in {"free", "done"}
  \/ shut[c] = "marked" /\ ~closed
  \/ shut[c] = "wait" /\ (flushed \/ CtxDone(c))

AwaitsFlush(c) == c \in Apps \ expired /\ shut[c] = "wait" /\ closed /\ ~flushed

ShutdownServed ==
  \A c \in Callers : InShutdown(c) =>
    \/ CanGoOn(c)
    \/ AwaitsFlush(c)
    \/ shut[c] = "once" /\ once \in Callers /\ (CanGoOn(once) \/ AwaitsFlush(once))

\* The steps of Shutdown in their order.
Way(l) ==
  CASE l = "select" -> 1 [] l = "once" -> 2 [] l = "marked" -> 3 [] l = "wait" -> 4
    [] l = "finish" -> 5 [] OTHER -> 0

ShutdownAdvances ==
  \A c \in Callers : InShutdown(c) =>
    \/ shut'[c] \in {"none", "returned"}
    \/ Way(shut'[c]) > Way(shut[c])
    \/ /\ UNCHANGED shut[c] /\ ~ShutdownStep(c)
       /\ CanGoOn(c) => CanGoOn(c)' \/ (shut[c] = "once" /\ once = "free")

\* Who owns Do is in it, and `done' is closed in the middle of it, once.
DoHeld ==
  /\ once \in Callers => shut[once] \in {"marked", "wait", "finish"}
  /\ once = "done" => closed
  /\ \A c \in Callers : /\ shut[c] = "marked" => ~closed
                        /\ shut[c] \in {"wait", "finish"} => closed

\* A goroutine that issues RPCs is within InvokeRPC or within Shutdown, and neither twice.
Apart ==
  \A p \in Procs :
    /\ rpc[p] # "none" => proc[p] = "busy" /\ shut[p] = "none"
    /\ shut[p] # "none" => proc[p] = "busy"

ShutInv == ReporterInv /\ DoHeld /\ Apart

\* Which steps move a caller of Shutdown.
LEMMA ShutFrame ==
  [Next]_vars =>
    \/ \E c \in Callers : ShutdownStep(c)
    \/ \E p \in Procs : RpcInvalidKey(p)
    \/ \E a \in Apps : ShutdownCall(a)
    \/ UNCHANGED <<closed, once, shut>>
  <1> SUFFICES ASSUME [Next]_vars,
                      ~\E c \in Callers : ShutdownStep(c),
                      ~\E p \in Procs : RpcInvalidKey(p),
                      ~\E a \in Apps : ShutdownCall(a)
               PROVE  UNCHANGED <<closed, once, shut>>
    OBVIOUS
  <1>1. CASE EventSender
    BY <1>1 DEF EventSender, SenderStart, SenderPour, SenderStep, SenderDrain, SenderSkip,
       SenderPush, SenderCheck, senderRest, shutVars, bucketVars, New, PourIn, Refill, Arm,
       Receive, Discard, Fill, Postpone, TimeoutDrain, TimeoutEmpty, SeeClosing, Drain
  <1>2. CASE BatchSender
    BY <1>2 DEF BatchSender, BatchReceive, BatchClosed, BatchDone, bsRest, shutVars, bucketVars
  <1>3. CASE Periodic \/ \E p \in Tasks : PeriodicTask(p)
    BY <1>3 DEF Periodic, PeriodicTop, PeriodicCollect, PeriodicDone, PeriodicFlushed,
       PeriodicTask, perRest, shutVars, bucketVars
  <1>4. CASE \E p \in Procs : RpcStep(p)
    BY <1>4 DEF RpcStep, RpcExit, RpcAttempt, RpcRetry, RpcReturn, shutVars, bucketVars
  <1>5. CASE \E a \in Deadlines : Expire(a)
    BY <1>5 DEF Expire, bucketVars
  <1>6. CASE \E size \in Sizes : ReportEvent(size)
    BY <1>6 DEF ReportEvent, Offer, shutVars
  <1>7. CASE UNCHANGED vars
    BY <1>7 DEF vars, bucketVars, shutVars
  <1> QED
    BY <1>1, <1>2, <1>3, <1>4, <1>5, <1>6, <1>7 DEF Next

\* What is flushed stays flushed, and a context that is done stays done.
LEMMA NotTakenBack == [Next]_vars => (flushed => flushed') /\ expired \subseteq expired'
  <1> SUFFICES ASSUME [Next]_vars PROVE (flushed => flushed') /\ expired \subseteq expired'
    OBVIOUS
  <1>1. CASE EventSender
    BY <1>1 DEF EventSender, SenderStart, SenderPour, SenderStep, SenderDrain, SenderSkip,
       SenderPush, SenderCheck, senderRest, shutVars
  <1>2. CASE BatchSender
    BY <1>2 DEF BatchSender, BatchReceive, BatchClosed, BatchDone, bsRest, shutVars
  <1>3. CASE Periodic \/ \E p \in Tasks : PeriodicTask(p)
    BY <1>3 DEF Periodic, PeriodicTop, PeriodicCollect, PeriodicDone, PeriodicFlushed,
       PeriodicTask, perRest, shutVars
  <1>4. ASSUME NEW p \in Procs, RpcStep(p) PROVE (flushed => flushed') /\ expired \subseteq expired'
    <2>1. CASE RpcExit(p) \/ RpcReturn(p)
      <3>1. flushed' = (flushed \/ (p = "events" /\ lastRound)) /\ expired' = expired
        BY <2>1 DEF RpcExit, RpcReturn, Resume, shutVars
      <3> QED
        BY <3>1
    <2>2. CASE ~(RpcExit(p) \/ RpcReturn(p))
      BY <1>4, <2>2 DEF RpcStep, RpcAttempt, RpcRetry, RpcInvalidKey, shutVars
    <2> QED
      BY <2>1, <2>2
  <1>5. CASE (\E a \in Apps : ShutdownCall(a)) \/ (\E a \in Deadlines : Expire(a))
    BY <1>5 DEF ShutdownCall, Expire
  <1>6. CASE \E c \in Callers : ShutdownStep(c)
    BY <1>6 DEF ShutdownStep, ShutdownSelect, ShutdownOnce, ShutdownClose, ShutdownWait,
       ShutdownFinish, Return, Resume
  <1>7. CASE \E size \in Sizes : ReportEvent(size)
    BY <1>7 DEF ReportEvent, shutVars
  <1>8. CASE UNCHANGED vars
    BY <1>8 DEF vars, shutVars
  <1> QED
    BY <1>1, <1>2, <1>3, <1>4, <1>5, <1>6, <1>7, <1>8 DEF Next

LEMMA DoHeldStep ==
  ASSUME ShutInv, [Next]_vars
  PROVE  DoHeld'
  <1> USE DEF DoHeld
  <1>1. shut \in [Callers -> {"none", "select", "once", "marked", "wait", "finish", "returned"}]
        /\ once \in Callers \cup {"free", "done"} /\ OnceOwner
    BY DEF ShutInv, ReporterInv, TypeOK
  <1>2. CASE UNCHANGED <<closed, once, shut>>
    BY <1>2 DEF ShutInv
  <1>3. ASSUME NEW p \in Procs, RpcInvalidKey(p) PROVE DoHeld'
    <2>1. shut[p] = "none" /\ shut' = [shut EXCEPT ![p] = "select"]
          /\ UNCHANGED <<closed, once>> /\ p \in Callers
      BY <1>3, SubsetsOfCallers DEF ShutInv, Apart, RpcInvalidKey, bucketVars
    <2> QED
      BY <1>1, <2>1 DEF ShutInv
  <1>4. ASSUME NEW a \in Apps, ShutdownCall(a) PROVE DoHeld'
    <2>1. shut[a] = "none" /\ shut' = [shut EXCEPT ![a] = "select"]
          /\ UNCHANGED <<closed, once>> /\ a \in Callers
      BY <1>4, SubsetsOfCallers DEF ShutdownCall, bucketVars
    <2> QED
      BY <1>1, <2>1 DEF ShutInv
  <1>5. ASSUME NEW c \in Callers, ShutdownStep(c) PROVE DoHeld'
    <2>1. CASE ShutdownSelect(c)
      BY <1>1, <2>1 DEF ShutInv, ShutdownSelect, Return, bucketVars
    <2>2. CASE ShutdownOnce(c)
      <3>1. CASE once = "free"
        BY <1>1, <2>2, <3>1, Names DEF ShutInv, OnceOwner, ShutdownOnce, bucketVars
      <3>2. CASE once = "done"
        BY <1>1, <2>2, <3>2, Names DEF ShutInv, ShutdownOnce, Return, bucketVars
      <3> QED
        BY <2>2, <3>1, <3>2 DEF ShutdownOnce
    <2>3. CASE ShutdownClose(c)
      BY <1>1, <2>3 DEF ShutInv, OnceOwner, ShutdownClose, CloseIndicator
    <2>4. CASE ShutdownWait(c)
      BY <1>1, <2>4 DEF ShutInv, ShutdownWait, bucketVars
    <2>5. CASE ShutdownFinish(c)
      BY <1>1, <2>5, Names DEF ShutInv, OnceOwner, ShutdownFinish, Return, bucketVars
    <2> QED
      BY <1>5, <2>1, <2>2, <2>3, <2>4, <2>5 DEF ShutdownStep
  <1> QED
    BY <1>2, <1>3, <1>4, <1>5, ShutFrame

LEMMA ApartStep ==
  ASSUME ShutInv, [Next]_vars
  PROVE  Apart'
  <1> USE SubsetsOfCallers DEF Apart
  <1>1. /\ shut \in [Callers -> {"none", "select", "once", "marked", "wait", "finish", "returned"}]
        /\ proc \in [Procs -> {"idle", "busy", "exited"}]
        /\ rpc \in [Procs -> {"none", "check", "call"}]
    BY DEF ShutInv, ReporterInv, TypeOK
  <1>2. CASE UNCHANGED <<proc, rpc, shut>>
    BY <1>2 DEF ShutInv
  <1>3. ASSUME NEW p \in Procs, proc[p] = "idle", UNCHANGED shut,
               Invoke(p) \/ (UNCHANGED rpc /\ proc' = [proc EXCEPT ![p] = "exited"])
        PROVE  Apart'
    BY <1>1, <1>3 DEF ShutInv, Invoke
  <1>4. CASE EventSender
    BY <1>2, <1>4 DEF EventSender, SenderStart, SenderPour, SenderStep, SenderDrain, SenderSkip,
       SenderPush, SenderCheck, senderRest, rpcVars, shutVars
  <1>5. CASE BatchSender
    BY <1>2, <1>3, <1>5, Names DEF BatchSender, BatchReceive, BatchClosed, BatchDone, bsRest,
       rpcVars, shutVars
  <1>6. CASE Periodic
    <2>1. token => proc["metrics"] = "idle"
      BY DEF ShutInv, ReporterInv, OneCollector
    <2> QED
      BY <1>2, <1>3, <1>6, <2>1, Names DEF Periodic, PeriodicTop, PeriodicCollect, PeriodicDone,
         PeriodicFlushed, TryCollect, perRest, rpcVars, shutVars
  <1>7. ASSUME NEW p \in Tasks, PeriodicTask(p) PROVE Apart'
    BY <1>2, <1>3, <1>7 DEF PeriodicTask, Procs, perRest, rpcVars, shutVars
  <1>8. ASSUME NEW p \in Procs, RpcStep(p) PROVE Apart'
    <2>1. CASE RpcExit(p) \/ RpcReturn(p)
      BY <1>1, <2>1 DEF ShutInv, RpcExit, RpcReturn, Resume, shutVars
    <2>2. CASE RpcAttempt(p) \/ RpcRetry(p)
      BY <1>1, <2>2 DEF ShutInv, RpcAttempt, RpcRetry, shutVars
    <2>3. CASE RpcInvalidKey(p)
      BY <1>1, <2>3 DEF ShutInv, RpcInvalidKey
    <2> QED
      BY <1>8, <2>1, <2>2, <2>3 DEF RpcStep
  <1>9. ASSUME NEW a \in Apps, ShutdownCall(a) PROVE Apart'
    <2>1. a \notin Procs
      BY ReporterAssumption
    <2> QED
      BY <1>1, <1>9, <2>1 DEF ShutInv, ShutdownCall, shutRest
  <1>10. ASSUME NEW c \in Callers, ShutdownStep(c) PROVE Apart'
    <2>1. ASSUME UNCHANGED <<proc, rpc>>, NEW l, l # "none", shut' = [shut EXCEPT ![c] = l],
                 shut[c] # "none"
          PROVE  Apart'
      BY <1>1, <2>1 DEF ShutInv
    <2>2. ASSUME NEW err, Return(c, err), UNCHANGED rpc, shut[c] # "none" PROVE Apart'
      <3>1. CASE c \in Procs
        BY <1>1, <2>2, <3>1 DEF ShutInv, Return, Resume
      <3>2. CASE c \notin Procs
        BY <1>1, <2>2, <3>2 DEF ShutInv, Return
      <3> QED
        BY <3>1, <3>2
    <2> QED
      BY <1>10, <2>1, <2>2 DEF ShutdownStep, ShutdownSelect, ShutdownOnce, ShutdownClose,
         ShutdownWait, ShutdownFinish, shutRest
  <1>11. CASE (\E a \in Deadlines : Expire(a)) \/ (\E size \in Sizes : ReportEvent(size)) \/ UNCHANGED vars
    BY <1>2, <1>11 DEF Expire, ReportEvent, shutRest, vars, rpcVars, shutVars
  <1> QED
    BY <1>4, <1>5, <1>6, <1>7, <1>8, <1>9, <1>10, <1>11 DEF Next

LEMMA ShutInvInit == Init => ShutInv
  <1> SUFFICES ASSUME Init PROVE ShutInv
    OBVIOUS
  <1>1. /\ once = "free" /\ \A c \in Callers : shut[c] = "none"
        /\ \A p \in Procs : rpc[p] = "none" /\ shut[p] = "none"
    BY SubsetsOfCallers DEF Init
  <1>2. DoHeld /\ Apart
    BY <1>1, Names DEF DoHeld, Apart
  <1> QED
    BY <1>2, ReporterInvInit DEF ShutInv

LEMMA ShutInvNext == ShutInv /\ [Next]_vars => ShutInv'
  BY ReporterInvNext, DoHeldStep, ApartStep DEF ShutInv

\* A caller waits at most for the one inside Do, and that one for the flush at most.
LEMMA Served == ShutInv => ShutdownServed
  <1> SUFFICES ASSUME ShutInv, NEW c \in Callers, InShutdown(c)
               PROVE  \/ CanGoOn(c)
                      \/ AwaitsFlush(c)
                      \/ shut[c] = "once" /\ once \in Callers /\ (CanGoOn(once) \/ AwaitsFlush(once))
    BY DEF ShutdownServed
  <1>1. /\ shut \in [Callers -> {"none", "select", "once", "marked", "wait", "finish", "returned"}]
        /\ once \in Callers \cup {"free", "done"}
    BY DEF ShutInv, ReporterInv, TypeOK
  <1>2. ASSUME NEW d \in Callers, shut[d] \in {"marked", "wait", "finish"}
        PROVE  CanGoOn(d) \/ AwaitsFlush(d)
    <2>1. CASE shut[d] = "marked"
      BY <2>1 DEF ShutInv, DoHeld, CanGoOn
    <2>2. CASE shut[d] = "wait"
      <3>1. closed
        BY <2>2 DEF ShutInv, DoHeld
      <3> QED
        BY <2>2, <3>1 DEF CanGoOn, AwaitsFlush, CtxDone, Callers
    <2>3. CASE shut[d] = "finish"
      BY <2>3 DEF CanGoOn
    <2> QED
      BY <1>2, <2>1, <2>2, <2>3
  <1>3. CASE shut[c] \in {"marked", "wait", "finish"}
    BY <1>2, <1>3
  <1>4. CASE shut[c] = "select"
    BY <1>4 DEF CanGoOn
  <1>5. CASE shut[c] = "once"
    <2>1. CASE once \in {"free", "done"}
      BY <1>5, <2>1 DEF CanGoOn
    <2>2. CASE once \in Callers
      <3>1. shut[once] \in {"marked", "wait", "finish"}
        BY <2>2 DEF ShutInv, DoHeld
      <3> QED
        BY <1>2, <1>5, <2>2, <3>1
    <2> QED
      BY <1>1, <2>1, <2>2
  <1> QED
    BY <1>1, <1>3, <1>4, <1>5 DEF InShutdown

\* A step of Shutdown, of the one who takes it and of the others.
LEMMA OwnStep ==
  ASSUME ShutInv, NEW c \in Callers, ShutdownStep(c)
  PROVE  /\ \A d \in Callers \ {c} : shut'[d] = shut[d]
         /\ shut'[c] \in {"none", "returned"} \/ Way(shut'[c]) > Way(shut[c])
  <1>1. /\ shut \in [Callers -> {"none", "select", "once", "marked", "wait", "finish", "returned"}]
        /\ once \in Callers \cup {"free", "done"}
    BY DEF ShutInv, ReporterInv, TypeOK
  <1>2. /\ Way("select") = 1 /\ Way("once") = 2 /\ Way("marked") = 3
        /\ Way("wait") = 4 /\ Way("finish") = 5
    BY DEF Way
  <1>3. ASSUME NEW err, Return(c, err)
        PROVE  /\ \A d \in Callers \ {c} : shut'[d] = shut[d]
               /\ shut'[c] \in {"none", "returned"}
    BY <1>1, <1>3 DEF Return
  <1>4. ASSUME NEW l, shut' = [shut EXCEPT ![c] = l], Way(l) > Way(shut[c])
        PROVE  /\ \A d \in Callers \ {c} : shut'[d] = shut[d]
               /\ Way(shut'[c]) > Way(shut[c])
    BY <1>1, <1>4
  <1>5. CASE ShutdownSelect(c)
    BY <1>2, <1>3, <1>4, <1>5 DEF ShutdownSelect
  <1>6. CASE ShutdownOnce(c)
    BY <1>2, <1>3, <1>4, <1>6 DEF ShutdownOnce
  <1>7. CASE ShutdownClose(c)
    <2>1. shut' = [shut EXCEPT ![c] = "wait"] /\ Way("wait") > Way(shut[c])
      BY <1>2, <1>7 DEF ShutdownClose
    <2> QED
      BY <1>4, <2>1
  <1>8. CASE ShutdownWait(c)
    <2>1. shut' = [shut EXCEPT ![c] = "finish"] /\ Way("finish") > Way(shut[c])
      BY <1>2, <1>8 DEF ShutdownWait
    <2> QED
      BY <1>4, <2>1
  <1>9. CASE ShutdownFinish(c)
    BY <1>3, <1>9 DEF ShutdownFinish
  <1> QED
    BY <1>5, <1>6, <1>7, <1>8, <1>9 DEF ShutdownStep

\* What somebody else does does not hold a caller up, unless it enters Do first.
LEMMA NotHeldUp ==
  ASSUME ShutInv, [Next]_vars, NEW c \in Callers, InShutdown(c), ~ShutdownStep(c)
  PROVE  /\ shut'[c] = shut[c]
         /\ CanGoOn(c) => CanGoOn(c)' \/ (shut[c] = "once" /\ once = "free")
  <1>1. /\ shut \in [Callers -> {"none", "select", "once", "marked", "wait", "finish", "returned"}]
        /\ once \in Callers \cup {"free", "done"} /\ OnceOwner /\ DoHeld
    BY DEF ShutInv, ReporterInv, TypeOK
  <1>2. (flushed => flushed') /\ (CtxDone(c) => CtxDone(c)')
    BY NotTakenBack DEF CtxDone
  <1>3. /\ shut'[c] = shut[c]
        /\ shut[c] = "marked" => UNCHANGED closed
        /\ once = "done" => once' = "done"
    <2>1. CASE UNCHANGED <<closed, once, shut>>
      BY <2>1
    <2>2. ASSUME NEW p \in Procs, RpcInvalidKey(p) PROVE <1>3!:
      <3>1. shut[p] = "none" /\ shut' = [shut EXCEPT ![p] = "select"] /\ UNCHANGED <<closed, once>>
        BY <2>2 DEF ShutInv, Apart, RpcInvalidKey, bucketVars
      <3> QED
        BY <1>1, <3>1 DEF InShutdown
    <2>3. ASSUME NEW a \in Apps, ShutdownCall(a) PROVE <1>3!:
      <3>1. shut[a] = "none" /\ shut' = [shut EXCEPT ![a] = "select"] /\ UNCHANGED <<closed, once>>
        BY <2>3 DEF ShutdownCall, bucketVars
      <3> QED
        BY <1>1, <3>1 DEF InShutdown
    <2>4. ASSUME NEW d \in Callers, ShutdownStep(d) PROVE <1>3!:
      <3>1. d # c
        BY <2>4
      <3>2. shut'[c] = shut[c]
        BY <2>4, <3>1, OwnStep
      <3>3. shut[c] = "marked" => UNCHANGED closed
        BY <2>4, <3>1 DEF OnceOwner, ShutInv, ReporterInv, ShutdownStep, ShutdownSelect, ShutdownOnce,
           ShutdownClose, ShutdownWait, ShutdownFinish, bucketVars
      <3>4. once = "done" => once' = "done"
        BY <2>4 DEF ShutdownStep, ShutdownSelect, ShutdownOnce, ShutdownClose, ShutdownWait,
           ShutdownFinish
      <3> QED
        BY <3>2, <3>3, <3>4
    <2> QED
      BY <2>1, <2>2, <2>3, <2>4, ShutFrame
  <1> QED
    BY <1>2, <1>3 DEF CanGoOn

-----------------------------------------------------------------------------
(* The theorems. *)

\* eventBatchSender stops listening only after eventSender has closed the channel of
\* batches: no batch it receives is empty, because a full bucket never is.  And eventSender
\* is never stuck pushing a batch that nobody will take, for every capacity of the channel.
THEOREM ReporterBatchesHaveReader == Spec => []BatchesHaveReader
  <1>1. ReporterInv => DeafOnlyAfterExit
    BY DEF ReporterInv
  <1>2. ReporterInv => PushNotStuck
    BY DEF ReporterInv, Leaving, PushNotStuck
  <1> QED
    BY <1>1, <1>2, ReporterInvInit, ReporterInvNext, PTL DEF Spec, BatchesHaveReader

\* At most one collectMetrics runs at a time, and returning its token never blocks.
THEOREM ReporterOneCollector == Spec => []OneCollector
  <1>1. ReporterInv => OneCollector
    BY DEF ReporterInv
  <1> QED
    BY <1>1, ReporterInvInit, ReporterInvNext, PTL DEF Spec

\* A graceful shutdown leaves no collectMetrics running behind periodicTasks.
THEOREM ReporterFlushComplete == Spec => []FlushComplete
  <1>1. ReporterInv => FlushComplete
    BY DEF ReporterInv
  <1> QED
    BY <1>1, ReporterInvInit, ReporterInvNext, PTL DEF Spec

\* Between the bucket and InvokeRPC no batch is lost, duplicated or reordered, for every
\* capacity of the channel and whoever shuts the reporter down, but for the one that the last
\* round of a graceful shutdown may send again (reporter_grpc.go:728-764).
THEOREM ReporterPostsInOrder == Spec => []PostsInOrder
  <1>1. OrderInv => PostsInOrder
    BY DEF OrderInv
  <1> QED
    BY <1>1, OrderInvInit, OrderInvNext, PTL DEF Spec

\* The manner of the shutdown never changes once `done' is closed, however many
\* goroutines call Shutdown.
THEOREM ReporterGracefulSettled == Spec => GracefulSettled
  <1>1. ReporterInv /\ [Next]_vars => [closed => gracefully' = gracefully]_vars
    BY ClosedStays DEF ReporterInv
  <1> QED
    BY <1>1, ReporterInvInit, ReporterInvNext, PTL DEF Spec, GracefulSettled

\* Whoever shuts the reporter down while others do, nobody is left inside Shutdown by them: a
\* caller can take its next step, or waits for the one that is inside doneClosed.Do, and that
\* one can take its next step or is an application waiting for the flush within its context.
\* In particular, nothing holds a caller up before `done' is closed, and `done' is not closed
\* twice.  Each step takes a caller further, and what others do does not hold it up, unless one
\* of them enters Do first (reporter_grpc.go:365-402).
THEOREM ReporterShutdownServed == Spec => []ShutdownServed /\ [][ShutdownAdvances]_vars
  <1>1. ShutInv /\ [Next]_vars => [ShutdownAdvances]_vars
    <2> SUFFICES ASSUME ShutInv, [Next]_vars, NEW c \in Callers, InShutdown(c)
                 PROVE  \/ shut'[c] \in {"none", "returned"}
                        \/ Way(shut'[c]) > Way(shut[c])
                        \/ /\ UNCHANGED shut[c] /\ ~ShutdownStep(c)
                           /\ CanGoOn(c) => CanGoOn(c)' \/ (shut[c] = "once" /\ once = "free")
      BY DEF ShutdownAdvances
    <2> QED
      BY OwnStep, NotHeldUp
  <1> QED
    BY <1>1, Served, ShutInvInit, ShutInvNext, PTL DEF Spec
=============================================================================
