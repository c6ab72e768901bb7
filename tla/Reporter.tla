------------------------------- MODULE Reporter -------------------------------
(***************************************************************************)
(* The goroutines of grpcReporter (internal/reporter/reporter_grpc.go) from *)
(* start to shutdown: eventSender with its bucket (BytesBucket), the        *)
(* channel of batches, eventBatchSender, periodicTasks with collectMetrics  *)
(* and the other periodic tasks, and Shutdown, which the application and    *)
(* every goroutine that is told its service key is invalid may call at the  *)
(* same time.  The bucket's `closing' channel is r.done.                    *)
(*                                                                         *)
(* InvokeRPC is seen from outside here: its entry check, attempts of        *)
(* unknown outcome, and the result.                                         *)
(***************************************************************************)
EXTENDS BytesBucket

CONSTANTS
  Apps,          \* application goroutines that call Shutdown, each once
  Deadlines,     \* the ones whose context has a deadline
  Tasks,         \* what else periodicTasks starts: getSettings, and pings that may overlap
  BatchCap       \* capacity of the channel of batches (10 in the code)

\* The goroutines that issue RPCs.
Procs == {"events", "metrics"} \cup Tasks
Callers == Apps \cup Procs

ASSUME ReporterAssumption ==
  /\ Deadlines \subseteq Apps
  /\ Tasks \cap {"events", "metrics", "free", "done"} = {}
  /\ Apps \cap (Procs \cup {"free", "done"}) = {}
  /\ BatchCap \in Nat \ {0}

VARIABLES
  sender,      \* eventSender: "start", "call", "in", "push", "check", "exited"
  held,        \* the batch eventSender is pushing
  batches,     \* the channel between eventSender and eventBatchSender
  messages,    \* eventBatchSender's local variable of this name
  deaf,        \* eventBatchSender has set its `batches' to nil
  lastRound,   \* eventBatchSender's `closing'
  per,         \* periodicTasks: "top", "select", "flush", "exited"
  token,       \* collectMetricsReady holds its token
  proc,        \* what each RPC goroutine does: "idle", "busy", "exited"
  rpc,         \* its InvokeRPC: "none", "check", "call"
  gracefully, flushed,
  once,        \* doneClosed: "free", the caller inside Do, or "done"
  shut,        \* per caller of Shutdown: where it is
  result,      \* per caller of Shutdown: err
  expired,     \* application contexts that are done
  stopped,     \* connections closed, readiness withdrawn, host observer stopped
  posts        \* history: the batches handed to InvokeRPC

bsVars == <<batches, messages, deaf, lastRound>>
ptVars == <<per, token>>
rpcVars == <<proc, rpc>>
shutVars == <<gracefully, once, shut, result, expired, stopped>>
vars == <<bucketVars, sender, held, bsVars, ptVars, rpcVars,
          flushed, shutVars, posts>>

Init ==
  /\ BucketInit
  /\ sender = "start" /\ held = <<>>
  /\ batches = <<>> /\ messages = <<>> /\ deaf = FALSE /\ lastRound = FALSE
  /\ per = "top" /\ token = TRUE
  /\ proc = [p \in Procs |-> "idle"]
  /\ rpc = [p \in Procs |-> "none"]
  /\ gracefully = FALSE /\ flushed = FALSE /\ once = "free"
  /\ shut = [c \in Callers |-> "none"]
  /\ result = [c \in Callers |-> "none"]
  /\ expired = {}
  /\ stopped = FALSE
  /\ posts = <<>>

-----------------------------------------------------------------------------
(* reportEvent, called by the application. *)

\* reportEvent checks Closed() and then sends without blocking.  A goroutine that passed
\* the check may send at any later time, so the step is possible after the reporter was
\* closed.  An event that finds the channel full is dropped, which changes nothing here.
ReportEvent(size) ==
  /\ Offer(size)
  /\ UNCHANGED <<sender, held, bsVars, ptVars, rpcVars, flushed,
                 shutVars, posts>>

-----------------------------------------------------------------------------
(* eventSender. *)

senderRest == <<messages, deaf, lastRound, ptVars, rpcVars, flushed,
                shutVars, posts>>

\* The bucket is created with the value r.gracefully has now.
SenderStart ==
  /\ sender = "start"
  /\ sender' = "call"
  /\ New(gracefully)
  /\ UNCHANGED <<held, batches, senderRest>>

SenderPour ==
  /\ sender = "call"
  /\ sender' = "in"
  /\ PourIn
  /\ UNCHANGED <<held, batches, senderRest>>

\* Inside PourIn.
SenderStep ==
  /\ sender = "in"
  /\ \/ Refill \/ Arm \/ Discard \/ Fill \/ Postpone
     \/ TimeoutDrain \/ TimeoutEmpty \/ SeeClosing
  /\ UNCHANGED <<sender, held, batches, senderRest>>

\* PourIn has returned and the bucket is drainable.
SenderDrain ==
  /\ sender = "in"
  /\ Drain
  /\ held' = water
  /\ sender' = "push"
  /\ UNCHANGED <<batches, senderRest>>

\* Mutation: whatever is in the bucket is thrown away at the end.
SkipEmpties ==
  /\ sender = "in"
  /\ pc = "idle"
  /\ ~full
  /\ water' = <<>>
  /\ sender' = "check"
  /\ UNCHANGED <<source, closed, watermark, waitingList, full, neverDrained, droppedCount,
                 locals, offered, taken, drained, held, batches, senderRest>>

\* PourIn has returned because the reporter is closing.
SenderSkip ==
  /\ sender = "in"
  /\ pc = "idle"
  /\ ~full
  /\ sender' = "check"
  /\ UNCHANGED <<bucketVars, held, batches, senderRest>>

\* Mutation: the channel has no limit.
PushUnbounded ==
  /\ sender = "push"
  /\ batches' = Append(batches, held)
  /\ held' = <<>>
  /\ sender' = "check"
  /\ UNCHANGED <<bucketVars, senderRest>>

\* Mutation: a full channel loses its oldest batch.
PushOverwrites ==
  /\ sender = "push"
  /\ batches' = Append(IF Len(batches) < BatchCap THEN batches ELSE Tail(batches), held)
  /\ held' = <<>>
  /\ sender' = "check"
  /\ UNCHANGED <<bucketVars, senderRest>>

SenderPush ==
  /\ sender = "push"
  /\ Len(batches) < BatchCap
  /\ batches' = Append(batches, held)
  /\ held' = <<>>
  /\ sender' = "check"
  /\ UNCHANGED <<bucketVars, senderRest>>

\* Mutation: eventSender does not look at `done'.
CheckNever ==
  /\ sender = "check"
  /\ sender' = "call"
  /\ UNCHANGED <<bucketVars, held, batches, senderRest>>

\* Exit, which closes the channel of batches, if the reporter is done.
SenderCheck ==
  /\ sender = "check"
  /\ sender' = IF closed THEN "exited" ELSE "call"
  /\ UNCHANGED <<bucketVars, held, batches, senderRest>>

EventSender ==
  \/ SenderStart \/ SenderPour \/ SenderStep \/ SenderDrain \/ SenderSkip
  \/ SenderPush \/ SenderCheck

-----------------------------------------------------------------------------
(* Steps that all RPC goroutines share. *)

\* p enters InvokeRPC.
Invoke(p) ==
  /\ proc' = [proc EXCEPT ![p] = "busy"]
  /\ rpc' = [rpc EXCEPT ![p] = "check"]

\* p's handler of the RPC's result is over: the batch sender goes on, or exits after its
\* last round; collectMetrics returns its token; the other goroutines are idle again.
Resume(p) ==
  /\ proc' = [proc EXCEPT ![p] = IF p = "events" /\ lastRound THEN "exited" ELSE "idle"]
  /\ token' = (token \/ p = "metrics")
  /\ flushed' = (flushed \/ (p = "events" /\ lastRound))

\* The fail-fast check at the top of InvokeRPC's loop.
RpcExit(p) ==
  /\ rpc[p] = "check"
  /\ closed /\ flushed
  /\ rpc' = [rpc EXCEPT ![p] = "none"]
  /\ Resume(p)
  /\ UNCHANGED <<bucketVars, sender, held, bsVars, per, shutVars, posts>>

RpcAttempt(p) ==
  /\ rpc[p] = "check"
  /\ ~(closed /\ flushed)
  /\ rpc' = [rpc EXCEPT ![p] = "call"]
  /\ UNCHANGED <<bucketVars, sender, held, bsVars, ptVars, proc,
                 flushed, shutVars, posts>>

\* The attempt fails and is repeated; InvokeRPC counts the repetitions.
RpcRetry(p) ==
  /\ rpc[p] = "call"
  /\ rpc' = [rpc EXCEPT ![p] = "check"]
  /\ UNCHANGED <<bucketVars, sender, held, bsVars, ptVars, proc,
                 flushed, shutVars, posts>>

\* The call is answered, or InvokeRPC gives up: either way the caller just goes on.
RpcReturn(p) ==
  /\ rpc[p] = "call"
  /\ rpc' = [rpc EXCEPT ![p] = "none"]
  /\ Resume(p)
  /\ UNCHANGED <<bucketVars, sender, held, bsVars, per, shutVars, posts>>

\* The collector says the service key is invalid: the caller runs ShutdownNow.
RpcInvalidKey(p) ==
  /\ rpc[p] = "call"
  /\ rpc' = [rpc EXCEPT ![p] = "none"]
  /\ shut' = [shut EXCEPT ![p] = "select"]
  /\ UNCHANGED <<bucketVars, sender, held, bsVars, ptVars, proc,
                 flushed, gracefully, once, result, expired, stopped, posts>>

RpcStep(p) ==
  RpcExit(p) \/ RpcAttempt(p) \/ RpcRetry(p) \/ RpcReturn(p) \/ RpcInvalidKey(p)

-----------------------------------------------------------------------------
(* eventBatchSender. *)

bsRest == <<bucketVars, sender, held, ptVars, shutVars>>

\* A batch arrives; an empty one would be taken for the closed channel.
BatchReceive ==
  /\ proc["events"] = "idle"
  /\ ~deaf
  /\ batches # <<>>
  /\ messages' = Head(batches)
  /\ batches' = Tail(batches)
  /\ deaf' = (Head(batches) = <<>>)
  /\ IF Head(batches) # <<>>
       THEN /\ Invoke("events")
            /\ posts' = Append(posts, Head(batches))
       ELSE UNCHANGED <<rpcVars, posts>>
  /\ UNCHANGED <<lastRound, flushed, bsRest>>

\* The channel is closed and drained: nothing more comes from it.
BatchClosed ==
  /\ proc["events"] = "idle"
  /\ ~deaf
  /\ batches = <<>>
  /\ sender = "exited"
  /\ messages' = <<>>
  /\ deaf' = TRUE
  /\ UNCHANGED <<batches, lastRound, rpcVars, flushed, posts, bsRest>>

\* What the inner select leaves in `messages': the next batch if there is one, nothing if
\* the channel is closed, and otherwise what was there before.
NextMessages ==
  IF deaf THEN messages
  ELSE IF batches # <<>> THEN Head(batches)
  ELSE IF sender = "exited" THEN <<>>
  ELSE messages

\* Mutation: eventBatchSender leaves at once, without a look at the channel.
DoneIgnoresBatches ==
  /\ proc["events"] = "idle"
  /\ closed
  /\ proc' = [proc EXCEPT !["events"] = "exited"]
  /\ flushed' = TRUE
  /\ UNCHANGED <<bsVars, rpc, posts, bsRest>>

\* The reporter is done: send once more if it stops gracefully, and exit.
BatchDone ==
  /\ proc["events"] = "idle"
  /\ closed
  /\ messages' = NextMessages
  /\ batches' = IF ~deaf /\ batches # <<>> THEN Tail(batches) ELSE batches
  /\ \/ /\ gracefully
        /\ messages' # <<>>
        /\ lastRound' = TRUE
        /\ Invoke("events")
        /\ posts' = Append(posts, messages')
        /\ UNCHANGED flushed
     \/ /\ ~gracefully \/ messages' = <<>>
        /\ proc' = [proc EXCEPT !["events"] = "exited"]
        /\ flushed' = TRUE
        /\ UNCHANGED <<lastRound, rpc, posts>>
  /\ UNCHANGED <<deaf, bsRest>>

BatchSender == BatchReceive \/ BatchClosed \/ BatchDone

-----------------------------------------------------------------------------
(* periodicTasks. *)

perRest == <<bucketVars, sender, held, bsVars, shutVars, posts>>

PeriodicTop ==
  /\ per = "top"
  /\ per' = IF closed /\ ~gracefully THEN "exited" ELSE "select"
  /\ UNCHANGED <<token, rpcVars, flushed, perRest>>

\* Start collectMetrics if the token is there.  It changes nothing if the previous one
\* is still running or if there is nothing to send.
TryCollect ==
  \/ /\ token
     /\ token' = FALSE
     /\ Invoke("metrics")
  \/ UNCHANGED <<token, rpcVars>>

PeriodicCollect ==
  /\ per = "select"
  /\ per' = "top"
  /\ TryCollect
  /\ UNCHANGED <<flushed, perRest>>

\* Start getSettings, if it is not running, or a ping.  The timeout check of the settings,
\* the third task, issues no RPC and changes nothing here.
PeriodicTask(p) ==
  /\ per = "select"
  /\ per' = "top"
  /\ \/ /\ proc[p] = "idle"
        /\ Invoke(p)
     \/ /\ proc[p] # "idle"
        /\ UNCHANGED rpcVars
  /\ UNCHANGED <<token, flushed, perRest>>

PeriodicDone ==
  /\ per = "select"
  /\ closed
  /\ \/ /\ ~gracefully
        /\ per' = "exited"
        /\ UNCHANGED <<token, rpcVars>>
     \/ /\ gracefully
        /\ per' = "flush"
        /\ TryCollect
  /\ UNCHANGED <<flushed, perRest>>

\* Mutation: the end of the last collectMetrics is not awaited.
FlushedUnawaited ==
  /\ per = "flush"
  /\ flushed' = TRUE
  /\ per' = "exited"
  /\ UNCHANGED <<token, rpcVars, perRest>>

\* The last collectMetrics has returned.
PeriodicFlushed ==
  /\ per = "flush"
  /\ token
  /\ token' = FALSE
  /\ flushed' = TRUE
  /\ per' = "exited"
  /\ UNCHANGED <<rpcVars, perRest>>

Periodic ==
  PeriodicTop \/ PeriodicCollect \/ PeriodicDone \/ PeriodicFlushed

-----------------------------------------------------------------------------
(* Shutdown(ctx), and ShutdownNow, whose context is done from the start. *)

shutRest == <<sender, held, bsVars, per, rpc, posts>>

CtxDone(c) == c \in Procs \/ c \in expired

\* g: the context has no deadline, or one that lies in the future.
Graceful(c) == c \in Apps /\ c \notin expired

ShutdownCall(a) ==
  /\ shut[a] = "none"
  /\ shut' = [shut EXCEPT ![a] = "select"]
  /\ UNCHANGED <<bucketVars, token, proc, flushed, gracefully, once, result, expired,
                 stopped, shutRest>>

Expire(a) ==
  /\ a \notin expired
  /\ expired' = expired \cup {a}
  /\ UNCHANGED <<bucketVars, token, proc, flushed, gracefully, once, shut, result,
                 stopped, shutRest>>

\* Shutdown returns err; a goroutine of the reporter goes on with its work.
Return(c, err) ==
  /\ shut' = [shut EXCEPT ![c] = IF c \in Procs THEN "none" ELSE "returned"]
  /\ result' = [result EXCEPT ![c] = IF c \in Procs THEN "none" ELSE err]
  /\ IF c \in Procs THEN Resume(c) ELSE UNCHANGED <<proc, token, flushed>>

ShutdownSelect(c) ==
  /\ shut[c] = "select"
  /\ \/ /\ closed
        /\ Return(c, "closed")
     \/ /\ ~closed
        /\ shut' = [shut EXCEPT ![c] = "once"]
        /\ UNCHANGED <<proc, token, flushed, result>>
  /\ UNCHANGED <<bucketVars, gracefully, once, expired, stopped, shutRest>>

\* Mutation: r.gracefully is set outside of Do.
OnceSetsAlways(c) ==
  /\ shut[c] = "once"
  /\ gracefully' = Graceful(c)
  /\ \/ /\ once = "free"
        /\ once' = c
        /\ shut' = [shut EXCEPT ![c] = "marked"]
        /\ UNCHANGED <<proc, token, flushed, result>>
     \/ /\ once = "done"
        /\ Return(c, "nil")
        /\ UNCHANGED once
  /\ UNCHANGED <<bucketVars, expired, stopped, shutRest>>

\* doneClosed.Do: the first caller runs the function, and a later one waits until the
\* first one's call has returned.
ShutdownOnce(c) ==
  /\ shut[c] = "once"
  /\ \/ /\ once = "free"
        /\ once' = c
        /\ gracefully' = Graceful(c)
        /\ shut' = [shut EXCEPT ![c] = "marked"]
        /\ UNCHANGED <<proc, token, flushed, result>>
     \/ /\ once = "done"
        /\ Return(c, "nil")
        /\ UNCHANGED <<once, gracefully>>
  /\ UNCHANGED <<bucketVars, expired, stopped, shutRest>>

\* Mutation: `done' is not closed when the shutdown is not graceful.
CloseIfGraceful(c) ==
  /\ shut[c] = "marked"
  /\ IF gracefully THEN CloseIndicator ELSE UNCHANGED bucketVars
  /\ shut' = [shut EXCEPT ![c] = "wait"]
  /\ UNCHANGED <<token, proc, flushed, gracefully, once, result, expired, stopped, shutRest>>

ShutdownClose(c) ==
  /\ shut[c] = "marked"
  /\ CloseIndicator
  /\ shut' = [shut EXCEPT ![c] = "wait"]
  /\ UNCHANGED <<token, proc, flushed, gracefully, once, result, expired, stopped, shutRest>>

\* Mutation: the caller's context is not observed.
WaitIgnoresCtx(c) ==
  /\ shut[c] = "wait"
  /\ flushed
  /\ result' = [result EXCEPT ![c] = "nil"]
  /\ shut' = [shut EXCEPT ![c] = "finish"]
  /\ UNCHANGED <<bucketVars, token, proc, flushed, gracefully, once, expired, stopped, shutRest>>

ShutdownWait(c) ==
  /\ shut[c] = "wait"
  /\ \/ flushed /\ result' = [result EXCEPT ![c] = "nil"]
     \/ CtxDone(c) /\ result' = [result EXCEPT ![c] = "timeout"]
  /\ shut' = [shut EXCEPT ![c] = "finish"]
  /\ UNCHANGED <<bucketVars, token, proc, flushed, gracefully, once, expired, stopped, shutRest>>

\* closeConns, setReady(false), host.Stop, and the end of Do.
ShutdownFinish(c) ==
  /\ shut[c] = "finish"
  /\ stopped' = TRUE
  /\ once' = "done"
  /\ Return(c, result[c])
  /\ UNCHANGED <<bucketVars, gracefully, expired, shutRest>>

ShutdownStep(c) ==
  ShutdownSelect(c) \/ ShutdownOnce(c) \/ ShutdownClose(c) \/ ShutdownWait(c) \/ ShutdownFinish(c)

-----------------------------------------------------------------------------
Next ==
  \/ \E size \in Sizes : ReportEvent(size)
  \/ EventSender
  \/ BatchSender
  \/ Periodic
  \/ \E p \in Tasks : PeriodicTask(p)
  \/ \E p \in Procs : RpcStep(p)
  \/ \E a \in Apps : ShutdownCall(a)
  \/ \E a \in Deadlines : Expire(a)
  \/ \E c \in Callers : ShutdownStep(c)

Spec == Init /\ [][Next]_vars

\* Go keeps scheduling every goroutine that is not blocked, timers and deadlines pass, a
\* select statement that finds `done' readable time and again takes it eventually, and
\* InvokeRPC returns, because its redirections and retries are limited.
\* Nothing makes the application report or shut down.
FairSpec ==
  /\ Spec
  /\ WF_vars(EventSender)
  /\ WF_vars(BatchSender)
  /\ WF_vars(Periodic)
  /\ SF_vars(PeriodicDone)
  /\ \A p \in Procs : WF_vars(RpcStep(p)) /\ SF_vars(RpcReturn(p) \/ RpcInvalidKey(p))
  /\ \A c \in Callers : WF_vars(ShutdownStep(c))
  /\ \A a \in Deadlines : WF_vars(Expire(a))

-----------------------------------------------------------------------------
(* Correctness. *)

TypeOK ==
  /\ BucketTypeOK
  /\ sender \in {"start", "call", "in", "push", "check", "exited"}
  /\ held \in Seq(Events)
  /\ batches \in Seq(Seq(Events)) /\ Len(batches) <= BatchCap
  /\ messages \in Seq(Events)
  /\ deaf \in BOOLEAN
  /\ lastRound \in BOOLEAN
  /\ per \in {"top", "select", "flush", "exited"}
  /\ token \in BOOLEAN
  /\ proc \in [Procs -> {"idle", "busy", "exited"}]
  /\ rpc \in [Procs -> {"none", "check", "call"}]
  /\ gracefully \in BOOLEAN
  /\ flushed \in BOOLEAN
  /\ once \in Callers \cup {"free", "done"}
  /\ shut \in [Callers -> {"none", "select", "once", "marked", "wait", "finish", "returned"}]
  /\ result \in [Callers -> {"none", "nil", "closed", "timeout"}]
  /\ expired \subseteq Apps
  /\ stopped \in BOOLEAN
  /\ posts \in Seq(Seq(Events))

\* eventBatchSender stops listening to the channel of batches (reporter_grpc.go:741-743)
\* only after eventSender has closed it: no batch it receives is empty.  Otherwise no
\* event would be sent any more while the reporter runs on, and nobody would notice.
DeafOnlyAfterExit == deaf => sender = "exited"

\* Once `done' is closed the manner of the shutdown is settled: every goroutine that
\* reads r.gracefully after it saw `done' reads the same value, whoever else calls
\* Shutdown or ShutdownNow meanwhile (reporter_grpc.go:368-383).
GracefulSettled == [][closed => gracefully' = gracefully]_vars

\* collectMetricsReady never holds its token while collectMetrics runs: at most one
\* collectMetrics runs, and returning the token to the channel of capacity 1 never blocks
\* (reporter_grpc.go:553-556, :791).
OneCollector == token => proc["metrics"] = "idle"

\* When periodicTasks ends a graceful shutdown, no collectMetrics is left running: it
\* has waited for the one it started and for the one that was under way
\* (reporter_grpc.go:573-580).
FlushComplete == closed /\ gracefully /\ per = "exited" => proc["metrics"] = "idle"

\* eventSender is never left pushing a batch into a full channel that nobody reads any
\* more: when eventBatchSender leaves it has taken one batch after `done' was closed, and
\* eventSender pushes at most one more before it sees `done' (reporter_grpc.go:715-723,
\* :746-749).
PushNotStuck ==
  sender = "push" /\ proc["events"] = "exited" => Len(batches) < BatchCap

\* eventSender always has a reader or room for what it pushes: eventBatchSender neither
\* takes an empty batch for the end (:741) nor leaves before it has made room (:746-749).
BatchesHaveReader == DeafOnlyAfterExit /\ PushNotStuck

\* The last batch was handed to InvokeRPC twice in a row.
Resent == Len(posts) > 1 /\ posts[Len(posts)] = posts[Len(posts) - 1]

AllButLast(s) == SubSeq(s, 1, Len(s) - 1)

\* The batches reach InvokeRPC in the order in which the bucket was drained, and none is
\* left out in between: eventSender, the channel and eventBatchSender form one queue.  A
\* batch is sent a second time only in the last round of a graceful shutdown, when the inner
\* select finds no new one and `messages' still holds the old (reporter_grpc.go:746-753).
PostsInOrder ==
  /\ \A i \in 1..Len(posts) : posts[i] # <<>>
  /\ \/ CutOff(posts, drained)
     \/ Resent /\ lastRound /\ CutOff(AllButLast(posts), drained)

\* The goroutine that runs ShutdownNow because its key is invalid brings the reporter
\* down, whatever other Shutdown is in progress.
InvalidKeyCloses == \A p \in Procs : shut[p] = "select" ~> closed

\* Shutdown with a deadline returns, even when it has to wait for another goroutine
\* inside doneClosed.Do.
ShutdownReturns == \A a \in Deadlines : shut[a] = "select" ~> shut[a] = "returned"

\* All long-running goroutines close themselves when `done' is closed
\* (reporter_grpc.go:363-364).
GoroutinesExit ==
  closed ~> /\ sender = "exited"
            /\ per = "exited"
            /\ proc["events"] = "exited"

\* The goroutines running the bucket behave as the bucket's specification says, so all
\* that holds of the bucket alone holds of it inside the reporter.
ImplementsBucket == BucketSpec

-----------------------------------------------------------------------------
(* What the comments promise. *)

\* agent.go: Shutdown blocks until the agent flushes.  If a graceful Shutdown returns nil,
\* periodicTasks has sent the last metrics.
FlushedOnReturn ==
  \A a \in Apps : result[a] = "nil" /\ gracefully /\ shut[a] = "returned" => per = "exited"

\* bytesbucket.go:41: a graceful shutdown drains the bucket.
GracefulDrains == sender = "exited" /\ gracefully => water = <<>>
=============================================================================
