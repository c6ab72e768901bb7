# TLA+ specifications of the AppOptics APM agent for Go

The agent (`src/v1/ao`) instruments a Go program: the application begins and ends spans, the
agent encodes them as events, aggregates metrics, decides which requests are sampled, and
sends everything to a collector over gRPC from a handful of background goroutines. The
specifications here follow a request from its headers through decision, spans, handlers and
metrics to the event bucket, the reporter's goroutines and the connection all RPCs share, and
cover the algorithms on the way that have rules of their own.

## The system

| part | state it keeps | operations | what is hard about it |
|---|---|---|---|
| event bucket (`bytesbucket.go`) | bytes collected, waiting list, flags | `PourIn`, `Drain`, `Full` | limits, timeouts, closing at any moment |
| reporter goroutines (`reporter_grpc.go`) | channels, `done`, `flushed`, `gracefully`, `doneClosed` | `reportEvent`, `eventSender`, `eventBatchSender`, `periodicTasks`, `collectMetrics`, `Shutdown`, `ShutdownNow` | shutdown from several goroutines, last flush, lost or repeated batches |
| connection (`reporter_grpc.go`, `methods.go`) | client, address, `atomicActive`, lock | `InvokeRPC`, `connect`, `setAddress`, `Close` | retries, redirections, concurrent reconnection, close during a call |
| readiness (`reporter_grpc.go`) | `ready`, `cond`, `done` | `WaitForReady`, `updateSettings`, `checkSettingsTimeout` | checks outside the lock, waiters nobody wakes |
| sampling (`oboe.go`, `NewContext`) | settings with their expiry, token buckets, rate counters | `updateSetting`, `oboeSampleRequest`, `count`, `FlushRateCounts` | settings that change under a request, answers to the client, counters flushed one by one |
| URL filters (`url.go`) | filters, cache | `loadConfig`, `getTracingMode` | illegal settings, stale answers |
| trace context (`reporter/context.go`, `event.go`) | metadata, flags, shared transaction context | `FromString`, `Pack`, `Copy`, `SetRandom`, `newEvent` | short or odd ids of other agents, ids shared without a lock |
| spans (`layer.go`, `trace.go`) | per span: ended, edges, context, exit event | `BeginSpan`, `InfoWithOptions`, `AddEndArgs`, `SetTransactionName`, `End` | the same span used and ended by several goroutines |
| HTTP handlers and clients (`http_instrumentation.go`, `http_client_instrumentation.go`) | response writer, header, trace | `HTTPHandler`, `WriteHeader`, `BeginHTTPClientSpan`, `AddHTTPResponse` | handlers within handlers, proxies, panics |
| metrics (`metrics/`) | measurements, histograms, queue statistics | `reportSpan`, `Process`, `SetQueueLargest`, `CopyAndReset` | the limit on names, reset against update |
| histogram (`hdrhist/`) | counts | `RecordN`, `PercentileVal`, encoding | index arithmetic, run lengths |
| serverless reporter (`reporter_serverless.go`, `log_writer.go`) | buffer of messages | `Write`, `Flush` | chunk limits, events between the steps of a flush |
| host observer (`host/`) | host identification, update token | `Start`, `Stop`, `update` | slow updates that must not undo later ones |
| configuration (`config/`) | the configuration | `Load`, `validate` | four sources, invalid values, what counts as configured |
| SQL sanitizer (`sql_sanitizer.go`) | an automaton | `Sanitize` | quotes, escapes and prefixes of five dialects |

The application calls `reportEvent`, which puts the encoded event on a channel. `eventSender`
pours the channel into the bucket and pushes drained batches into a second channel.
`eventBatchSender` takes them from there and hands them to `InvokeRPC`. `periodicTasks`
starts `collectMetrics`, `getSettings`, a check of the settings' expiry and pings by timers.
All RPCs go through the one `grpcConnection`. If the collector says that the service key is
invalid, the goroutine that hears it calls `ShutdownNow`; the application may call `Shutdown`
at any time. `done` tells all goroutines to stop, `flushed` tells `Shutdown` that they did
their last work. `getSettings` brings what sampling goes by and what makes the agent ready.
A handler begins a trace with `NewContext`, which asks filters, settings and token buckets;
spans report through `reportEvent`; the end of a trace puts a message on the channel of the
metrics. `PROJECT.json` lists every component, and the hazards at their lines.

## Modules

| module | models |
|---|---|
| `EventQueue` | abstract: an ordered queue that hands out non-empty batches |
| `BytesBucket` | `BytesBucket`: `PourIn` one step at a time, `Drain`, and the environment |
| `Reporter` | extends `BytesBucket`: the reporter's goroutines and shutdown |
| `RPC` | abstract: what `InvokeRPC` promises its callers |
| `Connection` | `grpcConnection` and `InvokeRPC` |
| `Sampling` | settings, trigger traces, the decision and the answer |
| `TokenBucket` | the token buckets that limit sampling, with the rate counters |
| `Filters` | the transaction settings and the cache of the URL filters |
| `Metadata` | X-Trace metadata byte by byte, through contexts and events |
| `Handlers` | a request through instrumented handlers, clients and proxies |
| `Spans` | one trace and its spans under several goroutines |
| `Readiness` | `WaitForReady` against `getSettings`, `checkSettingsTimeout` and `Shutdown` |
| `Metrics` | spans to measurements to a report, the limit on names, the longest queue |
| `HostObserver` | the observer, its updaters and the locked identification |
| `Serverless` | the serverless reporter's flush and the log writer |
| `Configuration`, `Sanitizer`, `Histogram` | algorithms, checked against what they are to compute |
| `Batches` | what it means that events are counted in bytes and cut into batches |
| `MCReporter` | the liveness of posting, which needs a fold over the batches |
| `MCSampling` | `Sampling`, `TokenBucket`, `Handlers`, `Filters`, `Metadata` in one instance |
| `MCBackground` | `Readiness` to `Histogram` in one instance |
| `BytesBucketProofs`, `ReporterProofs`, `ConnectionProofs`, `TokenBucketProofs`, `SamplingProofs`, `SpansProofs`, `BackgroundProofs` | the theorems |
| `BatchesProofs` | lemmas about batches |

**BytesBucket.** The variables `water`, `watermark`, `waitingList`, `full`, `neverDrained`,
`droppedCount` and `gracefulShutdown` are the struct's fields; `drainASAP` and `timer` are
local to `PourIn`. An event is an identity and a size; only the size matters to the code. `pc` says
where the owner of the bucket is. `PourIn` is split where other goroutines can act in between:
`Refill` moves one event from the waiting list, `Arm` ends that loop, and each case of the
select statement is an action (`Discard`, `Fill`, `Postpone` for the source, `TimeoutDrain` and
`TimeoutEmpty` for the timer, `SeeClosing`). Time is abstracted: an armed timer may fire at any
moment, and fires once per call of `PourIn`, like the channel of `time.After`. Reading the
closed source channel does not occur: nobody closes it. `offered`, `taken` and `drained` are
history variables.

**Reporter.** `sender` is the program counter of `eventSender` (the bucket's `pc` is the one of
the `PourIn` it calls), `per` the one of `periodicTasks`, `proc` and `rpc` say what each
goroutine that issues RPCs does, `shut` where each caller of `Shutdown` is. `Procs` are
`eventBatchSender` ("events"), `collectMetrics` ("metrics") and `Tasks`, the other goroutines that
`periodicTasks` starts: `getSettings`, and as many pings as may overlap. `BatchDone` is the
`<-r.done` case of `eventBatchSender` with its inner select; `messages` keeps the last batch, as
in the code. `doneClosed` is `once`: free, held by the caller inside `Do`, or done; who comes second
waits, as in `sync.Once`. The check of `done` and the entry into `Do` are two steps, and so are
setting `gracefully` and closing `done`, since other goroutines can act between them. `ShutdownNow` is
`Shutdown` with a context that is done from the start. An application's context may expire
(`Deadlines`) or has no deadline; one that has no deadline and is cancelled is left out.
`InvokeRPC` is `Invoke`, `RpcAttempt`, `RpcRetry`, then `RpcReturn` or `RpcInvalidKey`, or `RpcExit`, which
is the contract of module `RPC`. A task that finds nothing to send is the step of `TryCollect` that
changes nothing.

**Connection.** `loc` is the place of each goroutine in `InvokeRPC`. `c.lock` appears as
`readers`: a call holds it from `BeginCall` to its answer, and the steps that take it for writing
(`SetAddress`, `Connect`, `ConnectSkip`, `ConnectFails`, `Close`) are single steps that need it free of readers. A connection object is
represented by the address it leads to; `open` counts the open ones, and `usable` says that the client's
is. The gRPC library is external: on an open connection any answer is possible, on a closed one
only cancellation. `Methods` are kinds: "post" for what is retried, "big" for a request above
`maxReqBytes`, "nokey" for one without service key (skipped, yet counted as sent), and "ping".
Each request counts as one message in `numSent` and `numFailed`; the largest queue length
(`SetQueueLargest`) and the ping timer are left out.

**TokenBucket.** One `tokenBucket` with its embedded `RateCounts`. `count` is split at its atomic
increments and at `consume`, since requests, `setRateCap` and the flush act in between; `pc` names the
counter a request increments next. `consume` with `update` is one step, under the bucket's lock. The floating-point
numbers are whole units: a token is `Token` of them, so that a rate can be a fraction of a token per
tick. The clock is the monotonic one and starts `Epoch` ticks after the zero time in `last`. `admitted` notes when
tokens were taken since rate or capacity changed; `asked`, `granted` and `refused` count decisions. A request's arguments vanish when its call
returns. `Args` holds the combinations
that `oboeSampleRequest` can pass.

**Sampling.** One request, whose `stage` follows `NewContext` (parse `X-Trace-Options`, decide, report the
entry event, answer), while `UpdateSetting` and `ExpireSetting` happen between any two of these
steps, as the code holds no lock over them. Only the default setting is read, so `store` is a set of at most
one. A setting keeps the flags and the rate the collector sent next to those `mergeLocalSetting`
made of them. The deferred writer of the ignored keys (`context.go:578`) is part of `Return`: its write into a
map that was never made is the stage "panicked". Whether a bucket has a token and whether the random number is below the rate are
open; `TokenBucket` says the first. A new context is null if the system has no random bytes (`Contexts`).

**Filters.** A regular expression or a list of extensions is the set of URLs it matches; `BadPattern` is a
regular expression that does not compile. `AskFilters` and `Store` are the two halves of `getTracingMode`,
between which other requests ask; `Evict` is freecache, which is external.

**Metadata.** Bytes are numbers. `Readable`, `Unpack`, `Pack`, `OpString` do what their namesakes do, with the
lengths that the first byte announces; `ReportEvent` is `oboeEventInit`, `AddEdge`, `prepareEvent` and the
op id that the context takes from the event. `contexts` holds the context and one copy.

**Handlers.** Handler `h` calls handler `h + 1` in its own process with the same response writer, by a client
span in another service, or as a proxy. `rspMD[b]` is the header `X-Trace` that all writers of one process
share, `sent` what went out with the first `WriteHeader`, `endEdges` the edges for the exit event. The channel may refuse any
event: an entry event, which gives a handler a nullTrace and a client span no metadata (`ClientSpans`), or an error or exit event, which
nobody notices (`Losses`, with the history `dropped`). A handler either returns or panics; the server recovers.

**Spans.** A context is the op id of its latest event. `pc` and `cur` say what a goroutine does with which span.
The methods are split where the code gives up a lock or has none: `Info` into `InfoCompose` and
`InfoSend`, `End` into the check of `ok`, `EndLock`, `Compose`, `ExitSend`, `Join` and `AddChildEdge`. `due` keeps what had been given
to a span when its `End` was first called. `ExitMetadata` is the check, the assignment (`MakeExitEvent`) and the second
read (`TellExitEvent`) of a field that no lock protects; that a read of an interface may be torn is left out. The overrides of time stamps and ids are left out.

**Readiness.** `getter`, `checker`, `stopper`, `waiter` and `helper` are program counters: of `getSettings`, of
`checkSettingsTimeout`, of the part of `Shutdown` that concerns readiness, and of the two goroutines of
`WaitForReady`. `ready` is read without the lock, and set and broadcast under it. A default setting is fresh or old; an old one
may be deleted. An answer of the collector may have no default setting (`StoreOthers`).

**Metrics.** `Record` is `Measurements.record` under its lock: ids in any order, up to the first that
`TransMap` refuses. `MeasureOther` is the second call in `Process`. `SetQueueLargest` is split at its load and its compare-and-swap;
`CopyAndReset`, `TakeLargest` and `TakeHistograms` are the order in which `collectMetrics` takes its parts. `taken` is the largest value reported since a goroutine's latest call.

**HostObserver.** The observer starts updaters that copy the identification, read the fields, each of which may
fail, and write all of them. A value is the number of the reading it comes from.

**Serverless.** `Write` and `FlushWriter` hold the writer's lock; `Flush` of the reporter is five steps, between which events arrive.

**Configuration.** The fields that have a rule of their own, from default values, file, environment and options,
and `Validate`. The others are copied the same way. A variable of the environment that is empty counts as not set (`FromEnv`).

**Sanitizer.** The automaton of `Sanitize`, one rune a step. A letter has one byte or two (`Wide`), since the loop counts bytes (`Offset`)
where the code then counts runes. A statement is made of tokens, which say whether they are
literals, so that the result can be compared with what the grammar says.

**Histogram.** `Init`'s dimensions, the indices, `PercentileVal`, and the encoding with zigzag numbers, against
the values that were recorded.

How they fit together: `Reporter` extends `BytesBucket`, so its bucket is the bucket's
specification (`ImplementsBucket`), which in turn implements `EventQueue` (`ImplementsQueue`).
`Reporter`'s view of `InvokeRPC` is `RPC`, and `Connection` implements it (`ImplementsContract`).
`Sampling` leaves open what `TokenBucket` and `Filters` decide; `Spans` and `Handlers` take the decision, and whether
`reportEvent` has room, as a choice; `Metadata` says what the ids are that `Spans` and `Handlers`
treat as numbers. `Readiness`, `Sampling` and `Metrics` see `getSettings`
as the source of settings. These do not share variables, so `MCSampling` and `MCBackground` check them side by
side, one part per behaviour.

Definitions whose comment begins with "Mutation:" are not part of any specification. Each is a
plausible slip in the definition that follows it, and TLC finds the property that it
breaks; `PROJECT.json` pairs them.

## Runs

| run | instance | shows |
|---|---|---|
| `bytes_bucket` | bucket of 3 bytes, events of 1, 2 and 4 bytes, 4 of them, channel of 2 | order, limits, no empty drain, every event is drained, the bucket is an `EventQueue` |
| `reporter` | 2 events, one per batch, channel of one batch, one application goroutine with a deadline, `getSettings` | the safety properties of the goroutines and of shutdown |
| `reporter_live` | 1 event, without `getSettings` | posting, closing, returning, exiting |
| `connection` | 2 goroutines, all kinds of methods, 2 addresses, 1 redirection, 1 retry | bounded attempts, no leak, a client that stays while it is used, the contract; `InvokeRPC` returns |
| `sampling` | see below | what happens to a request |
| `spans` | a trace with 2 more spans, siblings or nested, 2 goroutines, 4 calls | one end, a graph of events, nothing lost, no deadlock |
| `background` | see below | what runs beside the traces |
| `flush`, `exit`, `drain`, `leak`, `other` | small | the five disagreements below |

`sampling` and `background` check modules that share no variable, one part per behaviour:

| property | part and its instance | says |
|---|---|---|
| `NeverWidened`, `AnswerTruthful` | decision: every kind of request, 5 sets of flags, rates below and above the maximum, local configuration of each mode, one update and an expiry at any moment | local settings and filters never widen what a setting with the override flag allows; the header of the response says what was done |
| `BurstBounded`, `CountsMatchDecisions` | bucket: 2 requests, 3 decisions, a token of 2 units, rate 3, capacities 2 and 5, one tick after the start | bounded bursts, reports that add up |
| `RequestAccounted` (`HopsConnected`, `MeasuredOnce`) | handlers: 3 of them linked in any way, each response written at most twice, each may panic, any entry event and one other may be refused | from the exit event the client learns, every exit event whose response was used can be reached unless an exit event on the way was refused; one measurement per request, with the status that went out |
| `FilterAnswers` | filters: 2 requests, 3 URLs, 2 settings, legal or not | the first setting that matches, cached or not |
| `MetadataFaithful` | metadata: all 16 first bytes of the version, ids of ones, mixed, or (in part) of zeros, lengths around those announced | a context says what the header said, events are in the request's trace, and every edge leads to something |
| `ReadinessLive` | readiness: 2 waiters | no wake-up is lost (`WaitersWake`); a withdrawal that raced with a new setting does not last (`ReadinessHeals`) |
| `LimitHonest`, `LargestKept` | metrics: 3 spans of 2 names, limits 1 and 3, 2 reports; the longest queue: 2 goroutines | no report beyond the limit of its cycle, and the overflow flag true; no length is missing from the reports after its call |
| `HostIdCurrent` | host: 3 updaters, 2 fields | no field goes back to an earlier reading or to nothing |
| `ChunksFaithful` | serverless: 5 messages of 1, 2 and 4 bytes, chunks of 3 | every accepted message in one chunk, in order |
| `OutputFaithful` (`HistogramFaithful`) | histogram: 3 of 6 values up to 900 with one figure | what is decoded is what was recorded, percentiles up to the precision |
| `ConfigSound` | configuration: files and environments that vary sampling or the other fields | only values in range, and configured means that a value the user gave is in force; disabled means default values, but for a section that is nil |
| `OutputFaithful` (`LiteralsReplaced`) | sanitizer: all statements of two tokens and a separator, 3 dialects, letters of one and two bytes, and two longer ones of which the end is swallowed; at most 6 runes | one mark per literal, the rest unchanged, up to a dollar-quoted literal with a wide letter before its end |

`SamplingRunTypes` and `BackgroundTypeOK` are the type invariants of the parts.

Bounds: `MaxEvents`, `MaxCalls`, `MaxUpdates` and their like bound how much the application, the collector or a timer asks for; the capacities and
limits (`SourceCap`, `BatchCap`, `WaitingLimit`, `RedirectMax`, `RetryMax`, `ChannelCap`, `MaxChunkSize`, `MaxSQLLen`) are the code's
constants made small, so that each limit is met and exceeded. Two events and a channel of one batch suffice for a batch that
waits in each place at once (bucket, push, channel, call). One application goroutine suffices for
`Shutdown`, because the RPC goroutines call it as well. Two spans beside the trace are the least that can be siblings
or parent and child, and four calls let both goroutines end the same span while a third is begun or named. Three handlers are the least with
an outer, an inner and one in between. Deadlock is not checked where the
program really stops (after shutdown, or when all allowed calls were made); `bytes_bucket` has
deadlock checking on. In `sampling` the larger capacity leaves tokens that the smaller one cuts, so that the
bucket is full with an old `last` and is refilled for the tick at once: the bound of `BurstBounded` is then met exactly (without its
extra token, the run fails). Its requests differ in nothing but their names, and no definition chooses among
them: the run takes them as symmetric.

Fairness: `FairBucketSpec` and `FairSpec` of `Reporter` assume that Go keeps scheduling a
goroutine that can run and that timers and deadlines pass (weak fairness). They assume strong fairness of the
`done` case in `periodicTasks`, because Go's select chooses at random among the ready cases, and of the end of
an RPC, which `InvokeReturns` justifies. Nothing makes the application report or shut down. `FairSpec` of
`Connection` assumes strong fairness for every goroutine in `InvokeRPC`: every call has a timeout
(`grpcCtxTimeout`), `backoff` sleeps for a limited time, and `sync.RWMutex` does not let new readers pass a
waiting writer. `FairSpec` of `Spans` assumes strong fairness of a goroutine within a call, because `sync.Mutex`
hands the lock to a waiter that starves. `BackgroundFairness` assumes weak fairness of goroutines inside
`getSettings`, `checkSettingsTimeout` and `WaitForReady`, all of whose steps stay enabled until they are taken; nothing makes
the collector answer or a setting expire.

### Where the code and its comments disagree

- `flush`: `Shutdown` can return nil before the last metrics were sent, because `eventBatchSender`
  closes `flushed` too (`reporter_grpc.go:730`). The metrics are then not sent at all.
- `exit`: `Shutdown` without a deadline can wait for ever, together with `eventBatchSender` and
  `collectMetrics`, if both are told that the key is invalid at the moment of the shutdown: they wait for the `Do`
  that waits for them (`reporter_grpc.go:372`). With a deadline (`reporter_live`) all of them leave.
- `drain`: the bucket is told at the start whether the shutdown will be graceful (`:685`), so that
  a graceful shutdown does not drain it.
- `leak`: after `Close` an `InvokeRPC` in progress can open a new connection (`:199`, `:1178`).
- `other`: a span beyond the limit on names is to be counted as `other` (`metrics.go:666`), but the tags made
  before are used again: it is dropped, or counted twice under its own name.

The comment that the watermark "may exceed the HWM temporarily" (`bytesbucket.go:23`) is
cautious: `WithinHWM` is part of the theorem `BucketKeepsLimits`.

Other observations, for a reader of the code. Each is in the models as it is in the code, unless marked, and
where no comment is quoted nothing in the repository promises otherwise:

- `shouldSample` compares with `<=`, so that a rate of zero still samples one request in a million (`oboe.go:586`).
- A trigger trace's decision has the bucket's capacity and rate in each other's place (`oboe.go:328-329`; they are only reported, and not modelled).
- A regular expression that does not compile is logged as ignored, but stays as a nil filter whose match panics (`url.go:133-136`).
- The deferred writer of the ignored keys writes to a nil map when `NewContext` returned before a header was set (`context.go:587`).
- `traceFromHTTPRequest` clears the request's X-Trace header if the entry event was refused, so that services further on
  start traces of their own (`http_instrumentation.go:229`).
- `span.End` checks `ok` before it takes the lock and not again, so that two goroutines that end the same span (not the
  trace) report two exit events (`layer.go:261`).
- `WaitForReady`'s helper is left waiting after the context ends (`reporter_grpc.go:457`), and `updateSettings` can make a closed
  reporter ready again (`:892`).
- A YAML error together with an empty section `Sampling` leaves the section nil for good: `loadYaml` returns before it repairs the pointer
  (`config.go:708`), and the reset that follows does not look through a nil pointer (`:570`). `NewConfig` promises default values there
  (`:320-322`), but the getters of the section (`:794-808`) panic. `ConfigSound` names the case (`SamplingLost`); it has no run of its own.
- Two goroutines that call `ExitMetadata` at the same time can be told different ids (`trace.go:319-323`), and the exit event has the one
  assigned last, where the comment says that the id told "will be used by the exit event" (`:316`). `NothingLost` leaves these calls out.
- The sanitizer looks for the end of a dollar-quoted literal among the runes, but at the number of a byte (`sql_sanitizer.go:203`, `:243`). After
  a letter of more than one byte it looks too far: the literal may not end, and swallow what follows, or end at the wrong `$`. `LiteralsReplaced` names these literals (`Misread`).

## Theorems

All are proved for every value of the constants that satisfies the `ASSUME`s in the modules.

The assumptions say what the code takes for granted: sizes and limits are natural numbers, the identities of
goroutines, spans and requests are not the values that stand for none of them, and the fields of the configuration and of the
transaction settings have the types of their Go fields (`ConfigurationAssumption`, `FiltersAssumption`;
`Texts` are the strings a field may have). `HandlersAssumption` has every HTTP status above zero, which `net/http` enforces
by a panic of its own.

*The bucket.* `BucketInv` is `BucketTypeOK` with `WithinHWM`, `WaitingAtMostOne`, `FullNotEmpty`
and what makes them inductive: a watermark above zero means that the bucket holds an event, and an event
waits only while the bucket is full or empty. While the owner receives, the
waiting list is empty, so `Postpone` puts the only event there; every event fits into an
empty bucket, because larger ones are discarded, so the next refill empties the list.
`BucketInOrder` and `BucketImplementsQueue` follow from it step by step, with lemmas on the concatenation of
sequences. `WatermarkExact`, a part of `BucketLimits`, needs sums over sequences: `Batches` defines a sum as the cardinality of
a set of pairs, which the theorems on finite sets can reason about, where a fold would need induction.

*The reporter.* `BucketStep` shows that every step of the reporter is a step of the bucket or leaves it
alone, so `BucketInv` carries over (`ReporterImplementsBucket`). `ReporterInv` adds that every batch in the
channel is non-empty (so that `eventBatchSender` never stops listening early); that the caller inside `Do` owns it and `done` is closed only from
within, so that nobody sets `gracefully` afterwards
(`ReporterGracefulSettled`); how much room the channel has once `eventBatchSender` has left
(`ReporterBatchesHaveReader`); and where the token of `collectMetrics` is (`ReporterOneCollector`,
`ReporterFlushComplete`). `ReporterPostsInOrder` follows from `OrderInv`: as long as
`eventBatchSender` listens, the batches posted, followed by those on their way, cut up what was drained, and `messages` is what was
posted last (`Posting`). `ReporterShutdownServed` says who may wait for whom in `Shutdown`: a caller for the one inside `Do`, and that
one for the flush, if it is an application whose context is not done (`AwaitsFlush`); everybody else finds the guard of its next step
true (`CanGoOn`), and each step takes it further. It needs that who owns `Do` is inside it and that `done` is closed in the middle of it, once (`DoHeld`), and
that a goroutine is not in an RPC and in `Shutdown` at once (`Apart`). What remains of the wait is the run `exit`: the flush may
wait for a goroutine that waits for `Do`.

*The connection.* `ConnInv` has a budget: the calls begun so far are at most
`redirects * (RetryMax + 1)` plus the retries since the last redirection, plus one at the places where a
call has begun and is not yet counted (`ConnectionAttemptsBounded`). It has a ledger for `late`
(`ConnectionFailFast`), and says that who is in a call holds the lock (`ConnectionClientStable`).
`ConnectionImplementsContract` maps `loc` to the three states of `RPC`.
`ConnectionProgress` is what makes `InvokeRPC` end: a step of a goroutine within it leads out or further (`Further`), in the order of
redirections, then of retries since the last one, then of the places between (`Rank`), and the limits bound all three
(`WithinLimits`). Nobody else's step changes where a goroutine is in that order; `setAddress` and `Close`, which others call, only change
what it will find.

*The token bucket.* `TokenBucketBurstBounded` follows from `Credit`: for each token taken, the tokens taken
since and those left are at most a full bucket, one token, and the yield up to `last`; if
`last` is older than the token, it was the latest, and the bucket has room again. The bound itself is not
inductive, since it says nothing of what is left in the bucket. `TokenBucketCountsMatchDecisions` follows from `Ledger`: what
is reported and what is in the counters, with the requests between two of their increments, are the
decisions; the requests in progress are counted as finite sets.

*The sampling decision.* `SamplingInv` says that every setting in the store or in use keeps `NeverWidened`'s promise by itself
(`SoundStore`), and what each stage of a request leaves for the next (`Stages`): above all that, between the decision and the
answer, the decision's response, its flags and the kind of entry event to come agree (`Consistent`). Since a decision is
made with one setting, read once, what `UpdateSetting` does meanwhile cannot break it. `SamplingNeverWidened` and
`SamplingAnswerTruthful` follow. `SamplingRunTypeCorrect` says that a step of one part of `MCSampling` is a stuttering step of
the others, so that the invariants of the parts hold side by side.

*Filters.* `FilterInv` says that every mode in the cache, and every answer not stored yet, is right for its URL, where `Right` is stated
with the settings, not the filters made of them. That a lookup is right (`LookupRight`) needs the first of several indices: the
library's theorem on minimal elements of a well-founded set provides it (`LeastExists`), and the greatest with it.

*Handlers.* `HandlerInv` says that a live handler is one that has not left (`Lives`), that status and response of a process agree until its
header was written a second time (`Observed`), and that only handlers that have left are measured (`Left`). A handler that
wraps no other writes to its own process, the nearest below it (`BaseOf`). `HopsConnected` needs `HopInv`: ids are their own and exit events
are not reported early (`Fresh`); the trace of a handler is that of its caller or its own (`Traces`); what was written is the exit
event of the outermost trace (`Announced`), which a proxy that copied it still has (`Copied`); the edges of a running handler lead to
the exit event of the handler inside it once that one's response was used, directly or by a client span (`Promised`), and so does its own
exit event after it has left (`Linked`), which is reported (`Told`), each unless the channel refused an exit event on the way (`Arrived`). A
response is used after its handler has left (`Used`), when that is known. `reach` is a recursive function, of which the prover knows
nothing before it is shown to exist (`ReachExists`); a path is then followed from the outermost handler inwards (`PathDown`), by
the least handler that would not be reached. Both do without induction over data, by minimal counterexamples.

*Metadata.* `UnpackProperties`, `PackProperties` and `PackedReads` say byte by byte what is read and written, for any lengths, and that
what is packed can be unpacked to the same; `FirstByte`, `SameLengths` and `OptionBit` are the arithmetic of the byte that announces the lengths.
`MetadataInv` says that the first context is the header until its first event, but for the flag (`AsRead`), that contexts
are in the request's trace and sampled ones of full length have an id that is not zero (`InTrace`), and that the op id of a context is that
of the request or of an event reported (`OpsKnown`). A zero id is valid if it is shorter than 20 bytes. That such an id
is not filled up and reported rests on an order of the code: `NewContext` reports the entry before it returns a sampled context, which
`prepareEvent` refuses for short ids, so that no sampled one is left to copy.

*Spans.* `TypeInv` contains who holds which lock (`Locks`). `SpansTraceOnce` needs `TraceInv`: whoever is about to compose or send
the exit of the trace found it not ended, the exit is prepared exactly when it is marked as ended, and it was measured if it has ended or
the one goroutine that holds its lock is about to send (`Measured`).
`SpansEventGraph` needs that every op id in a context and every child's edge is known, that is, of an event
prepared before (`Contexts`), that the edges of an event not yet sent are (`Composed`), and that a live span
has sent its entry (`Alive`).
`SpansNothingLost` follows from `LossInv`: what was given waits in the span until it has ended (`Waiting`); ids and names given
out last (`Lasting`), since all spans of a trace share one transaction context (`OneName`); who is in `End` has noted what is due
(`Noted`); and the first exit event carries that, from the moment it is made (`OnItsWay`) until it was sent (`Delivered`). An id that is noted
stays that of the exit event (`ExitInv`): no call of `ExitMetadata` is then between its check and its assignment (`Settled`), and one that comes later finds
the event (`Told`). That a
second `End` reports an empty exit event takes nothing back.
`SpansCallsAdvance` excludes a deadlock for any nesting of spans. Parents can be ranked before their children (`Ranked`), since a parent
has begun before its child (`Begun`); a goroutine that holds a span's lock waits only for the lock of that span's parent (`Joining`).
In a set of goroutines that wait for each other, the one whose span has the least rank would wait for one of a lesser rank still.

*Metrics.* `LimitInv` is `LimitHonest` with the finiteness of the set of names, which counting needs; the theorems on
cardinalities do the rest. `LargestInv` adds that a goroutine about to swap brings more than it has seen, so that a swap never
lowers the value. The reports a call may count on are those taken since it began, so a new call starts without any.

*Readiness and the host.* `ReadyInv` keeps that no helper sleeps while the agent is ready
(`NobodySleepsReady`), the safety part of `WaitersWake`, and that who has given up has returned false. `HostInv` says that one updater works at a time and holds the token,
and that what it has copied or read is at least as recent as what is known; `HostStaysCurrent` is the action property that
follows.

*The serverless reporter.* `ServerlessInv` says that the chunks with the buffered messages, in their order, cut up what was
accepted (`CutUp`), that sizes add up, and that with `syncWrite` nothing is left in the buffer.

*The sanitizer.* `SanitizerKeepsOrder` says for every statement a part of what `LiteralsReplaced` says for those of the run: nothing is
made up, moved or repeated. `SanitizerInv` gives for each rune of the result a position of the statement it comes from, in
increasing order, before the one that is read next (`CopiedInOrder`), and bounds the length (`LengthLimited`). `ReadsRunes` shows
that all states of the automaton do one of three things to the result: leave it, add a mark or the rune read, or take some of its end back.

*Configuration.* `ConfigIsSound` follows the load through its sources: after each, every field has its type, and a flag
that says that a field is configured is set exactly if a source so far had the field (`Holds`); validation
then makes the values right, and takes the flag away with a value it resets. The section on sampling is nil after the file
exactly in the case `SamplingLost`, and the load then ends with the reset.
`BackgroundTypeCorrect` is for `MCBackground` what `SamplingRunTypeCorrect` is for `MCSampling`.

Only model-checked: liveness (`EventuallyDrained`, `EventuallyPosted`, `InvalidKeyCloses`,
`ShutdownReturns`, `GoroutinesExit`, `InvokeReturns`, `CallsReturn`, `ReadinessLive`), which is out of the prover's reach. The
safety halves of five of them are proved, that is, that nothing but the scheduling they assume can hold them up: `ConnectionProgress`
for `InvokeReturns`, `SpansCallsAdvance` for `CallsReturn`, `ReporterShutdownServed` for `InvalidKeyCloses` and `ShutdownReturns`, and
`NobodySleepsReady` for `WaitersWake`. `OutputFaithful` is checked on the run only: `HistogramFaithful` computes with
powers of two, of which the provers know no facts, and with recursive functions; `LiteralsReplaced` compares what an automaton
made of a text with a concatenation over its tokens, which needs induction over the tokens.

## Plan

Done: the bucket, the reporter's event path and shutdown, the connection, readiness, sampling with buckets and filters,
metadata, spans, HTTP handlers, inbound metrics, the host observer, the serverless reporter, loading the configuration, the
sanitizer and the histogram. What is left, in this order:

1. `Reporter`: `statusSender` with `reportStatus`, a second path like that of the events, but without a bucket.
2. `Metrics`: custom metrics (`Summary`, `Increment`), which use the same `Measurements` without the aggregator, and the
   end of the aggregator at shutdown.
3. An abstract rate limiter that `TokenBucket` implements.
4. The OpenTracing adapter's baggage and propagation, and the gRPC interceptors' streams, on top of `Spans`.

## Not modelled

BSON and protobuf encoding, base64 and the histogram log, logging, reading the host's metadata, dialling
through a proxy, the UDP reporter, the exporter, the adapters (OpenTracing, gRPC, Lambda), generated code and test
support. They keep little or no shared state, or do I/O only. Left out of modelled parts: the interval of the metrics, whose value is only
a time; the fields of the configuration without rules of their own; explicit ids and time stamps of the serverless
API, which replace a drawn id by one of the caller's.
