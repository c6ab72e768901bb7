------------------------------ MODULE Metrics ------------------------------
(***************************************************************************)
(* The inbound metrics (internal/metrics/metrics.go) and who works with     *)
(* them (internal/reporter/reporter_grpc.go): the application reports       *)
(* spans, spanMessageAggregator measures them, updateSettings changes the   *)
(* limit on names, InvokeRPC notes the longest queue, and collectMetrics    *)
(* takes everything for a report and resets it, one part after the other.   *)
(*                                                                         *)
(* A measurement is identified by a transaction name and the kind of tag    *)
(* (the name alone, the method, the status, the error).                     *)
(***************************************************************************)
EXTENDS Integers, Sequences, FiniteSets

CONSTANTS
  Names,      \* transaction names
  Kinds,      \* kinds of tags of a span; one of them is "primary"
  Caps,       \* limits the collector may send (MaxTransactions)
  ChannelCap, \* capacity of the channel spanMessages
  Posters,    \* goroutines that post events
  Lengths,    \* lengths of the queues they report
  MaxSpans,   \* bound: spans reported
  MaxCaps,    \* bound: limits sent
  MaxReports  \* bound: rounds of collectMetrics

ASSUME MetricsAssumption ==
  /\ "primary" \in Kinds /\ IsFiniteSet(Kinds)
  /\ Caps \subseteq Nat /\ Caps # {}
  /\ ChannelCap \in Nat \ {0}
  /\ Lengths \subseteq Nat
  /\ MaxSpans \in Nat /\ MaxCaps \in Nat /\ MaxReports \in Nat

MetricIds == Names \X Kinds
IdsOf(n) == {n} \X Kinds

VARIABLES
  spanMessages,
  aggregator, span,      \* spanMessageAggregator: where it is, with which span
  m,                     \* Measurements: the count of every measurement
  transactionNames, currCap, nextCap, overflow,  \* its TransMap
  histograms,            \* counts, per name and overall
  queueLargest,
  poster, length, seen,  \* per goroutine in SetQueueLargest: where, its argument, what it loaded
  collector, report,     \* collectMetrics: where it is, and the message it builds
  spans, caps, reports,  \* how many so far
  refused,               \* history: some measurement was refused since the TransMap was reset
  counted, processed,    \* history: spans counted under a name, and processed
  taken                  \* history: per poster: the largest length taken by a report since its latest call

transVars == <<transactionNames, currCap, nextCap, overflow>>
posterVars == <<queueLargest, poster, length, seen, taken>>
collectVars == <<collector, report, reports>>
aggVars == <<aggregator, span, processed>>
metricVars == <<spanMessages, aggVars, m, transVars, histograms, posterVars, collectVars,
                spans, caps, refused, counted>>

NoReport == [sent |-> FALSE, names |-> {}, cap |-> 0, overflow |-> FALSE, refused |-> FALSE]
\* The overall histogram has no transaction name.
Overall == ""
NoHistograms == [n \in Names \cup {Overall} |-> 0]

MetricsInit ==
  /\ spanMessages = <<>> /\ aggregator = "idle" /\ span \in Names
  /\ m = [id \in MetricIds |-> 0]
  /\ transactionNames = {} /\ overflow = FALSE
  /\ currCap \in Caps /\ nextCap = currCap
  /\ histograms = NoHistograms
  /\ queueLargest = 0
  /\ poster = [g \in Posters |-> "idle"]
  /\ length = [g \in Posters |-> 0] /\ seen = [g \in Posters |-> 0] /\ taken = [g \in Posters |-> 0]
  /\ collector = "idle" /\ report = NoReport
  /\ spans = 0 /\ caps = 0 /\ reports = 0
  /\ refused = FALSE /\ counted = 0 /\ processed = 0

-----------------------------------------------------------------------------
(* Spans. *)

\* Mutation: the channel has always room.
Endless == TRUE

Room == Len(spanMessages) < ChannelCap

\* reportSpan: a full channel drops the span.
ReportSpan(n) ==
  /\ spans < MaxSpans
  /\ spans' = spans + 1
  /\ spanMessages' = IF Room THEN Append(spanMessages, n) ELSE spanMessages
  /\ UNCHANGED <<aggVars, m, transVars, histograms, posterVars, collectVars, caps, refused, counted>>

RecordHistogram(n) == histograms' = [histograms EXCEPT ![n] = @ + 1]

\* The aggregator takes a span; Process always adds it to the overall histogram.
Process ==
  /\ aggregator = "idle" /\ spanMessages # <<>>
  /\ span' = Head(spanMessages) /\ spanMessages' = Tail(spanMessages)
  /\ RecordHistogram(Overall)
  /\ aggregator' = "record"
  /\ UNCHANGED <<m, transVars, posterVars, collectVars, spans, caps, refused, counted, processed>>

\* The measurement ids are added to their counts.
Add(ids) ==
  /\ m' = [id \in MetricIds |-> IF id \in ids THEN m[id] + 1 ELSE m[id]]
  /\ counted' = counted + Cardinality({id \in ids : id[2] = "primary"})

\* IsWithinLimit has room for so many more ids.
FreeNames == currCap - Cardinality(transactionNames)

\* record goes through the ids in no particular order and stops at the first new one for which
\* TransMap has no room: what it has added before stays.  `failed' is where the error leads.
Record(ids, ok, failed) ==
  LET new == ids \ transactionNames
      room == FreeNames
  IN \/ /\ Cardinality(new) <= room
        /\ Add(ids)
        /\ transactionNames' = transactionNames \cup new
        /\ aggregator' = ok
        /\ processed' = IF ok = "idle" THEN processed + 1 ELSE processed
        /\ UNCHANGED <<currCap, nextCap, overflow, refused>>
     \/ \E added \in SUBSET ids :
          /\ Cardinality(new) > room
          /\ Cardinality(added \cap new) = room
          /\ Add(added)
          /\ transactionNames' = transactionNames \cup added
          /\ overflow' = TRUE /\ refused' = TRUE
          /\ aggregator' = failed
          /\ processed' = IF failed = "idle" THEN processed + 1 ELSE processed
          /\ UNCHANGED <<currCap, nextCap>>

Measure ==
  /\ aggregator = "record"
  /\ Record(IdsOf(span), "histogram", "again")
  /\ UNCHANGED <<spanMessages, span, histograms, posterVars, collectVars, spans, caps>>

\* Beyond the limit the span is named `other', and recorded once more with the tags made before.
MeasureOther ==
  /\ aggregator = "again"
  /\ Record(IdsOf(span), "idle", "idle")
  /\ UNCHANGED <<spanMessages, span, histograms, posterVars, collectVars, spans, caps>>

MeasureHistogram ==
  /\ aggregator = "histogram"
  /\ RecordHistogram(span)
  /\ aggregator' = "idle" /\ processed' = processed + 1
  /\ UNCHANGED <<spanMessages, span, m, transVars, posterVars, collectVars, spans, caps, refused, counted>>

\* Mutation: the new limit applies at once.
SetCapNow(c) ==
  /\ caps < MaxCaps
  /\ caps' = caps + 1
  /\ nextCap' = c /\ currCap' = c
  /\ UNCHANGED <<spanMessages, aggVars, m, transactionNames, overflow, histograms, posterVars,
                 collectVars, spans, refused, counted>>

\* TransMap.SetCap: for the next cycle.
SetCap(c) ==
  /\ caps < MaxCaps
  /\ caps' = caps + 1
  /\ nextCap' = c
  /\ UNCHANGED <<spanMessages, aggVars, m, transactionNames, currCap, overflow, histograms, posterVars,
                 collectVars, spans, refused, counted>>

-----------------------------------------------------------------------------
(* The longest queue: a loop around compare-and-swap. *)

Larger(a, b) == IF a < b THEN b ELSE a

SetQueueLargest(g, n) ==
  /\ poster[g] \in {"idle", "done"}
  /\ poster' = [poster EXCEPT ![g] = "load"]
  /\ length' = [length EXCEPT ![g] = n]
  /\ taken' = [taken EXCEPT ![g] = 0]
  /\ UNCHANGED <<queueLargest, seen>>

LoadLargest(g) ==
  /\ poster[g] = "load"
  /\ seen' = [seen EXCEPT ![g] = queueLargest]
  /\ poster' = [poster EXCEPT ![g] = IF length[g] <= queueLargest THEN "done" ELSE "swap"]
  /\ UNCHANGED <<queueLargest, length, taken>>

\* Mutation: a plain store after the comparison.
Store(g) == TRUE

Unchanged(g) == queueLargest = seen[g]

CompareAndSwap(g) ==
  /\ poster[g] = "swap"
  /\ \/ Unchanged(g) /\ queueLargest' = length[g] /\ poster' = [poster EXCEPT ![g] = "done"]
     \/ ~Unchanged(g) /\ UNCHANGED queueLargest /\ poster' = [poster EXCEPT ![g] = "load"]
  /\ UNCHANGED <<length, seen, taken>>

-----------------------------------------------------------------------------
(* collectMetrics, from CopyAndReset to the message. *)

\* CopyAndReset of the measurements.  If there are none, there will be no message, and the
\* TransMap is not reset.
CopyAndReset ==
  /\ collector = "idle" /\ reports < MaxReports
  /\ reports' = reports + 1
  /\ collector' = "stats"
  /\ \/ /\ \A id \in MetricIds : m[id] = 0
        /\ report' = NoReport
        /\ UNCHANGED <<m, transVars, refused>>
     \/ /\ \E id \in MetricIds : m[id] # 0
        /\ report' = [sent |-> TRUE, names |-> {id \in MetricIds : m[id] # 0}, cap |-> currCap,
                      overflow |-> overflow, refused |-> refused]
        /\ m' = [id \in MetricIds |-> 0]
        /\ transactionNames' = {} /\ currCap' = nextCap /\ overflow' = FALSE /\ refused' = FALSE
        /\ UNCHANGED nextCap
  /\ UNCHANGED <<spanMessages, aggVars, histograms, posterVars, spans, caps, counted>>

\* CopyAndReset of the queue statistics, message or not.
TakeLargest ==
  /\ collector = "stats"
  /\ taken' = [g \in Posters |-> Larger(taken[g], queueLargest)]
  /\ queueLargest' = 0
  /\ collector' = IF report.sent THEN "histograms" ELSE "idle"
  /\ UNCHANGED <<spanMessages, aggVars, m, transVars, histograms, poster, length, seen, report,
                 spans, caps, reports, refused, counted>>

\* BuildBuiltinMetricsMessage takes the histograms of that moment.
TakeHistograms ==
  /\ collector = "histograms"
  /\ histograms' = NoHistograms
  /\ collector' = "idle"
  /\ UNCHANGED <<spanMessages, aggVars, m, transVars, posterVars, report, reports, spans, caps,
                 refused, counted>>

MetricsNext ==
  \/ \E n \in Names : ReportSpan(n)
  \/ Process \/ Measure \/ MeasureOther \/ MeasureHistogram
  \/ \E c \in Caps : SetCap(c)
  \/ /\ \E g \in Posters : \/ \E n \in Lengths : SetQueueLargest(g, n)
                           \/ LoadLargest(g) \/ CompareAndSwap(g)
     /\ UNCHANGED <<spanMessages, aggVars, m, transVars, histograms, collectVars, spans, caps, refused, counted>>
  \/ CopyAndReset \/ TakeLargest \/ TakeHistograms

MetricsSpec == MetricsInit /\ [][MetricsNext]_metricVars

-----------------------------------------------------------------------------
(* Correctness. *)

MetricsTypeOK ==
  /\ spanMessages \in Seq(Names) /\ Len(spanMessages) <= ChannelCap
  /\ aggregator \in {"idle", "record", "again", "histogram"} /\ span \in Names
  /\ m \in [MetricIds -> Nat]
  /\ transactionNames \in SUBSET MetricIds
  /\ currCap \in Caps /\ nextCap \in Caps /\ overflow \in BOOLEAN
  /\ histograms \in [Names \cup {Overall} -> Nat]
  /\ queueLargest \in Lengths \cup {0}
  /\ poster \in [Posters -> {"idle", "load", "swap", "done"}]
  /\ length \in [Posters -> Lengths \cup {0}] /\ seen \in [Posters -> Lengths \cup {0}]
  /\ taken \in [Posters -> Lengths \cup {0}]
  /\ collector \in {"idle", "stats", "histograms"}
  /\ report \in [sent : BOOLEAN, names : SUBSET MetricIds, cap : Caps \cup {0}, overflow : BOOLEAN, refused : BOOLEAN]
  /\ spans \in 0..MaxSpans /\ caps \in 0..MaxCaps /\ reports \in 0..MaxReports
  /\ refused \in BOOLEAN /\ counted \in Nat /\ processed \in 0..MaxSpans

\* The limit on names: a report never has more names than the limit that was in force in its
\* cycle, has exactly those admitted in that cycle, and says truly whether any was refused
\* (metrics.go:261-308, :403-418).
LimitHonest ==
  /\ Cardinality(transactionNames) <= currCap
  /\ transactionNames = {id \in MetricIds : m[id] # 0}
  /\ overflow <=> refused
  /\ Cardinality(report.names) <= report.cap
  /\ report.overflow <=> report.refused

\* The longest queue is not lost: when SetQueueLargest has returned, the length is covered by
\* the current value or by what a report took since that call began (metrics.go:898-923).
LargestKept ==
  \A g \in Posters : poster[g] = "done" => length[g] <= Larger(queueLargest, taken[g])

\* A span beyond the limit is reported as `other' (metrics.go:666-667): every span processed
\* is counted once.
CountedOnce == aggregator = "idle" => counted = processed
=============================================================================
