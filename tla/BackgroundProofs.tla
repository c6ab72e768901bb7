-------------------------- MODULE BackgroundProofs --------------------------
(***************************************************************************)
(* Proofs about what goes on besides traces: Readiness, HostObserver,       *)
(* Metrics, Serverless, Configuration and Sanitizer, for any number of      *)
(* waiters and posters, any fields, names, texts and limits.                *)
(***************************************************************************)
EXTENDS MCBackground, BatchesProofs, FiniteSetTheorems

-----------------------------------------------------------------------------
(* Readiness. *)

\* Only who has given up has told the helper to.
GivenUp == \A w \in Waiters : giveUp[w] => waiter[w] = "false"

ReadyInv == ReadyTypeOK /\ NobodySleepsReady /\ GivenUp

LEMMA ReadyInvInit == ReadyInit => ReadyInv
  BY DEF ReadyInit, ReadyInv, ReadyTypeOK, NobodySleepsReady, GivenUp

LEMMA ReadyInvNext == ReadyInv /\ [ReadyNext]_readyVars => ReadyInv'
  <1> SUFFICES ASSUME ReadyInv, [ReadyNext]_readyVars PROVE ReadyInv'
    OBVIOUS
  <1> USE DEF ReadyInv, ReadyTypeOK, NobodySleepsReady, GivenUp
  <1>1. CASE StartGetSettings
    BY <1>1 DEF StartGetSettings, waitVars
  <1>2. CASE RpcFails \/ StoreSettings \/ StoreOthers \/ GetterReady \/ GetterDefault
    BY <1>2 DEF RpcFails, StoreSettings, StoreOthers, GetterReady, GetterDefault, waitVars
  <1>3. CASE SetReady
    <2>1. /\ ready' = TRUE /\ getter' = "idle"
          /\ helper' = [w \in Waiters |-> IF helper[w] = "asleep" THEN "awake" ELSE helper[w]]
          /\ UNCHANGED <<default, closed, checker, stopper, waiter, giveUp>>
      BY <1>3 DEF SetReady, Broadcast
    <2>2. helper' \in [Waiters -> {"none", "awake", "asleep", "gone"}]
          /\ \A w \in Waiters : helper'[w] # "asleep" /\ (helper[w] # "none" => helper'[w] # "none")
      BY <2>1
    <2> QED
      BY <2>1, <2>2
  <1>4. CASE TimePasses \/ CheckTimeout \/ CheckerReady \/ CheckerDefault
    BY <1>4 DEF TimePasses, CheckTimeout, CheckerReady, CheckerDefault, waitVars
  <1>5. CASE CloseDone
    BY <1>5 DEF CloseDone, waitVars
  <1>11. CASE Withdraw
    BY <1>11 DEF Withdraw, waitVars
  <1>12. CASE StopReady
    BY <1>12 DEF StopReady, waitVars
  <1>6. ASSUME NEW w \in Waiters, WaitForReady(w) PROVE ReadyInv'
    BY <1>6 DEF WaitForReady
  <1>7. ASSUME NEW w \in Waiters, StartHelper(w) PROVE ReadyInv'
    <2>1. UNCHANGED <<ready, default, closed, getter, checker, stopper, giveUp>> /\ waiter[w] = "ready?"
      BY <1>7 DEF StartHelper
    <2>2. CASE ready
      <3>1. waiter' = [waiter EXCEPT ![w] = "true"] /\ helper' = [helper EXCEPT ![w] = "none"]
        BY <1>7, <2>2 DEF StartHelper
      <3>2. \A v \in Waiters : helper'[v] # "asleep" /\ (v # w => helper'[v] = helper[v] /\ waiter'[v] = waiter[v])
        BY <2>2, <3>1
      <3>3. ~giveUp[w]
        BY <2>1
      <3> QED
        BY <2>1, <2>2, <3>1, <3>2, <3>3
    <2>3. CASE ~ready
      <3>1. waiter' = [waiter EXCEPT ![w] = "waiting"] /\ helper' = [helper EXCEPT ![w] = "awake"]
        BY <1>7, <2>3 DEF StartHelper
      <3>2. ~giveUp[w]
        BY <2>1
      <3> QED
        BY <2>1, <2>3, <3>1, <3>2
    <2> QED
      BY <2>2, <2>3
  <1>8. ASSUME NEW w \in Waiters, HelperLooks(w) PROVE ReadyInv'
    BY <1>8 DEF HelperLooks
  <1>9. ASSUME NEW w \in Waiters, WaiterWakes(w) \/ WaiterGivesUp(w) PROVE ReadyInv'
    <2>1. CASE WaiterWakes(w)
      BY <2>1 DEF WaiterWakes
    <2>2. CASE WaiterGivesUp(w)
      <3>1. /\ waiter' = [waiter EXCEPT ![w] = "false"] /\ giveUp' = [giveUp EXCEPT ![w] = TRUE]
            /\ UNCHANGED <<ready, default, closed, getter, checker, stopper, helper>>
        BY <2>2 DEF WaiterGivesUp
      <3>2. \A v \in Waiters : waiter'[v] = "waiting" => waiter[v] = "waiting" /\ giveUp'[v] = giveUp[v]
        BY <3>1
      <3> QED
        BY <3>1, <3>2
    <2> QED
      BY <1>9, <2>1, <2>2
  <1>10. CASE UNCHANGED readyVars
    BY <1>10 DEF readyVars, waitVars
  <1> QED
    BY <1>1, <1>2, <1>3, <1>4, <1>5, <1>6, <1>7, <1>8, <1>9, <1>10, <1>11, <1>12
       DEF ReadyNext, GetterStep, CheckerStep, WaiterStep

\* The types, and no helper of WaitForReady sleeps while the reporter is ready: since it looks
\* and falls asleep under the lock that updateSettings holds to broadcast, no wake-up is lost.
THEOREM ReadyTypeCorrect == ReadySpec => [](ReadyTypeOK /\ NobodySleepsReady)
  <1>1. ReadyInv => ReadyTypeOK /\ NobodySleepsReady
    BY DEF ReadyInv
  <1> QED
    BY <1>1, ReadyInvInit, ReadyInvNext, PTL DEF ReadySpec

-----------------------------------------------------------------------------
(* The observer of the host. *)

AtWork(u) == updater[u] \in {"copy", "read", "write", "token"}

\* One updater at a time, and what it holds is at least as recent as what is known.
OneUpdater ==
  /\ \A u, v \in Updaters : AtWork(u) /\ AtWork(v) => u = v
  /\ \A u \in Updaters : AtWork(u) => token = 0
  /\ \A u \in Updaters : u > updates => updater[u] = "none"
Recent ==
  /\ \A f \in Fields : id[f] <= readings
  /\ \A u \in Updaters : updater[u] \in {"read", "write"} =>
       \A f \in Fields : id[f] <= values[u][f] /\ values[u][f] <= readings

HostInv == HostTypeOK /\ OneUpdater /\ Recent

LEMMA HostInvInit == HostInit => HostInv
  <1> SUFFICES ASSUME HostInit PROVE HostInv
    OBVIOUS
  <1>1. HostTypeOK
    <2>1. NewID \in [Fields -> Nat] /\ 0 \in 0..MaxUpdates
      BY HostAssumption DEF NewID, Unknown
    <2>2. values \in [Updaters -> [Fields -> Nat]] /\ id \in [Fields -> Nat]
      BY <2>1 DEF HostInit
    <2> QED
      BY <2>1, <2>2 DEF HostInit, HostTypeOK
  <1>2. OneUpdater /\ Recent
    BY DEF HostInit, OneUpdater, Recent, AtWork, NewID, Unknown
  <1> QED
    BY <1>1, <1>2 DEF HostInv

\* update starts an updater only when none is at work.
LEMMA UpdateInv ==
  ASSUME HostInv, Update, observer' \in {"exit?", "select"},
         UNCHANGED <<exitClosed, values, readings, id, idReady, asker>>
  PROVE  HostInv'
  <1> USE HostAssumption DEF HostInv
  <1>1. CASE UNCHANGED <<token, updates, updater>>
    BY <1>1 DEF HostTypeOK, OneUpdater, Recent, AtWork
  <1>2. CASE /\ token > 0 /\ updates < MaxUpdates
             /\ token' = token - 1
             /\ updates' = updates + 1
             /\ updater' = [updater EXCEPT ![updates + 1] = "copy"]
    <2>1. token = 1 /\ token' = 0 /\ updates \in Nat /\ updates + 1 \in Updaters
      BY <1>2 DEF HostTypeOK, Updaters
    <2>2. HostTypeOK'
      BY <1>2, <2>1 DEF HostTypeOK, Updaters
    <2>3. \A u \in Updaters : ~AtWork(u)
      BY <2>1 DEF OneUpdater
    <2>4. \A u \in Updaters : updater'[u] = IF u = updates + 1 THEN "copy" ELSE updater[u]
      BY <1>2, <2>1 DEF HostTypeOK
    <2>5. OneUpdater'
      BY <1>2, <2>1, <2>3, <2>4 DEF OneUpdater, AtWork, Updaters
    <2>6. Recent'
      BY <2>4 DEF Recent
    <2> QED
      BY <2>2, <2>5, <2>6
  <1> QED
    BY <1>1, <1>2 DEF Update

LEMMA HostStep ==
  HostInv /\ [HostNext]_hostVars => HostInv' /\ \A f \in Fields : id'[f] >= id[f]
  <1> SUFFICES ASSUME HostInv, [HostNext]_hostVars
               PROVE  HostInv' /\ \A f \in Fields : id'[f] >= id[f]
    OBVIOUS
  <1> USE HostAssumption DEF HostInv
  <1>1. id \in [Fields -> Nat] /\ readings \in Nat /\ updates \in Nat
    BY DEF HostTypeOK
  <1>2. ASSUME UNCHANGED <<token, updates, updateVars>>,
               observer' \in {"none", "first", "exit?", "sleeping", "loop", "select", "stopped"},
               exitClosed' \in BOOLEAN, asker' \in {"none", "waiting", "got"}
        PROVE  HostInv' /\ \A f \in Fields : id'[f] >= id[f]
    BY <1>1, <1>2 DEF updateVars, HostTypeOK, OneUpdater, Recent, AtWork
  <1>3. CASE Start \/ Stop \/ CheckExit \/ WakeUp \/ Select \/ CurrentID \/ WaitForID
    BY <1>2, <1>3 DEF Start, Stop, CheckExit, WakeUp, Select, CurrentID, WaitForID, HostTypeOK
  <1>4. CASE FirstUpdate \/ LoopUpdate
    BY <1>1, <1>4, UpdateInv DEF FirstUpdate, LoopUpdate
  <1>5. ASSUME NEW u \in Updaters, CopyID(u) PROVE HostInv' /\ \A f \in Fields : id'[f] >= id[f]
    <2>1. HostTypeOK'
      BY <1>5 DEF CopyID, HostTypeOK
    <2>2. OneUpdater'
      BY <1>5 DEF CopyID, HostTypeOK, OneUpdater, AtWork
    <2>3. Recent'
      BY <1>1, <1>5 DEF CopyID, HostTypeOK, Recent
    <2> QED
      BY <1>1, <1>5, <2>1, <2>2, <2>3 DEF CopyID
  <1>6. ASSUME NEW u \in Updaters, ReadFields(u) PROVE HostInv' /\ \A f \in Fields : id'[f] >= id[f]
    <2>1. PICK known \in SUBSET Fields :
            values' = [values EXCEPT ![u] =
                         [f \in Fields |-> GetOrFallback(IF f \in known THEN readings + 1 ELSE Unknown,
                                                         values[u][f])]]
      BY <1>6 DEF ReadFields
    <2>2. /\ readings' = readings + 1 /\ updater[u] = "read" /\ updater' = [updater EXCEPT ![u] = "write"]
          /\ UNCHANGED <<observer, exitClosed, token, updates, id, idReady, asker>>
      BY <1>6 DEF ReadFields
    <2>3. values \in [Updaters -> [Fields -> Nat]]
      BY DEF HostTypeOK
    <2>4. \A f \in Fields : /\ values'[u][f] \in Nat
                            /\ id[f] <= values'[u][f] /\ values'[u][f] <= readings + 1
      BY <1>1, <2>1, <2>2, <2>3 DEF GetOrFallback, Unknown, Recent
    <2>5. \A v \in Updaters \ {u} : values'[v] = values[v]
      BY <2>1, <2>3
    <2>6. values' \in [Updaters -> [Fields -> Nat]]
      BY <1>1, <2>1, <2>3 DEF GetOrFallback, Unknown
    <2>7. HostTypeOK'
      <3>1. readings' \in Nat
        BY <1>1, <2>2
      <3>2. updater' \in [Updaters -> {"none", "copy", "read", "write", "token", "done"}]
        BY <2>2 DEF HostTypeOK
      <3> QED
        BY <2>2, <2>6, <3>1, <3>2 DEF HostTypeOK
    <2>8. OneUpdater'
      BY <2>2 DEF HostTypeOK, OneUpdater, AtWork
    <2>9. Recent'
      <3>1. \A v \in Updaters : v # u => updater'[v] = updater[v]
        BY <2>2 DEF HostTypeOK
      <3>2. \A v \in Updaters \ {u} : updater[v] \in {"read", "write"} =>
               \A f \in Fields : id[f] <= values[v][f] /\ values[v][f] <= readings + 1
        BY <1>1, <2>3 DEF Recent
      <3> QED
        BY <1>1, <2>2, <2>4, <2>5, <3>1, <3>2 DEF Recent
    <2> QED
      BY <1>1, <2>2, <2>7, <2>8, <2>9
  <1>7. ASSUME NEW u \in Updaters, FullUpdate(u) PROVE HostInv' /\ \A f \in Fields : id'[f] >= id[f]
    <2>1. /\ updater[u] = "write" /\ id' = values[u] /\ idReady' = TRUE
          /\ updater' = [updater EXCEPT ![u] = "token"]
          /\ UNCHANGED <<observer, exitClosed, token, updates, values, readings, asker>>
      BY <1>7 DEF FullUpdate
    <2>2. \A f \in Fields : id[f] <= id'[f] /\ id'[f] <= readings
      BY <2>1 DEF Recent
    <2>3. HostTypeOK'
      BY <2>1 DEF HostTypeOK
    <2>4. OneUpdater'
      BY <2>1 DEF HostTypeOK, OneUpdater, AtWork
    <2>5. \A v \in Updaters : updater'[v] \notin {"read", "write"}
      BY <2>1 DEF HostTypeOK, OneUpdater, AtWork
    <2>6. Recent'
      BY <2>1, <2>2, <2>5 DEF Recent
    <2> QED
      BY <1>1, <2>2, <2>3, <2>4, <2>6 DEF HostTypeOK
  <1>8. ASSUME NEW u \in Updaters, ReturnToken(u) PROVE HostInv' /\ \A f \in Fields : id'[f] >= id[f]
    <2>1. /\ updater[u] = "token" /\ updater' = [updater EXCEPT ![u] = "done"] /\ token' = 1
          /\ UNCHANGED <<observer, exitClosed, updates, values, readings, id, idReady, asker>>
      BY <1>8 DEF ReturnToken, Finished
    <2>2. HostTypeOK'
      BY <2>1 DEF HostTypeOK
    <2>3. \A v \in Updaters : ~AtWork(v)'
      BY <2>1 DEF HostTypeOK, OneUpdater, AtWork
    <2>4. OneUpdater'
      BY <2>1, <2>3 DEF HostTypeOK, OneUpdater, AtWork
    <2>5. Recent'
      BY <2>1 DEF HostTypeOK, Recent
    <2> QED
      BY <1>1, <2>1, <2>2, <2>4, <2>5
  <1>9. CASE UNCHANGED hostVars
    BY <1>2, <1>9 DEF hostVars, HostTypeOK
  <1> QED
    BY <1>3, <1>4, <1>5, <1>6, <1>7, <1>8, <1>9 DEF HostNext, UpdaterStep

\* The types; the token makes sure that at most one updater is at work.
THEOREM HostTypeCorrect == HostSpec => [](HostTypeOK /\ OneUpdater)
  <1>1. HostInv => HostTypeOK /\ OneUpdater
    BY DEF HostInv
  <1> QED
    BY <1>1, HostInvInit, HostStep, PTL DEF HostSpec

\* What is known of the host never goes back to an earlier reading.
THEOREM HostStaysCurrent == HostSpec => HostIdCurrent
  <1>1. HostInv /\ [HostNext]_hostVars => [\A f \in Fields : id'[f] >= id[f]]_hostVars
    BY HostStep
  <1> QED
    BY <1>1, HostInvInit, HostStep, PTL DEF HostSpec, HostIdCurrent

-----------------------------------------------------------------------------
(* Metrics. *)

\* Every span reported is in the channel, being processed, or processed, or was dropped.
Counting == processed + Len(spanMessages) + (IF aggregator = "idle" THEN 0 ELSE 1) <= spans

ReportType == [sent : BOOLEAN, names : SUBSET MetricIds, cap : Caps \cup {0}, overflow : BOOLEAN,
               refused : BOOLEAN]

\* The conjuncts of MetricsTypeOK, by who writes the variables.
SpanTypes ==
  /\ spanMessages \in Seq(Names) /\ Len(spanMessages) <= ChannelCap
  /\ aggregator \in {"idle", "record", "again", "histogram"} /\ span \in Names
  /\ spans \in 0..MaxSpans /\ processed \in 0..MaxSpans
CountTypes ==
  /\ m \in [MetricIds -> Nat] /\ histograms \in [Names \cup {Overall} -> Nat]
  /\ counted \in Nat
TransTypes ==
  /\ transactionNames \in SUBSET MetricIds
  /\ currCap \in Caps /\ nextCap \in Caps /\ caps \in 0..MaxCaps
  /\ overflow \in BOOLEAN /\ refused \in BOOLEAN
PosterTypes ==
  /\ queueLargest \in Lengths \cup {0}
  /\ poster \in [Posters -> {"idle", "load", "swap", "done"}]
  /\ length \in [Posters -> Lengths \cup {0}] /\ seen \in [Posters -> Lengths \cup {0}]
  /\ taken \in [Posters -> Lengths \cup {0}]
CollectTypes ==
  /\ collector \in {"idle", "stats", "histograms"}
  /\ report \in ReportType /\ reports \in 0..MaxReports

TypeInv == SpanTypes /\ CountTypes /\ TransTypes /\ PosterTypes /\ CollectTypes /\ Counting

LimitInv == LimitHonest /\ IsFiniteSet(transactionNames)

\* A goroutine about to swap has seen less than what it brings.
LargestInv ==
  /\ LargestKept
  /\ \A g \in Posters : poster[g] = "swap" => seen[g] < length[g]

-----------------------------------------------------------------------------
LEMMA TypeInvInit == MetricsInit => TypeInv
  <1> SUFFICES ASSUME MetricsInit PROVE TypeInv
    OBVIOUS
  <1> USE MetricsAssumption
  <1>1. CollectTypes
    BY DEF MetricsInit, NoReport, CollectTypes, ReportType
  <1>2. spanMessages \in Seq(Names) /\ Len(spanMessages) = 0
    BY EmptySeq DEF MetricsInit
  <1>3. TransTypes
    <2>1. 0 \in 0..MaxCaps /\ FALSE \in BOOLEAN
      OBVIOUS
    <2> QED
      BY <2>1 DEF MetricsInit, TransTypes
  <1>6. m \in [MetricIds -> Nat] /\ histograms \in [Names \cup {Overall} -> Nat]
    BY DEF MetricsInit, NoHistograms
  <1>7. CountTypes
    BY <1>6 DEF MetricsInit, CountTypes
  <1>4. SpanTypes /\ Counting
    BY <1>2 DEF MetricsInit, SpanTypes, Counting
  <1>5. PosterTypes
    BY DEF MetricsInit, PosterTypes
  <1> QED
    BY <1>1, <1>3, <1>4, <1>5, <1>7 DEF TypeInv

\* The ids of one span are finitely many.
LEMMA IdsFinite ==
  ASSUME NEW n
  PROVE  IsFiniteSet(IdsOf(n)) /\ \A ids \in SUBSET IdsOf(n) : IsFiniteSet(ids)
  <1>1. IsFiniteSet({n} \X Kinds)
    BY MetricsAssumption, FS_Singleton, FS_Product
  <1> QED
    BY <1>1, FS_Subset DEF IdsOf

\* Adding keeps the types.
LEMMA AddTypes ==
  ASSUME CountTypes, NEW n \in Names, NEW ids \in SUBSET IdsOf(n), Add(ids), UNCHANGED histograms
  PROVE  CountTypes'
  <1>1. IsFiniteSet({key \in ids : key[2] = "primary"})
    BY IdsFinite, FS_Subset
  <1>2. Cardinality({key \in ids : key[2] = "primary"}) \in Nat
    BY <1>1, FS_CardinalityType
  <1>3. counted' \in Nat
    BY <1>2 DEF Add, CountTypes
  <1>4. m' \in [MetricIds -> Nat]
    BY DEF Add, CountTypes
  <1> QED
    BY <1>3, <1>4 DEF CountTypes

LEMMA RecordTypes ==
  ASSUME TypeInv, aggregator # "idle", NEW ok \in {"idle", "histogram"}, NEW failed \in {"idle", "again"},
         Record(IdsOf(span), ok, failed),
         UNCHANGED <<spanMessages, span, histograms, posterVars, collectVars, spans, caps>>
  PROVE  TypeInv'
  <1> USE MetricsAssumption DEF TypeInv
  <1>1. PICK ids \in SUBSET IdsOf(span) : Add(ids) /\ transactionNames' = transactionNames \cup ids
    BY DEF Record, FreeNames
  <1>2. ids \subseteq MetricIds
    BY <1>1 DEF IdsOf, MetricIds, SpanTypes
  <1>3. CountTypes'
    BY <1>1, AddTypes DEF SpanTypes
  <1>4. /\ UNCHANGED <<currCap, nextCap>> /\ overflow' \in BOOLEAN /\ refused' \in BOOLEAN
        /\ aggregator' \in {"idle", "histogram", "again"}
        /\ processed' = IF aggregator' = "idle" THEN processed + 1 ELSE processed
    BY DEF Record, FreeNames, TransTypes
  <1>5. Len(spanMessages) \in Nat /\ spans \in Nat /\ processed \in Nat /\ spans <= MaxSpans
    BY LenProperties DEF SpanTypes
  <1>6. Counting' /\ processed' \in 0..MaxSpans
    BY <1>4, <1>5 DEF Counting
  <1>7. SpanTypes'
    BY <1>4, <1>6 DEF SpanTypes
  <1>8. TransTypes'
    BY <1>1, <1>2, <1>4 DEF TransTypes
  <1>9. PosterTypes' /\ CollectTypes'
    BY DEF PosterTypes, CollectTypes, posterVars, collectVars
  <1> QED
    BY <1>3, <1>6, <1>7, <1>8, <1>9

LEMMA TypeInvNext == TypeInv /\ [MetricsNext]_metricVars => TypeInv'
  <1> SUFFICES ASSUME TypeInv, [MetricsNext]_metricVars PROVE TypeInv'
    OBVIOUS
  <1> USE MetricsAssumption DEF TypeInv
  <1>1. Len(spanMessages) \in Nat /\ spans \in Nat /\ processed \in Nat /\ spans <= MaxSpans
    BY LenProperties DEF SpanTypes
  <1>2. ASSUME NEW n \in Names, ReportSpan(n) PROVE TypeInv'
    <2>1. /\ spanMessages' \in Seq(Names) /\ Len(spanMessages') \in Nat
          /\ Len(spanMessages') <= ChannelCap /\ Len(spanMessages') <= Len(spanMessages) + 1
      BY <1>1, <1>2, AppendProperties DEF ReportSpan, Room, SpanTypes
    <2>2. spans' = spans + 1 /\ spans' \in 0..MaxSpans /\ UNCHANGED <<aggregator, span, processed>>
      BY <1>1, <1>2 DEF ReportSpan, aggVars
    <2>3. Counting' /\ SpanTypes'
      BY <1>1, <2>1, <2>2 DEF Counting, SpanTypes
    <2>4. CountTypes' /\ TransTypes' /\ PosterTypes' /\ CollectTypes'
      BY <1>2 DEF ReportSpan, CountTypes, TransTypes, PosterTypes, CollectTypes, transVars, posterVars, collectVars
    <2> QED
      BY <2>3, <2>4
  <1>3. CASE Process
    <2>1. spanMessages \in Seq(Names) /\ spanMessages # <<>>
      BY <1>3 DEF Process, SpanTypes
    <2>2. /\ Head(spanMessages) \in Names /\ Tail(spanMessages) \in Seq(Names)
          /\ Len(Tail(spanMessages)) = Len(spanMessages) - 1
      BY <2>1, HeadTailProperties
    <2>3. /\ spanMessages' = Tail(spanMessages) /\ span' = Head(spanMessages)
          /\ aggregator = "idle" /\ aggregator' = "record" /\ UNCHANGED <<processed, spans>>
      BY <1>3 DEF Process
    <2>4. Counting' /\ SpanTypes'
      BY <1>1, <2>2, <2>3 DEF SpanTypes, Counting
    <2>5. CountTypes'
      BY <1>3 DEF Process, RecordHistogram, CountTypes
    <2>6. TransTypes' /\ PosterTypes' /\ CollectTypes'
      BY <1>3 DEF Process, TransTypes, PosterTypes, CollectTypes, transVars, posterVars, collectVars
    <2> QED
      BY <2>4, <2>5, <2>6
  <1>4. CASE Measure
    BY <1>4, RecordTypes DEF Measure
  <1>5. CASE MeasureOther
    BY <1>5, RecordTypes DEF MeasureOther
  <1>6. CASE MeasureHistogram
    <2>1. CountTypes'
      BY <1>6 DEF MeasureHistogram, RecordHistogram, CountTypes, SpanTypes
    <2>2. /\ aggregator = "histogram" /\ aggregator' = "idle" /\ processed' = processed + 1
          /\ UNCHANGED <<spanMessages, spans, span>>
      BY <1>6 DEF MeasureHistogram
    <2>3. Counting' /\ SpanTypes'
      BY <1>1, <2>2 DEF Counting, SpanTypes
    <2>4. TransTypes' /\ PosterTypes' /\ CollectTypes'
      BY <1>6 DEF MeasureHistogram, TransTypes, PosterTypes, CollectTypes, transVars, posterVars, collectVars
    <2> QED
      BY <2>1, <2>3, <2>4
  <1>7. ASSUME NEW c \in Caps, SetCap(c) PROVE TypeInv'
    <2>1. TransTypes'
      BY <1>7 DEF SetCap, TransTypes
    <2>2. SpanTypes' /\ Counting' /\ CountTypes' /\ PosterTypes' /\ CollectTypes'
      BY <1>7 DEF SetCap, SpanTypes, Counting, CountTypes, PosterTypes, CollectTypes, aggVars, posterVars, collectVars
    <2> QED
      BY <2>1, <2>2
  <1>8. ASSUME NEW g \in Posters, \/ \E n \in Lengths : SetQueueLargest(g, n)
                                  \/ LoadLargest(g) \/ CompareAndSwap(g),
               UNCHANGED <<spanMessages, aggVars, m, transVars, histograms, collectVars, spans, caps, refused, counted>>
        PROVE  TypeInv'
    <2>1. PosterTypes'
      BY <1>8 DEF SetQueueLargest, LoadLargest, CompareAndSwap, PosterTypes
    <2>2. SpanTypes' /\ Counting' /\ CountTypes' /\ TransTypes' /\ CollectTypes'
      BY <1>8 DEF SpanTypes, Counting, CountTypes, TransTypes, CollectTypes, aggVars, transVars, collectVars
    <2> QED
      BY <2>1, <2>2
  <1>9. CASE CopyAndReset
    <2>1. /\ reports' \in 0..MaxReports /\ collector' = "stats"
          /\ UNCHANGED <<spanMessages, aggVars, histograms, posterVars, spans, caps, counted>>
      BY <1>9 DEF CopyAndReset, CollectTypes
    <2>2. report' \in ReportType
      <3>1. NoReport \in ReportType
        BY DEF NoReport, ReportType
      <3>2. [sent |-> TRUE, names |-> {key \in MetricIds : m[key] # 0}, cap |-> currCap,
             overflow |-> overflow, refused |-> refused] \in ReportType
        BY DEF ReportType, TransTypes
      <3> QED
        BY <1>9, <3>1, <3>2 DEF CopyAndReset
    <2>3. TransTypes'
      BY <1>9 DEF CopyAndReset, transVars, TransTypes
    <2>4. m' \in [MetricIds -> Nat]
      BY <1>9 DEF CopyAndReset, CountTypes
    <2>5. CollectTypes' /\ CountTypes'
      BY <2>1, <2>2, <2>4 DEF CollectTypes, CountTypes
    <2>6. SpanTypes' /\ Counting' /\ PosterTypes'
      BY <2>1 DEF SpanTypes, Counting, PosterTypes, aggVars, posterVars
    <2> QED
      BY <2>3, <2>5, <2>6
  <1>10. CASE TakeLargest
    <2>1. PosterTypes'
      BY <1>10 DEF TakeLargest, Larger, PosterTypes
    <2>2. SpanTypes' /\ Counting' /\ CountTypes' /\ TransTypes' /\ CollectTypes'
      BY <1>10 DEF TakeLargest, SpanTypes, Counting, CountTypes, TransTypes, CollectTypes, aggVars, transVars
    <2> QED
      BY <2>1, <2>2
  <1>11. CASE TakeHistograms
    <2>1. CountTypes'
      BY <1>11 DEF TakeHistograms, NoHistograms, CountTypes
    <2>2. SpanTypes' /\ Counting' /\ TransTypes' /\ PosterTypes' /\ CollectTypes'
      BY <1>11 DEF TakeHistograms, SpanTypes, Counting, TransTypes, PosterTypes, CollectTypes, aggVars,
         transVars, posterVars
    <2> QED
      BY <2>1, <2>2
  <1>12. CASE UNCHANGED metricVars
    BY <1>12 DEF metricVars, SpanTypes, CountTypes, TransTypes, PosterTypes, CollectTypes, Counting,
       aggVars, transVars, posterVars, collectVars
  <1> QED
    BY <1>2, <1>3, <1>4, <1>5, <1>6, <1>7, <1>8, <1>9, <1>10, <1>11, <1>12 DEF MetricsNext

\* The types, and no span is processed that was not reported.
THEOREM MetricsTypeCorrect == MetricsSpec => []MetricsTypeOK
  <1>1. TypeInv => MetricsTypeOK
    BY DEF TypeInv, SpanTypes, CountTypes, TransTypes, PosterTypes, CollectTypes, ReportType, MetricsTypeOK
  <1> QED
    BY <1>1, TypeInvInit, TypeInvNext, PTL DEF MetricsSpec

-----------------------------------------------------------------------------
(* The limit on names. *)

LEMMA LimitInit == MetricsInit => LimitInv
  BY MetricsAssumption, FS_EmptySet DEF MetricsInit, LimitInv, LimitHonest, NoReport

\* Adding ids to those that have a count.
LEMMA AddIds ==
  ASSUME CountTypes, transactionNames = {key \in MetricIds : m[key] # 0}, NEW ids \in SUBSET MetricIds, Add(ids)
  PROVE  {key \in MetricIds : m'[key] # 0} = transactionNames \cup ids
  <1>1. m' = [key \in MetricIds |-> IF key \in ids THEN m[key] + 1 ELSE m[key]]
    BY DEF Add
  <1>2. \A key \in MetricIds : m[key] \in Nat
    BY DEF CountTypes
  <1> QED
    BY <1>1, <1>2

\* A record stays within the limit: what is added beyond it stops at the last room.
LEMMA RecordLimit ==
  ASSUME TypeInv, LimitInv, NEW ok, NEW failed, Record(IdsOf(span), ok, failed), UNCHANGED report
  PROVE  LimitInv'
  <1> USE DEF LimitInv, LimitHonest
  <1> DEFINE ids == IdsOf(span)
             new == ids \ transactionNames
             room == currCap - Cardinality(transactionNames)
  <1>1. IsFiniteSet(new) /\ ids \subseteq MetricIds
    BY IdsFinite, FS_Difference DEF IdsOf, MetricIds, TypeInv, SpanTypes
  <1>2. Cardinality(transactionNames) \in Nat /\ Cardinality(new) \in Nat /\ currCap \in Nat
    BY <1>1, FS_CardinalityType, MetricsAssumption DEF TypeInv, TransTypes
  <1>3. PICK added \in SUBSET ids :
          /\ Add(added) /\ transactionNames' = transactionNames \cup added
          /\ currCap' = currCap /\ overflow' = refused'
          /\ Cardinality(added \cap new) <= room
    <2>1. CASE /\ Cardinality(new) <= room
               /\ Add(ids)
               /\ transactionNames' = transactionNames \cup new
               /\ UNCHANGED <<currCap, nextCap, overflow, refused>>
      <3>1. ids \cap new = new /\ transactionNames \cup new = transactionNames \cup ids
        OBVIOUS
      <3>2. overflow = refused
        BY DEF TypeInv, TransTypes
      <3> HIDE DEF ids, new, room
      <3> QED
        BY <2>1, <3>1, <3>2
    <2>2. CASE \E added \in SUBSET ids :
                 /\ Cardinality(new) > room
                 /\ Cardinality(added \cap new) = room
                 /\ Add(added)
                 /\ transactionNames' = transactionNames \cup added
                 /\ overflow' = TRUE /\ refused' = TRUE
                 /\ UNCHANGED <<currCap, nextCap>>
      <3> HIDE DEF ids, new
      <3>1. PICK added \in SUBSET ids :
               /\ Cardinality(added \cap new) = room
               /\ Add(added)
               /\ transactionNames' = transactionNames \cup added
               /\ overflow' = TRUE /\ refused' = TRUE
               /\ UNCHANGED <<currCap, nextCap>>
        BY <2>2
      <3>2. room \in Int /\ Cardinality(added \cap new) <= room /\ currCap' = currCap /\ overflow' = refused'
        BY <1>2, <3>1
      <3> HIDE DEF room
      <3> QED
        BY <3>1, <3>2
    <2> QED
      BY <2>1, <2>2 DEF Record, FreeNames
  <1>4. IsFiniteSet(added \cap new) /\ Cardinality(added \cap new) \in Nat
    BY <1>1, FS_Intersection, FS_CardinalityType
  <1>5. transactionNames \cup added = transactionNames \cup (added \cap new)
        /\ transactionNames \cap (added \cap new) = {}
    OBVIOUS
  <1>6. IsFiniteSet(transactionNames') /\ Cardinality(transactionNames') <= currCap
    <2> DEFINE A == added \cap new
    <2> HIDE DEF A
    <2>1. /\ IsFiniteSet(transactionNames \cup A)
          /\ Cardinality(transactionNames \cup A)
               = Cardinality(transactionNames) + Cardinality(A) - Cardinality(transactionNames \cap A)
      BY <1>4, FS_Union DEF A
    <2>2. Cardinality(transactionNames \cap A) = 0
      BY <1>5, FS_EmptySet DEF A
    <2>3. Cardinality(A) <= room /\ Cardinality(A) \in Nat
      BY <1>3, <1>4 DEF A
    <2>4. transactionNames' = transactionNames \cup A
      BY <1>3, <1>5 DEF A
    <2>5. Cardinality(transactionNames \cup A) <= currCap
      BY <1>2, <2>1, <2>2, <2>3
    <2> HIDE DEF room
    <2> QED
      BY <2>1, <2>4, <2>5
  <1>7. transactionNames' = {key \in MetricIds : m'[key] # 0}
    BY <1>1, <1>3, AddIds DEF TypeInv
  <1> QED
    BY <1>3, <1>6, <1>7

LEMMA LimitNext == TypeInv /\ LimitInv /\ [MetricsNext]_metricVars => LimitInv'
  <1> SUFFICES ASSUME TypeInv, LimitInv, [MetricsNext]_metricVars PROVE LimitInv'
    OBVIOUS
  <1>1. CASE Measure \/ MeasureOther
    <2>1. UNCHANGED report /\ \E ok, failed : Record(IdsOf(span), ok, failed)
      BY <1>1 DEF Measure, MeasureOther, collectVars
    <2> QED
      BY <2>1, RecordLimit
  <1>2. CASE CopyAndReset
    <2>1. CASE /\ report' = NoReport
               /\ UNCHANGED <<m, transVars, refused>>
      BY <2>1, FS_EmptySet DEF NoReport, transVars, LimitInv, LimitHonest
    <2>2. CASE /\ report' = [sent |-> TRUE, names |-> {key \in MetricIds : m[key] # 0}, cap |-> currCap,
                             overflow |-> overflow, refused |-> refused]
               /\ m' = [key \in MetricIds |-> 0]
               /\ transactionNames' = {} /\ currCap' = nextCap /\ overflow' = FALSE /\ refused' = FALSE
      <3>1. nextCap \in Nat
        BY MetricsAssumption DEF TypeInv, TransTypes
      <3> QED
        BY <2>2, <3>1, FS_EmptySet DEF LimitInv, LimitHonest
    <2> QED
      BY <1>2, <2>1, <2>2 DEF CopyAndReset
  <1>3. CASE UNCHANGED <<m, transactionNames, currCap, overflow, refused, report>>
    BY <1>3 DEF LimitInv, LimitHonest
  <1>4. ASSUME NEW n \in Names, ReportSpan(n) PROVE LimitInv'
    BY <1>3, <1>4 DEF ReportSpan, transVars, collectVars
  <1>5. ASSUME NEW c \in Caps, SetCap(c) PROVE LimitInv'
    BY <1>3, <1>5 DEF SetCap, collectVars
  <1>6. CASE Process \/ MeasureHistogram \/ TakeHistograms \/ TakeLargest
    BY <1>3, <1>6 DEF Process, MeasureHistogram, TakeHistograms, TakeLargest, transVars, collectVars
  <1>7. CASE UNCHANGED metricVars
    BY <1>3, <1>7 DEF metricVars, transVars, collectVars
  <1>8. CASE UNCHANGED <<spanMessages, aggVars, m, transVars, histograms, collectVars, spans, caps, refused, counted>>
    BY <1>3, <1>8 DEF transVars, collectVars
  <1> QED
    BY <1>1, <1>2, <1>4, <1>5, <1>6, <1>7, <1>8 DEF MetricsNext

\* No report has more names than its limit, and it says truly whether names were refused.
THEOREM MetricsLimitHonest == MetricsSpec => []LimitHonest
  <1>1. LimitInv => LimitHonest
    BY DEF LimitInv
  <1> QED
    BY <1>1, TypeInvInit, TypeInvNext, LimitInit, LimitNext, PTL DEF MetricsSpec

-----------------------------------------------------------------------------
(* The longest queue. *)

LEMMA LargestInit == MetricsInit => LargestInv
  BY DEF MetricsInit, LargestInv, LargestKept

LEMMA PosterNumbers ==
  ASSUME TypeInv
  PROVE  /\ poster \in [Posters -> {"idle", "load", "swap", "done"}]
         /\ length \in [Posters -> Nat] /\ seen \in [Posters -> Nat] /\ taken \in [Posters -> Nat]
         /\ queueLargest \in Nat
  <1>1. Lengths \cup {0} \subseteq Nat
    BY MetricsAssumption
  <1>2. PosterTypes
    BY DEF TypeInv
  <1>3. \A f \in [Posters -> Lengths \cup {0}] : f \in [Posters -> Nat]
    BY <1>1
  <1> QED
    BY <1>1, <1>2, <1>3 DEF PosterTypes

\* The steps of goroutine g.
LEMMA PosterStep ==
  ASSUME TypeInv, LargestInv, NEW g \in Posters,
         (\E n \in Lengths : SetQueueLargest(g, n)) \/ LoadLargest(g) \/ CompareAndSwap(g)
  PROVE  LargestInv'
  <1> USE MetricsAssumption DEF LargestInv, LargestKept
  <1>1. /\ poster \in [Posters -> {"idle", "load", "swap", "done"}]
        /\ length \in [Posters -> Nat] /\ seen \in [Posters -> Nat] /\ taken \in [Posters -> Nat]
        /\ queueLargest \in Nat
    BY PosterNumbers
  <1>2. ASSUME NEW n \in Lengths, SetQueueLargest(g, n) PROVE LargestInv'
    BY <1>1, <1>2 DEF SetQueueLargest
  <1>3. CASE LoadLargest(g)
    <2>1. length[g] <= queueLargest => length[g] <= Larger(queueLargest, taken[g])
      BY <1>1 DEF Larger
    <2> QED
      BY <1>1, <1>3, <2>1 DEF LoadLargest
  <1>4. CASE CompareAndSwap(g)
    <2>1. CASE Unchanged(g)
      <3>1. queueLargest < length[g] /\ queueLargest' = length[g] /\ poster' = [poster EXCEPT ![g] = "done"]
            /\ UNCHANGED <<length, seen, taken>>
        BY <1>4, <2>1 DEF CompareAndSwap, Unchanged
      <3>2. \A h \in Posters : Larger(queueLargest, taken[h]) <= Larger(queueLargest', taken[h])
        BY <1>1, <3>1 DEF Larger
      <3>3. length[g] <= Larger(queueLargest', taken[g])
        BY <1>1, <3>1 DEF Larger
      <3>4. \A h \in Posters : Larger(queueLargest, taken[h]) \in Nat /\ Larger(queueLargest', taken[h]) \in Nat
        BY <1>1, <3>1 DEF Larger
      <3> QED
        BY <1>1, <3>1, <3>2, <3>3, <3>4
    <2>2. CASE ~Unchanged(g)
      BY <1>1, <1>4, <2>2 DEF CompareAndSwap
    <2> QED
      BY <2>1, <2>2
  <1> QED
    BY <1>2, <1>3, <1>4

LEMMA LargestNext == TypeInv /\ LargestInv /\ [MetricsNext]_metricVars => LargestInv'
  <1> SUFFICES ASSUME TypeInv, LargestInv, [MetricsNext]_metricVars PROVE LargestInv'
    OBVIOUS
  <1>1. CASE TakeLargest
    <2>1. /\ taken' = [g \in Posters |-> Larger(taken[g], queueLargest)] /\ queueLargest' = 0
          /\ UNCHANGED <<poster, length, seen>>
      BY <1>1 DEF TakeLargest
    <2>2. /\ queueLargest \in Nat /\ taken \in [Posters -> Nat]
      BY PosterNumbers
    <2>3. \A g \in Posters : Larger(queueLargest', taken'[g]) = Larger(queueLargest, taken[g])
      BY <2>1, <2>2 DEF Larger
    <2> QED
      BY <2>1, <2>3 DEF LargestInv, LargestKept
  <1>2. CASE UNCHANGED posterVars
    BY <1>2 DEF posterVars, LargestInv, LargestKept
  <1>3. ASSUME NEW n \in Names, ReportSpan(n) PROVE LargestInv'
    BY <1>2, <1>3 DEF ReportSpan
  <1>4. ASSUME NEW c \in Caps, SetCap(c) PROVE LargestInv'
    BY <1>2, <1>4 DEF SetCap
  <1>5. CASE Process \/ Measure \/ MeasureOther \/ MeasureHistogram \/ CopyAndReset \/ TakeHistograms
    BY <1>2, <1>5 DEF Process, Measure, MeasureOther, MeasureHistogram, CopyAndReset, TakeHistograms
  <1>6. CASE UNCHANGED metricVars
    BY <1>2, <1>6 DEF metricVars
  <1> QED
    BY <1>1, <1>3, <1>4, <1>5, <1>6, PosterStep DEF MetricsNext

\* A length that SetQueueLargest was told is not lost, whoever interferes: it is covered by the
\* current value, which the next report takes, or by a report taken since that call began.
THEOREM MetricsLargestKept == MetricsSpec => []LargestKept
  <1>1. LargestInv => LargestKept
    BY DEF LargestInv
  <1> QED
    BY <1>1, TypeInvInit, TypeInvNext, LargestInit, LargestNext, PTL DEF MetricsSpec
-----------------------------------------------------------------------------
(* The log writer. *)

Kind == {"events", "metrics"}

\* A chunk in the making after others: what ChunksFaithful says, of any chunks.
Faithful(chunks, chunk, size, got) ==
  /\ \A kind \in Kind : CutUp(Append(OfKind(chunks, kind), chunk[kind]), got[kind])
  /\ \A i \in 1..Len(chunks) : SizeOf(chunks[i]) \in 1..MaxChunkSize
  /\ SizeOf(chunk) = size /\ size <= MaxChunkSize

\* With syncWrite nothing is left in the buffer between two calls.
ServerlessInv == ServerlessTypeOK /\ ChunksFaithful /\ (syncWrite => chunkSize = 0)

LEMMA ChunkTypes ==
  /\ NoData \in Chunk
  /\ \A chunk \in Chunk, kind \in Kind : chunk[kind] \in Seq(Message)
  /\ \A chunk \in Chunk : chunk.events \in Seq(Message) /\ chunk.metrics \in Seq(Message)
  /\ \A message \in Message : message.size \in Nat /\ message.size # 0
  <1>1. <<>> \in Seq(Message)
    BY EmptySeq
  <1> QED
    BY <1>1, ServerlessAssumption DEF NoData, Chunk, Kind, Message

LEMMA OfKindAppended ==
  ASSUME NEW chunks \in Seq(Chunk), NEW chunk \in Chunk, NEW kind \in Kind
  PROVE  /\ OfKind(chunks, kind) \in Seq(Seq(Message))
         /\ OfKind(Append(chunks, chunk), kind) = Append(OfKind(chunks, kind), chunk[kind])
  <1> DEFINE len == Len(chunks)
             more == Append(chunks, chunk)
             old == OfKind(chunks, kind)
             new == OfKind(more, kind)
  <1>1. /\ len \in Nat /\ Len(more) = len + 1 /\ more \in Seq(Chunk)
        /\ \A i \in 1..len : more[i] = chunks[i]
        /\ more[len + 1] = chunk
    BY AppendProperties, LenProperties
  <1>2. /\ \A i \in 1..len : chunks[i][kind] \in Seq(Message)
        /\ \A i \in 1..(len + 1) : more[i][kind] \in Seq(Message)
    <2>1. \A i \in 1..len : chunks[i] \in Chunk
      BY LenProperties
    <2>2. \A i \in 1..(len + 1) : more[i] \in Chunk
      BY <1>1, LenProperties
    <2> QED
      BY <2>1, <2>2, ChunkTypes
  <1>3. old \in Seq(Seq(Message)) /\ Len(old) = len /\ \A i \in 1..len : old[i] = chunks[i][kind]
    <2>1. old = [i \in 1..len |-> chunks[i][kind]]
      BY DEF OfKind
    <2> DEFINE B == Seq(Message)
    <2>2. \A i \in 1..len : chunks[i][kind] \in B
      BY <1>2
    <2> HIDE DEF old, B
    <2>3. old \in Seq(B)
      BY <1>1, <2>1, <2>2
    <2>4. Len(old) = len
      BY <1>1, <2>1
    <2> QED
      BY <2>1, <2>3, <2>4 DEF B
  <1>4. new = [i \in 1..(len + 1) |-> more[i][kind]]
    BY <1>1 DEF OfKind
  <1>5. chunk[kind] \in Seq(Message)
    BY ChunkTypes
  <1>6. /\ Append(old, chunk[kind]) = [i \in 1..(len + 1) |-> IF i = len + 1 THEN chunk[kind] ELSE old[i]]
    <2> DEFINE app == Append(old, chunk[kind])
    <2>1. /\ Len(app) = len + 1 /\ \A i \in 1..len : app[i] = old[i]
          /\ app[len + 1] = chunk[kind] /\ app \in Seq(Seq(Message))
      BY <1>3, <1>5, AppendedBatches
    <2>2. app = [i \in 1..Len(app) |-> app[i]]
      BY <2>1
    <2> HIDE DEF app, old
    <2>3. ASSUME NEW i \in 1..(len + 1)
          PROVE  app[i] = IF i = len + 1 THEN chunk[kind] ELSE old[i]
      <3>1. CASE i = len + 1
        BY <2>1, <3>1
      <3>2. CASE i # len + 1
        <4> HIDE DEF len
        <4>1. i \in 1..len
          BY <1>1, <3>2
        <4> QED
          BY <2>1, <3>2, <4>1
      <3> QED
        BY <3>1, <3>2
    <2> QED
      BY <2>1, <2>2, <2>3 DEF app
  <1>7. \A i \in 1..(len + 1) : more[i][kind] = IF i = len + 1 THEN chunk[kind] ELSE old[i]
    BY <1>1, <1>3
  <1> HIDE DEF old, new, more, len
  <1>8. new = Append(old, chunk[kind])
    BY <1>4, <1>6, <1>7
  <1> QED
    BY <1>3, <1>8 DEF old, new, more

LEMMA SizeIsNat ==
  ASSUME NEW chunk \in Chunk
  PROVE  SizeOf(chunk) \in Nat
  BY ChunkTypes, BytesIsNat DEF SizeOf

LEMMA NothingWritten == Faithful(<<>>, NoData, 0, NoData)
  <1>1. OfKind(<<>>, "events") = <<>> /\ OfKind(<<>>, "metrics") = <<>>
    BY DEF OfKind
  <1>2. NoData.events = <<>> /\ NoData.metrics = <<>>
    BY DEF NoData
  <1>3. CutUp(Append(<<>>, <<>>), <<>>)
    <2>1. <<>> \in Seq(Seq(Message)) /\ <<>> \in Seq(Message)
      BY EmptySeq
    <2>2. CutUp(Append(<<>>, <<>>), <<>> \o <<>>)
      BY <2>1, NothingIsCutUp, OneMoreBatch
    <2> QED
      BY <2>1, <2>2, ConcatEmptySeq
  <1>4. \A kind \in Kind : CutUp(Append(OfKind(<<>>, kind), NoData[kind]), NoData[kind])
    BY <1>1, <1>2, <1>3 DEF Kind
  <1>5. SizeOf(NoData) = 0
    BY <1>2, NoBytes DEF SizeOf
  <1>6. Len(<<>>) = 0
    OBVIOUS
  <1> QED
    BY <1>4, <1>5, <1>6, ServerlessAssumption DEF Faithful

\* flush.
LEMMA FlushFaithful ==
  ASSUME NEW chunks \in Seq(Chunk), NEW chunk \in Chunk, NEW size \in Nat, NEW got \in Chunk,
         Faithful(chunks, chunk, size, got)
  PROVE  /\ Flushed(chunk, size, chunks) \in Seq(Chunk)
         /\ Faithful(Flushed(chunk, size, chunks), IF size = 0 THEN chunk ELSE NoData, 0, got)
  <1>1. CASE size = 0
    BY <1>1 DEF Flushed
  <1>2. CASE size # 0
    <2> DEFINE more == Append(chunks, chunk)
    <2>1. /\ more \in Seq(Chunk) /\ Len(more) = Len(chunks) + 1 /\ Len(chunks) \in Nat
          /\ \A i \in 1..Len(chunks) : more[i] = chunks[i]
          /\ more[Len(chunks) + 1] = chunk
      BY AppendProperties, LenProperties
    <2>2. ASSUME NEW kind \in Kind
          PROVE  CutUp(Append(OfKind(more, kind), NoData[kind]), got[kind])
      <3>1. /\ OfKind(more, kind) = Append(OfKind(chunks, kind), chunk[kind])
            /\ OfKind(more, kind) \in Seq(Seq(Message))
        BY <2>1, OfKindAppended
      <3>2. CutUp(OfKind(more, kind), got[kind])
        BY <3>1 DEF Faithful
      <3>3. NoData[kind] = <<>> /\ <<>> \in Seq(Message)
        BY EmptySeq DEF NoData, Kind
      <3>4. got[kind] \in Seq(Message)
        BY ChunkTypes
      <3>5. CutUp(Append(OfKind(more, kind), <<>>), got[kind] \o <<>>)
        BY <3>1, <3>2, <3>3, <3>4, OneMoreBatch
      <3> QED
        BY <3>3, <3>4, <3>5, ConcatEmptySeq
    <2>3. ASSUME NEW i \in 1..Len(more) PROVE SizeOf(more[i]) \in 1..MaxChunkSize
      <3>1. i \in 1..Len(chunks) \/ i = Len(chunks) + 1
        BY <2>1
      <3>2. SizeOf(chunk) \in 1..MaxChunkSize
        BY <1>2, ServerlessAssumption DEF Faithful
      <3> QED
        BY <2>1, <3>1, <3>2 DEF Faithful
    <2>4. SizeOf(NoData) = 0
      BY NoBytes DEF SizeOf, NoData
    <2>5. Flushed(chunk, size, chunks) = more
      BY <1>2 DEF Flushed
    <2> HIDE DEF more
    <2> QED
      BY <1>2, <2>1, <2>2, <2>3, <2>4, <2>5, ServerlessAssumption DEF Faithful
  <1> QED
    BY <1>1, <1>2

\* One message more.
LEMMA AddFaithful ==
  ASSUME NEW chunks \in Seq(Chunk), NEW chunk \in Chunk, NEW size \in Nat, NEW got \in Chunk,
         NEW kind \in Kind, NEW message \in Message,
         Faithful(chunks, chunk, size, got), size + message.size <= MaxChunkSize
  PROVE  /\ [chunk EXCEPT ![kind] = Append(@, message)] \in Chunk
         /\ [got EXCEPT ![kind] = Append(@, message)] \in Chunk
         /\ Faithful(chunks, [chunk EXCEPT ![kind] = Append(@, message)], size + message.size,
                     [got EXCEPT ![kind] = Append(@, message)])
  <1> DEFINE fuller == [chunk EXCEPT ![kind] = Append(@, message)]
             more == [got EXCEPT ![kind] = Append(@, message)]
  <1>1. ASSUME NEW c \in Chunk
        PROVE  /\ [c EXCEPT ![kind] = Append(@, message)] \in Chunk
               /\ [c EXCEPT ![kind] = Append(@, message)][kind] = Append(c[kind], message)
               /\ \A k \in Kind : k # kind => [c EXCEPT ![kind] = Append(@, message)][k] = c[k]
    <2>1. Append(c.events, message) \in Seq(Message) /\ Append(c.metrics, message) \in Seq(Message)
      BY ChunkTypes, AppendProperties
    <2> QED
      BY <2>1 DEF Chunk, Kind
  <1>2. /\ fuller \in Chunk /\ more \in Chunk
        /\ fuller[kind] = Append(chunk[kind], message) /\ more[kind] = Append(got[kind], message)
        /\ \A k \in Kind : k # kind => fuller[k] = chunk[k] /\ more[k] = got[k]
    BY <1>1
  <1>3. ASSUME NEW k \in Kind
        PROVE  CutUp(Append(OfKind(chunks, k), fuller[k]), more[k])
    <2>1. CutUp(Append(OfKind(chunks, k), chunk[k]), got[k])
      BY DEF Faithful
    <2>2. OfKind(chunks, k) \in Seq(Seq(Message)) /\ chunk[k] \in Seq(Message) /\ got[k] \in Seq(Message)
      BY ChunkTypes, OfKindAppended
    <2>3. CASE k = kind
      BY <1>2, <2>1, <2>2, <2>3, LastBatchGrows
    <2>4. CASE k # kind
      BY <1>2, <2>1, <2>4
    <2> QED
      BY <2>3, <2>4
  <1>4. SizeOf(fuller) = size + message.size
    <2>1. \A k \in Kind : /\ BytesIn(chunk[k]) \in Nat
                          /\ BytesIn(Append(chunk[k], message)) = BytesIn(chunk[k]) + message.size
      BY ChunkTypes, MoreBytes
    <2>2. SizeOf(chunk) = BytesIn(chunk["events"]) + BytesIn(chunk["metrics"]) /\ SizeOf(chunk) = size
      BY DEF SizeOf, Faithful
    <2>3. SizeOf(fuller) = BytesIn(fuller["events"]) + BytesIn(fuller["metrics"])
      BY DEF SizeOf
    <2>4. message.size \in Nat /\ "events" \in Kind /\ "metrics" \in Kind
      BY ChunkTypes DEF Kind
    <2>5. CASE kind = "events"
      <3>1. fuller["events"] = Append(chunk["events"], message) /\ fuller["metrics"] = chunk["metrics"]
        BY <1>2, <2>4, <2>5
      <3> HIDE DEF fuller
      <3> QED
        BY <2>1, <2>2, <2>3, <2>4, <3>1
    <2>6. CASE kind = "metrics"
      <3>1. fuller["metrics"] = Append(chunk["metrics"], message) /\ fuller["events"] = chunk["events"]
        BY <1>2, <2>4, <2>6
      <3> HIDE DEF fuller
      <3> QED
        BY <2>1, <2>2, <2>3, <2>4, <3>1
    <2> QED
      BY <2>5, <2>6 DEF Kind
  <1> HIDE DEF fuller, more
  <1>5. Faithful(chunks, fuller, size + message.size, more)
    BY <1>3, <1>4 DEF Faithful
  <1> QED
    BY <1>2, <1>5 DEF fuller, more

LEMMA ServerlessInvInit == ServerlessInit => ServerlessInv
  <1> SUFFICES ASSUME ServerlessInit PROVE ServerlessInv
    OBVIOUS
  <1>1. Faithful(written, msg, chunkSize, accepted)
    BY NothingWritten DEF ServerlessInit
  <1>2. <<>> \in Seq(Chunk)
    BY EmptySeq
  <1> QED
    BY <1>1, <1>2, ChunkTypes, ServerlessAssumption
       DEF ServerlessInit, ServerlessInv, ServerlessTypeOK, ChunksFaithful, Faithful, Kind

LEMMA WriteFaithful ==
  ASSUME ServerlessInv, NEW kind \in Kind, NEW encoded \in Sizes, Write(kind, encoded)
  PROVE  /\ msg' \in Chunk /\ accepted' \in Chunk /\ written' \in Seq(Chunk)
         /\ chunkSize' \in Nat /\ messages' \in 0..MaxMessages
         /\ syncWrite' = syncWrite /\ (syncWrite => chunkSize' = 0)
         /\ Faithful(written', msg', chunkSize', accepted')
  <1> DEFINE message == [number |-> messages + 1, size |-> encoded]
             first == ~syncWrite /\ ~Fits(chunkSize, encoded)
             chunks == IF first THEN Flushed(msg, chunkSize, written) ELSE written
             left == IF first /\ chunkSize # 0 THEN NoData ELSE msg
             chunk == [left EXCEPT ![kind] = Append(@, message)]
             size == (IF first THEN 0 ELSE chunkSize) + encoded
             took == [accepted EXCEPT ![kind] = Append(@, message)]
  <1>1. /\ syncWrite \in BOOLEAN /\ chunkSize \in Nat /\ messages \in 0..MaxMessages
        /\ msg \in Chunk /\ accepted \in Chunk /\ written \in Seq(Chunk)
        /\ (syncWrite => chunkSize = 0)
        /\ Faithful(written, msg, chunkSize, accepted)
    BY DEF ServerlessInv, ServerlessTypeOK, ChunksFaithful, Faithful, Kind
  <1>2. /\ messages' = messages + 1 /\ messages' \in 1..MaxMessages /\ syncWrite' = syncWrite
    BY <1>1, ServerlessAssumption DEF Write
  <1>3. message \in Message /\ message.size = encoded /\ encoded \in Nat
    BY <1>1, <1>2, ServerlessAssumption DEF Message
  <1>4. CASE UNCHANGED <<msg, chunkSize, written, accepted>>
    BY <1>1, <1>2, <1>4
  <1>5. CASE /\ encoded <= MaxChunkSize
             /\ msg' = IF syncWrite THEN NoData ELSE chunk
             /\ chunkSize' = IF syncWrite THEN 0 ELSE size
             /\ written' = IF syncWrite THEN Flushed(chunk, size, chunks) ELSE chunks
             /\ accepted' = took
    <2>1. /\ chunks \in Seq(Chunk) /\ left \in Chunk
          /\ Faithful(chunks, left, IF first THEN 0 ELSE chunkSize, accepted)
      BY <1>1, FlushFaithful, ChunkTypes
    <2>2. (IF first THEN 0 ELSE chunkSize) \in Nat /\ size \in Nat /\ size <= MaxChunkSize
      BY <1>1, <1>3, <1>5, ServerlessAssumption DEF Fits
    <2>3. (IF first THEN 0 ELSE chunkSize) + message.size = size
      BY <1>3
    <2> HIDE DEF message, first, left, chunks
    <2>4. chunk \in Chunk /\ took \in Chunk /\ Faithful(chunks, chunk, size, took)
      <3> DEFINE n == IF first THEN 0 ELSE chunkSize
      <3>1. n \in Nat /\ n + message.size = size /\ n + message.size <= MaxChunkSize
            /\ Faithful(chunks, left, n, accepted)
        BY <2>1, <2>2, <2>3
      <3> HIDE DEF n, size
      <3> QED
        BY <1>1, <1>3, <2>1, <3>1, AddFaithful
    <2> HIDE DEF chunk, size, took
    <2>5. CASE syncWrite
      <3>1. size # 0
        BY <1>3, <2>2, ServerlessAssumption DEF size, first
      <3> QED
        BY <1>2, <1>5, <2>1, <2>2, <2>4, <2>5, <3>1, FlushFaithful, ChunkTypes
    <2>6. CASE ~syncWrite
      BY <1>2, <1>5, <2>1, <2>2, <2>4, <2>6
    <2> QED
      BY <1>1, <2>5, <2>6
  <1> QED
    BY <1>4, <1>5 DEF Write

LEMMA ServerlessInvNext == ServerlessInv /\ [ServerlessNext]_serverlessVars => ServerlessInv'
  <1> SUFFICES ASSUME ServerlessInv, [ServerlessNext]_serverlessVars PROVE ServerlessInv'
    OBVIOUS
  <1>0. "events" \in Kind /\ "metrics" \in Kind
    BY DEF Kind
  <1>1. ASSUME NEW kind \in Kind, NEW encoded \in Sizes, Write(kind, encoded),
               flushing' \in {flushing, "custom", "flush"}
        PROVE  ServerlessInv'
    BY <1>1, WriteFaithful DEF ServerlessInv, ServerlessTypeOK, ChunksFaithful, Faithful, Kind
  <1>2. ASSUME UNCHANGED <<syncWrite, msg, chunkSize, written, accepted, messages>>,
               flushing' \in {flushing, "setting", "inbound", "flush"}
        PROVE  ServerlessInv'
    BY <1>2 DEF ServerlessInv, ServerlessTypeOK, ChunksFaithful
  <1>3. ASSUME NEW encoded \in Sizes, ReportEvent(encoded) PROVE ServerlessInv'
    BY <1>0, <1>1, <1>3 DEF ReportEvent
  <1>4. ASSUME NEW encoded \in Sizes, SendInbound(encoded) PROVE ServerlessInv'
    BY <1>0, <1>1, <1>4 DEF SendInbound
  <1>5. ASSUME NEW encoded \in Sizes, SendCustom(encoded) PROVE ServerlessInv'
    BY <1>0, <1>1, <1>2, <1>5 DEF SendCustom
  <1>6. CASE StartFlush \/ CheckSetting
    BY <1>2, <1>6 DEF StartFlush, CheckSetting
  <1>7. CASE FinishFlush
    <2>1. /\ chunkSize \in Nat /\ msg \in Chunk /\ accepted \in Chunk /\ written \in Seq(Chunk)
          /\ Faithful(written, msg, chunkSize, accepted)
      BY DEF ServerlessInv, ServerlessTypeOK, ChunksFaithful, Faithful, Kind
    <2>2. /\ written' \in Seq(Chunk) /\ chunkSize' = 0 /\ accepted' = accepted
          /\ msg' = IF chunkSize = 0 THEN msg ELSE NoData
          /\ Faithful(written', msg', chunkSize', accepted')
      BY <1>7, <2>1, FlushFaithful DEF FinishFlush, FlushWriter
    <2>3. msg' \in Chunk
      BY <2>1, <2>2, ChunkTypes
    <2>4. UNCHANGED <<syncWrite, messages>> /\ flushing' = "idle"
      BY <1>7 DEF FinishFlush, FlushWriter
    <2>5. ServerlessTypeOK'
      BY <2>1, <2>2, <2>3, <2>4 DEF ServerlessInv, ServerlessTypeOK
    <2> QED
      BY <2>2, <2>5 DEF ServerlessInv, ChunksFaithful, Faithful, Kind
  <1>8. CASE UNCHANGED serverlessVars
    BY <1>2, <1>8 DEF serverlessVars
  <1> QED
    BY <1>3, <1>4, <1>5, <1>6, <1>7, <1>8 DEF ServerlessNext

\* Every message the log writer accepted leaves exactly once, in a chunk of legal size.
THEOREM ServerlessChunksFaithful == ServerlessSpec => []ChunksFaithful
  <1>1. ServerlessInv => ChunksFaithful
    BY DEF ServerlessInv
  <1> QED
    BY <1>1, ServerlessInvInit, ServerlessInvNext, PTL DEF ServerlessSpec

-----------------------------------------------------------------------------
(* The configuration. *)

Config == [mode : Texts, modeConfigured : BOOLEAN, rate : Int, rateConfigured : BOOLEAN,
           sampling : BOOLEAN, key : Texts, collector : Texts, reporter : Texts,
           name : Texts, cap : Int, disabled : BOOLEAN]

\* The sampling fields tell what was given last for them, and whether anything was.
Holds(c, mode, rate) ==
  /\ c.modeConfigured <=> mode # Absent
  /\ c.mode = IF mode = Absent THEN Default.mode ELSE NormalizeTracingMode(mode)
  /\ c.rateConfigured <=> rate # Absent
  /\ c.rate = IF rate = Absent THEN Default.rate ELSE rate

Latest(given, before) == IF given \in {Absent, NotANumber} THEN before ELSE given

LEMMA Maxima == MaxSampleRate \in Nat /\ MaxTokenBucketCapacity \in Nat
  BY ConfigurationAssumption

LEMMA AbsentIsNoRate == Absent # -1 /\ \A rate \in 0..MaxSampleRate : rate # Absent
  <1>1. Absent \notin Int
    BY ConfigurationAssumption
  <1>2. -1 \in Int /\ \A rate \in 0..MaxSampleRate : rate \in Int
    BY Maxima
  <1> QED
    BY <1>1, <1>2

LEMMA DefaultConfig == Default \in Config /\ Holds(Default, Absent, Absent) /\ Default.sampling
  <1>1. Default \in Config
    <2>1. MaxSampleRate \in Int /\ MaxTokenBucketCapacity \in Int
      BY Maxima
    <2>2. "" \in Texts /\ "enabled" \in Texts /\ "default" \in Texts /\ "ssl" \in Texts
      BY ConfigurationAssumption
    <2> QED
      BY <2>1, <2>2 DEF Default, Config
  <1>2. Default.modeConfigured = FALSE /\ Default.rateConfigured = FALSE /\ Default.sampling = TRUE
    BY DEF Default
  <1> QED
    BY <1>1, <1>2 DEF Holds

LEMMA FieldsSet ==
  ASSUME NEW c \in Config, NEW source,
         \A f \in {"key", "collector", "reporter", "name"} : source[f] \in Optional(Texts),
         source.cap \in Converted(Int), source.disabled \in Converted(BOOLEAN)
  PROVE  /\ SetFields(c, source) \in Config
         /\ SetFields(c, source).sampling = c.sampling
         /\ \A mode, rate : Holds(c, mode, rate) => Holds(SetFields(c, source), mode, rate)
  <1>1. /\ source.key \in Optional(Texts) /\ source.collector \in Optional(Texts)
        /\ source.reporter \in Optional(Texts) /\ source.name \in Optional(Texts)
    OBVIOUS
  <1> DEFINE Or(value, old) == IF value \in {Absent, NotANumber} THEN old ELSE value
             v == SetFields(c, source)
  <1>2. c.key \in Texts /\ c.collector \in Texts /\ c.reporter \in Texts /\ c.name \in Texts
        /\ c.cap \in Int /\ c.disabled \in BOOLEAN
    BY DEF Config
  <1>3. /\ Or(source.key, c.key) \in Texts /\ Or(source.collector, c.collector) \in Texts
        /\ Or(source.reporter, c.reporter) \in Texts /\ Or(source.name, c.name) \in Texts
    BY <1>1, <1>2 DEF Optional
  <1>4. Or(source.cap, c.cap) \in Int /\ Or(source.disabled, c.disabled) \in BOOLEAN
    BY <1>2 DEF Converted
  <1>5. v = [c EXCEPT !.key = Or(source.key, c.key), !.collector = Or(source.collector, c.collector),
                      !.reporter = Or(source.reporter, c.reporter), !.name = Or(source.name, c.name),
                      !.cap = Or(source.cap, c.cap), !.disabled = Or(source.disabled, c.disabled)]
    BY DEF SetFields
  <1> HIDE DEF Or, v
  <1>6. v \in Config
    BY <1>3, <1>4, <1>5 DEF Config
  <1>7. /\ v.mode = c.mode /\ v.modeConfigured = c.modeConfigured /\ v.sampling = c.sampling
        /\ v.rate = c.rate /\ v.rateConfigured = c.rateConfigured
    BY <1>5 DEF Config
  <1> QED
    BY <1>6, <1>7 DEF Holds, v

LEMMA ModeSet ==
  ASSUME NEW c \in Config, NEW mode \in Optional(Texts)
  PROVE  /\ SetTracingMode(c, mode) \in Config
         /\ SetTracingMode(c, mode).sampling = c.sampling
         /\ \A old, rate : Holds(c, old, rate) => Holds(SetTracingMode(c, mode), Latest(mode, old), rate)
  <1>1. CASE mode = Absent
    BY <1>1 DEF SetTracingMode, Latest
  <1>2. CASE mode # Absent
    <2>1. mode # NotANumber /\ NormalizeTracingMode(mode) \in Texts
      BY <1>2, ConfigurationAssumption DEF NormalizeTracingMode, Optional
    <2> QED
      BY <1>2, <2>1 DEF SetTracingMode, Config, Holds, Latest
  <1> QED
    BY <1>1, <1>2

LEMMA RateSet ==
  ASSUME NEW c \in Config, NEW rate \in Converted(Int)
  PROVE  /\ SetSampleRate(c, rate) \in Config
         /\ SetSampleRate(c, rate).sampling = c.sampling
         /\ \A mode, old : Holds(c, mode, old) => Holds(SetSampleRate(c, rate), mode, Latest(rate, old))
  BY ConfigurationAssumption DEF SetSampleRate, Config, Holds, Latest, Converted

LEMMA SamplingValidated ==
  ASSUME NEW c \in Config, NEW mode \in Optional(Texts), NEW rate \in Optional(Int),
         Holds(c, mode, rate)
  PROVE  LET v == ValidateSampling(c)
         IN /\ v \in Config
            /\ \A f \in {"sampling", "key", "collector", "reporter", "name", "cap", "disabled"} :
                 v[f] = c[f]
            /\ ValidMode(v.mode) /\ ValidRate(v.rate)
            /\ v.modeConfigured <=> ValidMode(NormalizeTracingMode(mode))
            /\ v.modeConfigured => v.mode = NormalizeTracingMode(mode)
            /\ v.rateConfigured <=> ValidRate(rate)
            /\ v.rateConfigured => v.rate = rate
  <1> DEFINE d == IF ValidMode(c.mode) THEN c ELSE ResetTracingMode(c)
             v == ValidateSampling(c)
  <1>1. Default.mode = "enabled" /\ Default.rate = MaxSampleRate /\ "enabled" \in Texts
    BY ConfigurationAssumption DEF Default
  <1>2. /\ d \in Config
        /\ \A f \in {"sampling", "key", "collector", "reporter", "name", "cap", "disabled"} :
             d[f] = c[f]
        /\ d.rate = c.rate /\ d.rateConfigured = c.rateConfigured
        /\ ValidMode(d.mode)
        /\ (d.modeConfigured <=> c.modeConfigured /\ ValidMode(c.mode))
        /\ (d.modeConfigured => d.mode = c.mode)
    BY <1>1 DEF ResetTracingMode, Config, ValidMode
  <1>3. v = IF ValidRate(d.rate) THEN d ELSE ResetSampleRate(d)
    BY DEF ValidateSampling
  <1> HIDE DEF d, v
  <1>4. /\ v \in Config
        /\ \A f \in {"sampling", "key", "collector", "reporter", "name", "cap", "disabled"} :
             v[f] = c[f]
        /\ v.mode = d.mode /\ v.modeConfigured = d.modeConfigured
        /\ ValidRate(v.rate)
        /\ (v.rateConfigured <=> c.rateConfigured /\ ValidRate(c.rate))
        /\ (v.rateConfigured => v.rate = c.rate)
    <2>1. MaxSampleRate \in Int /\ ValidRate(MaxSampleRate)
      BY Maxima DEF ValidRate
    <2> QED
      BY <1>1, <1>2, <1>3, <2>1 DEF ResetSampleRate, Config
  <1>5. c.modeConfigured /\ ValidMode(c.mode) <=> ValidMode(NormalizeTracingMode(mode))
    BY <1>1, ConfigurationAssumption DEF Holds, ValidMode, NormalizeTracingMode
  <1>6. c.rateConfigured /\ ValidRate(c.rate) <=> ValidRate(rate)
    BY AbsentIsNoRate DEF Holds, ValidRate
  <1>7. (c.modeConfigured => c.mode = NormalizeTracingMode(mode)) /\ (c.rateConfigured => c.rate = rate)
    BY DEF Holds
  <1> QED
    BY <1>2, <1>4, <1>5, <1>6, <1>7 DEF v

LEMMA Validated ==
  ASSUME NEW c \in Config, NEW mode \in Optional(Texts), NEW rate \in Optional(Int),
         Holds(c, mode, rate), NEW lambda \in BOOLEAN
  PROVE  LET v == Validate(c, lambda)
         IN /\ v.disabled = c.disabled /\ v.sampling = c.sampling
            /\ ValidMode(v.mode) /\ ValidRate(v.rate) /\ ValidReporter(v.reporter)
            /\ v.cap \in 0..MaxTokenBucketCapacity /\ v.collector # ""
            /\ v.name # "" => v.reporter = "serverless"
            /\ v.modeConfigured <=> ValidMode(NormalizeTracingMode(mode))
            /\ v.modeConfigured => v.mode = NormalizeTracingMode(mode)
            /\ v.rateConfigured <=> ValidRate(rate)
            /\ v.rateConfigured => v.rate = rate
  <1> DEFINE b == [c EXCEPT !.collector = IF @ = "" THEN Default.collector ELSE @]
             d == ValidateReporter(b, lambda)
             e == ValidateSampling(d)
  <1>1. /\ Default.collector = "default" /\ Default.reporter = "ssl" /\ Default.name = ""
        /\ "default" \in Texts /\ "ssl" \in Texts /\ "serverless" \in Texts /\ "" \in Texts
    BY ConfigurationAssumption DEF Default
  <1>2. /\ b \in Config /\ b.collector # "" /\ Holds(b, mode, rate)
        /\ b.disabled = c.disabled /\ b.sampling = c.sampling
    BY <1>1 DEF Config, Holds
  <1> HIDE DEF b
  <1>3. /\ d \in Config /\ d.collector # "" /\ Holds(d, mode, rate)
        /\ d.disabled = c.disabled /\ d.sampling = c.sampling
        /\ ValidReporter(d.reporter) /\ (d.name # "" => d.reporter = "serverless")
    BY <1>1, <1>2 DEF ValidateReporter, ValidReporter, Config, Holds
  <1> HIDE DEF d
  <1>4. /\ e \in Config /\ e.collector = d.collector /\ e.name = d.name /\ e.reporter = d.reporter
        /\ e.disabled = c.disabled /\ e.sampling = c.sampling
        /\ ValidMode(e.mode) /\ ValidRate(e.rate)
        /\ (e.modeConfigured <=> ValidMode(NormalizeTracingMode(mode)))
        /\ (e.modeConfigured => e.mode = NormalizeTracingMode(mode))
        /\ (e.rateConfigured <=> ValidRate(rate))
        /\ (e.rateConfigured => e.rate = rate)
    BY <1>3, SamplingValidated
  <1> HIDE DEF e
  <1>5. Clamp(e.cap) \in 0..MaxTokenBucketCapacity
    <2>1. e.cap \in Int
      BY <1>4 DEF Config
    <2> QED
      BY <2>1, Maxima DEF Clamp
  <1>6. Validate(c, lambda) = [e EXCEPT !.cap = Clamp(@)]
    BY DEF Validate, b, d, e
  <1> QED
    BY <1>3, <1>4, <1>5, <1>6 DEF Config

\* What a file and an environment give for the sampling fields; the rate -1 is as good as none.
InFile(file, field) ==
  IF file = NoFile THEN Absent ELSE IF file.sampling = "set" THEN file[field] ELSE Absent

Marked(rate) == IF rate = -1 THEN Absent ELSE rate

LEMMA FromFile ==
  ASSUME NEW file \in Files, file # BadFile
  PROVE  LET fromFile == IF file = NoFile THEN Default ELSE LoadYaml(Default, file)
         IN /\ fromFile \in Config
            /\ fromFile.sampling = ~(file # NoFile /\ file.broken /\ file.sampling = "null")
            /\ Holds(fromFile, InFile(file, "mode"), Marked(InFile(file, "rate")))
            /\ InFile(file, "mode") \in Optional(Texts)
            /\ InFile(file, "rate") \in Optional(Int)
            /\ Marked(InFile(file, "rate")) \in Optional(Int)
  <1>1. Absent # -1
    BY AbsentIsNoRate
  <1>2. CASE file = NoFile
    BY <1>1, <1>2, DefaultConfig DEF InFile, Marked, Optional
  <1>3. CASE file # NoFile
    <2> DEFINE loaded == SetFields(Default, file)
    <2>1. /\ \A f \in {"key", "collector", "reporter", "name"} : file[f] \in Optional(Texts)
          /\ file.cap \in Converted(Int) /\ file.disabled \in Converted(BOOLEAN)
          /\ file.sampling \in {"set", "absent", "null"} /\ file.broken \in BOOLEAN
          /\ file.mode \in Optional(Texts) /\ file.rate \in Optional(Int)
      <3>1. file \in [key : Optional(Texts), collector : Optional(Texts), reporter : Optional(Texts),
                      name : Optional(Texts), cap : Optional(Int), disabled : Optional(BOOLEAN),
                      sampling : {"set", "absent", "null"}, broken : BOOLEAN,
                      mode : Optional(Texts), rate : Optional(Int)]
        BY <1>3, ConfigurationAssumption
      <3>2. \A set : Optional(set) \subseteq Converted(set)
        BY DEF Optional, Converted
      <3> QED
        BY <3>1, <3>2
    <2>2. loaded \in Config /\ loaded.sampling = TRUE /\ Holds(loaded, Absent, Absent)
      BY <2>1, DefaultConfig, FieldsSet DEF Default
    <2>3. LoadYaml(Default, file) =
            CASE file.sampling = "absent" -> loaded
              [] file.sampling = "null" -> [loaded EXCEPT !.sampling = ~file.broken]
              [] OTHER -> SetSampleRate(SetTracingMode(loaded, file.mode), Marked(file.rate))
      BY DEF LoadYaml, Marked
    <2>4. Marked(file.rate) \in Optional(Int) /\ Marked(file.rate) \in Converted(Int)
      BY <2>1 DEF Marked, Optional, Converted
    <2> HIDE DEF loaded
    <2>5. CASE file.sampling = "absent"
      <3>1. LoadYaml(Default, file) = loaded
        BY <2>3, <2>5
      <3> QED
        BY <1>1, <1>3, <2>2, <2>5, <3>1 DEF InFile, Marked, Optional
    <2>6. CASE file.sampling = "null"
      <3>1. LoadYaml(Default, file) = [loaded EXCEPT !.sampling = ~file.broken]
        BY <2>3, <2>6
      <3>2. /\ LoadYaml(Default, file) \in Config /\ Holds(LoadYaml(Default, file), Absent, Absent)
            /\ LoadYaml(Default, file).sampling = ~file.broken
        BY <2>1, <2>2, <3>1 DEF Config, Holds
      <3> QED
        BY <1>1, <1>3, <2>1, <2>6, <3>2 DEF InFile, Marked, Optional
    <2>7. CASE file.sampling = "set"
      <3>1. LoadYaml(Default, file) = SetSampleRate(SetTracingMode(loaded, file.mode), Marked(file.rate))
        BY <2>3, <2>7
      <3>2. /\ LoadYaml(Default, file) \in Config /\ LoadYaml(Default, file).sampling = TRUE
            /\ Holds(LoadYaml(Default, file), Latest(file.mode, Absent), Latest(Marked(file.rate), Absent))
        <4> DEFINE moded == SetTracingMode(loaded, file.mode)
        <4>1. /\ moded \in Config /\ moded.sampling = TRUE
              /\ Holds(moded, Latest(file.mode, Absent), Absent)
          BY <2>1, <2>2, ModeSet
        <4> HIDE DEF moded
        <4>2. LET rated == SetSampleRate(moded, Marked(file.rate))
              IN /\ rated \in Config /\ rated.sampling = TRUE
                 /\ Holds(rated, Latest(file.mode, Absent), Latest(Marked(file.rate), Absent))
          BY <2>4, <4>1, RateSet
        <4> QED
          BY <3>1, <4>2 DEF moded
      <3>3. Latest(file.mode, Absent) = file.mode /\ Latest(Marked(file.rate), Absent) = Marked(file.rate)
        <4>1. file.mode # NotANumber \/ file.mode = Absent
          BY <2>1, ConfigurationAssumption DEF Optional
        <4>2. Marked(file.rate) # NotANumber \/ Marked(file.rate) = Absent
          BY <2>4, ConfigurationAssumption DEF Optional
        <4> QED
          BY <4>1, <4>2 DEF Latest
      <3> QED
        BY <1>3, <2>1, <2>4, <2>7, <3>2, <3>3 DEF InFile
    <2> QED
      BY <2>1, <2>5, <2>6, <2>7
  <1> QED
    BY <1>2, <1>3

LEMMA EnvsRead ==
  ASSUME NEW env \in Envs
  PROVE  LET read == ReadEnvs(env)
         IN /\ \A f \in {"key", "collector", "reporter", "name"} : read[f] \in Optional(Texts)
            /\ read.cap \in Converted(Int) /\ read.disabled \in Converted(BOOLEAN)
            /\ read.mode \in Optional(Texts) /\ read.rate \in Converted(Int)
  <1>1. \A text \in Optional(Texts) : FromEnv(text) \in Optional(Texts)
    <2>1. "" \in Texts
      BY ConfigurationAssumption
    <2> QED
      BY <2>1 DEF FromEnv, Optional
  <1>2. env \in [key : Optional(Texts), collector : Optional(Texts), reporter : Optional(Texts),
                name : Optional(Texts), cap : Converted(Int), disabled : Converted(BOOLEAN),
                mode : Optional(Texts), rate : Converted(Int)]
    BY ConfigurationAssumption
  <1> HIDE DEF FromEnv
  <1> QED
    BY <1>1, <1>2 DEF ReadEnvs

LEMMA LoadedSound ==
  ASSUME NEW file \in Files, NEW env \in Envs, NEW opt \in Options, NEW lambda \in BOOLEAN,
         sources' = [file |-> file, env |-> env, opt |-> opt, lambda |-> lambda],
         config' = Load(sources')
  PROVE  ConfigSound'
  <1> DEFINE read == ReadEnvs(env)
             fromFile == IF file = NoFile THEN Default ELSE LoadYaml(Default, file)
             given == ApplyOptions(LoadEnvs(fromFile, env), opt)
             valid == Validate(given, lambda)
             lost == file \notin {NoFile, BadFile} /\ file.broken /\ file.sampling = "null"
             mode == Latest(read.mode, InFile(file, "mode"))
             rate == Latest(read.rate, Marked(InFile(file, "rate")))
  <1>1. sources' # NotLoaded /\ (SamplingLost' <=> lost)
    <2>1. sources' # NotLoaded
      <3>1. "file" \in DOMAIN sources' /\ "file" \notin DOMAIN NotLoaded
        BY DEF NotLoaded
      <3> QED
        BY <3>1
    <2>2. sources'.file = file
      OBVIOUS
    <2> QED
      BY <2>1, <2>2 DEF SamplingLost
  <1> HIDE DEF lost
  <1>2. ASSUME NEW c, config' = ResetThenDisable(c), c.sampling = ~lost PROVE ConfigSound'
    <2>1. config'.disabled = TRUE
      BY <1>2 DEF ResetThenDisable, Default
    <2>2. (config = [Default EXCEPT !.disabled = TRUE, !.sampling = ~SamplingLost])'
      BY <1>1, <1>2 DEF ResetThenDisable
    <2> QED
      BY <2>1, <2>2 DEF ConfigSound
  <1>3. CASE file = BadFile
    <2>1. config' = ResetThenDisable(Default)
      BY <1>3 DEF Load
    <2>2. Default.sampling = TRUE /\ ~lost
      BY <1>3 DEF Default, lost
    <2> QED
      BY <1>2, <2>1, <2>2
  <1>4. CASE file # BadFile
    <2>1. config' = IF file # NoFile /\ file.broken THEN ResetThenDisable(fromFile)
                    ELSE IF given.disabled \/ ~ValidKey(valid) THEN ResetThenDisable(given)
                    ELSE valid
      BY <1>4 DEF Load
    <2>2. /\ fromFile \in Config /\ fromFile.sampling = ~lost
          /\ Holds(fromFile, InFile(file, "mode"), Marked(InFile(file, "rate")))
          /\ InFile(file, "mode") \in Optional(Texts)
          /\ InFile(file, "rate") \in Optional(Int)
          /\ Marked(InFile(file, "rate")) \in Optional(Int)
      BY <1>4, FromFile DEF lost
    <2> HIDE DEF fromFile
    <2>3. CASE file # NoFile /\ file.broken
      BY <1>2, <2>1, <2>2, <2>3
    <2>4. CASE ~(file # NoFile /\ file.broken)
      <3>1. fromFile.sampling = TRUE /\ ~lost
        BY <1>4, <2>2, <2>4 DEF lost
      <3>2. /\ \A f \in {"key", "collector", "reporter", "name"} : read[f] \in Optional(Texts)
            /\ read.cap \in Converted(Int) /\ read.disabled \in Converted(BOOLEAN)
            /\ read.mode \in Optional(Texts) /\ read.rate \in Converted(Int)
        BY EnvsRead
      <3> HIDE DEF read
      <3>3. /\ LoadEnvs(fromFile, env) \in Config /\ LoadEnvs(fromFile, env).sampling = TRUE
            /\ Holds(LoadEnvs(fromFile, env), mode, rate)
        <4> DEFINE fielded == SetFields(fromFile, read)
                   moded == SetTracingMode(fielded, read.mode)
        <4>1. /\ fielded \in Config /\ fielded.sampling = TRUE
              /\ Holds(fielded, InFile(file, "mode"), Marked(InFile(file, "rate")))
          BY <2>2, <3>1, <3>2, FieldsSet
        <4> HIDE DEF fielded
        <4>2. /\ moded \in Config /\ moded.sampling = TRUE
              /\ Holds(moded, mode, Marked(InFile(file, "rate")))
          BY <3>2, <4>1, ModeSet
        <4> HIDE DEF moded
        <4>3. LET rated == SetSampleRate(moded, read.rate)
              IN rated \in Config /\ rated.sampling = TRUE /\ Holds(rated, mode, rate)
          BY <3>2, <4>2, RateSet
        <4>4. LoadEnvs(fromFile, env) = SetSampleRate(moded, read.rate)
          BY DEF LoadEnvs, moded, fielded, read
        <4> QED
          BY <4>3, <4>4
      <3>4. given \in Config /\ given.sampling = TRUE /\ Holds(given, mode, rate)
        BY <3>3, ConfigurationAssumption DEF ApplyOptions, Config, Holds, Optional
      <3>5. mode \in Optional(Texts) /\ rate \in Optional(Int)
        BY <2>2, <3>2 DEF Latest, Optional, Converted
      <3> HIDE DEF mode, rate, given
      <3>6. /\ valid.disabled = given.disabled /\ valid.sampling = given.sampling
            /\ ValidMode(valid.mode) /\ ValidRate(valid.rate) /\ ValidReporter(valid.reporter)
            /\ valid.cap \in 0..MaxTokenBucketCapacity /\ valid.collector # ""
            /\ (valid.name # "" => valid.reporter = "serverless")
            /\ (valid.modeConfigured <=> ValidMode(NormalizeTracingMode(mode)))
            /\ (valid.modeConfigured => valid.mode = NormalizeTracingMode(mode))
            /\ (valid.rateConfigured <=> ValidRate(rate))
            /\ (valid.rateConfigured => valid.rate = rate)
        BY <3>4, <3>5, Validated
      <3> HIDE DEF valid
      <3>a. CASE given.disabled \/ ~ValidKey(valid)
        BY <1>2, <2>1, <2>4, <3>1, <3>4, <3>a
      <3> SUFFICES ASSUME ~(given.disabled \/ ~ValidKey(valid)) PROVE ConfigSound'
        BY <3>a
      <3>7. config' = valid /\ ~config'.disabled /\ ValidKey(config')
        BY <2>1, <2>4, <3>6
      <3>8. Given("mode")' = mode
        BY DEF Given, mode, read, Latest, InFile
      <3>9. Given("rate")' = rate \/ (Given("rate")' = -1 /\ rate = Absent)
        <4>1. Given("rate")' = Latest(read.rate, InFile(file, "rate"))
          BY DEF Given, read, Latest, InFile
        <4>2. InFile(file, "rate") = -1 \/ Marked(InFile(file, "rate")) = InFile(file, "rate")
          BY DEF Marked
        <4> QED
          BY <4>1, <4>2 DEF rate, Latest, Marked
      <3>10. ~ValidRate(-1) /\ ~ValidRate(Absent)
        BY AbsentIsNoRate, Maxima DEF ValidRate
      <3>11. /\ (valid.rateConfigured <=> ValidRate(Given("rate")'))
             /\ (valid.rateConfigured => valid.rate = Given("rate")')
        BY <3>6, <3>9, <3>10
      <3> QED
        BY <1>1, <3>4, <3>6, <3>7, <3>8, <3>11 DEF ConfigSound
    <2> QED
      BY <2>3, <2>4
  <1> QED
    BY <1>3, <1>4

\* Whatever files, environments and options there are, what is loaded is fit for use.
THEOREM ConfigIsSound == ConfigSpec => []ConfigSound
  <1>1. ConfigInit => ConfigSound
    <2>1. /\ Default.disabled = FALSE /\ Default.sampling = TRUE /\ Default.mode = "enabled"
          /\ Default.rate = MaxSampleRate /\ Default.reporter = "ssl" /\ Default.key = ""
          /\ Default.cap = MaxTokenBucketCapacity /\ Default.collector = "default" /\ Default.name = ""
      BY DEF Default
    <2>2. /\ ValidMode(Default.mode) /\ ValidReporter(Default.reporter) /\ ValidKey(Default)
          /\ Default.collector # ""
      BY <2>1 DEF ValidMode, ValidReporter, ValidKey
    <2>3. ValidRate(MaxSampleRate) /\ MaxTokenBucketCapacity \in 0..MaxTokenBucketCapacity
      BY Maxima DEF ValidRate
    <2> QED
      BY <2>1, <2>2, <2>3 DEF ConfigInit, ConfigSound
  <1>2. ConfigSound /\ [LoadConfig]_configVars => ConfigSound'
    <2> SUFFICES ASSUME ConfigSound, [LoadConfig]_configVars PROVE ConfigSound'
      OBVIOUS
    <2>1. CASE LoadConfig
      BY <2>1, LoadedSound DEF LoadConfig
    <2>2. CASE UNCHANGED configVars
      BY <2>2 DEF configVars, ConfigSound, Given, SamplingLost
    <2> QED
      BY <2>1, <2>2
  <1> QED
    BY <1>1, <1>2, PTL DEF ConfigSpec

-----------------------------------------------------------------------------
(* The sanitizer. *)

\* What may be in the result.
Marks == {"?", Ellipsis}
Outputs == Marks \cup {sql[i] : i \in Nat \ {0}}

\* Where each rune of the result comes from: a mark stands for what began there, the ellipsis
\* for what follows, and every other rune is the one read there.
IsOrigin(from) ==
  /\ from \in [1..Len(buffer) -> Nat \ {0}]
  /\ \A i, j \in 1..Len(buffer) : i < j => from[i] < from[j]
  /\ \A i \in 1..Len(buffer) :
       \/ from[i] < position /\ (buffer[i] = "?" \/ buffer[i] = sql[from[i]])
       \/ from[i] = position /\ buffer[i] = Ellipsis /\ fsm = "Done"

CopiedInOrder == \E from \in [1..Len(buffer) -> Nat \ {0}] : IsOrigin(from)

\* The limit holds with the ellipsis, which is the last that is written; and a mark is never
\* longer than what it replaces.
LengthLimited ==
  /\ Len(buffer) <= MaxSQLLen
  /\ fsm # "Done" => Len(buffer) <= MaxSQLLen - 1 /\ Len(buffer) < position
  /\ Len(buffer) <= position

SanitizerInv ==
  /\ position \in Nat \ {0} /\ buffer \in Seq(Outputs)
  /\ LengthLimited /\ CopiedInOrder

\* What a rune does to the result.
Kept == buffer' = buffer
Pushed == \E x \in {"?", sql[position]} : buffer' = buffer \o <<x>>
TakenBack == \E k \in 0..Len(buffer) : buffer' = SubSeq(buffer, 1, k)

RuneRead ==
  /\ Len(buffer) < MaxSQLLen - 1
  /\ position' = position + 1 /\ sql' = sql
  /\ fsm # "Done" /\ fsm' # "Done"
  /\ Kept \/ Pushed \/ TakenBack

LEMMA PushesOne ==
  ASSUME buffer \in Seq(Outputs), NEW state, NEW pushed, To(state, pushed),
         pushed = <<>> \/ pushed = <<"?">> \/ pushed = <<sql[position]>>
  PROVE  fsm' = state /\ (Kept \/ Pushed)
  <1>1. fsm' = state /\ buffer' = buffer \o pushed
    BY DEF To
  <1>2. CASE pushed = <<>>
    BY <1>1, <1>2, ConcatEmptySeq DEF Kept
  <1>3. CASE pushed = <<"?">> \/ pushed = <<sql[position]>>
    BY <1>1, <1>3 DEF Pushed
  <1> QED
    BY <1>1, <1>2, <1>3

\* Every state but the last treats a rune like that.
LEMMA ReadsRunes ==
  ASSUME SanitizerInv, SanitizerNext
  PROVE  RuneRead \/ Finish
  <1>1. buffer \in Seq(Outputs)
    BY DEF SanitizerInv
  <1>2. ASSUME NEW state, Handle(state), state # "Done"
        PROVE  /\ Len(buffer) < MaxSQLLen - 1
               /\ position' = position + 1 /\ sql' = sql /\ fsm # "Done"
    BY <1>2 DEF Handle, input
  <1>3. CASE StringStart
    <2>1. fsm' # "Done" /\ (Kept \/ Pushed)
      <3>1. CASE Dollar
        <4>1. To("StringBody", <<"?">>) \/ To("StringStart", <<>>)
          BY <1>3, <3>1 DEF StringStart
        <4> QED
          BY <1>1, <4>1, PushesOne
      <3>2. CASE ~Dollar
        <4>1. PICK state \in {"StringEnd", "StringEscape", "StringBody"} : To(state, <<"?">>)
          BY <1>3, <3>2 DEF StringStart
        <4> QED
          BY <1>1, <4>1, PushesOne
      <3> QED
        BY <3>1, <3>2
    <2> QED
      BY <1>2, <1>3, <2>1 DEF StringStart, RuneRead
  <1>4. CASE StringBody \/ StringEscape
    <2>1. PICK state \in {"StringEnd", "StringEscape", "StringBody"} : To(state, <<>>)
      BY <1>4 DEF StringBody, StringEscape
    <2>2. fsm' # "Done" /\ (Kept \/ Pushed)
      BY <1>1, <2>1, PushesOne
    <2> QED
      BY <1>2, <1>4, <2>2 DEF StringBody, StringEscape, RuneRead
  <1>5. CASE StringEnd
    <2>1. \/ \E state \in {"Copy", "StringEnd", "StringBody"} : To(state, <<>>)
          \/ To("Copy", <<sql[position]>>)
      BY <1>5 DEF StringEnd, Rune
    <2>2. fsm' # "Done" /\ (Kept \/ Pushed)
      BY <1>1, <2>1, PushesOne
    <2> QED
      BY <1>2, <1>5, <2>2 DEF StringEnd, RuneRead
  <1>6. CASE Number \/ NumericExtension
    <2>1. \/ \E state \in {"Number", "NumericExtension"} : To(state, <<>>)
          \/ To("Copy", <<sql[position]>>)
      BY <1>6 DEF Number, NumericExtension, Rune
    <2>2. fsm' # "Done" /\ (Kept \/ Pushed)
      BY <1>1, <2>1, PushesOne
    <2> QED
      BY <1>2, <1>6, <2>2 DEF Number, NumericExtension, RuneRead
  <1>7. CASE QuotedIdentifier \/ QuotedIdentifierEscape \/ CopyEscape
    <2>1. PICK state \in {"Copy", "QuotedIdentifierEscape", "QuotedIdentifier"} :
            To(state, <<sql[position]>>)
      BY <1>7 DEF QuotedIdentifier, QuotedIdentifierEscape, CopyEscape, Rune
    <2>2. fsm' # "Done" /\ (Kept \/ Pushed)
      BY <1>1, <2>1, PushesOne
    <2> QED
      BY <1>2, <1>7, <2>2 DEF QuotedIdentifier, QuotedIdentifierEscape, CopyEscape, RuneRead
  <1>8. CASE Copy
    <2>1. \/ To("StringStart", <<>>)
          \/ To("Number", <<"?">>)
          \/ \E state \in {"QuotedIdentifier", "CopyEscape", "Identifier", "Copy"} :
               To(state, <<sql[position]>>)
      BY <1>8 DEF Copy, Rune
    <2>2. fsm' # "Done" /\ (Kept \/ Pushed)
      BY <1>1, <2>1, PushesOne
    <2> QED
      BY <1>2, <1>8, <2>2 DEF Copy, RuneRead
  <1>9. CASE Identifier
    <2>1. \/ buffer' = WithoutPrefix /\ fsm' = "StringStart"
          \/ \E state \in {"Copy", "Identifier"} : To(state, <<sql[position]>>)
      BY <1>9 DEF Identifier, Rune
    <2>2. Len(buffer) \in Nat
      BY <1>1, LenProperties
    <2>3. buffer' = WithoutPrefix => Kept \/ TakenBack
      BY <2>2 DEF WithoutPrefix, Kept, TakenBack
    <2>4. fsm' # "Done" /\ (Kept \/ Pushed \/ TakenBack)
      BY <1>1, <2>1, <2>3, PushesOne
    <2> QED
      BY <1>2, <1>9, <2>4 DEF Identifier, RuneRead
  <1> QED
    BY <1>3, <1>4, <1>5, <1>6, <1>7, <1>8, <1>9 DEF SanitizerNext

LEMMA SanitizerInvInit == SanitizerInit => SanitizerInv
  <1> SUFFICES ASSUME SanitizerInit PROVE SanitizerInv
    OBVIOUS
  <1>1. buffer = <<>> /\ position = 1 /\ fsm = "Copy" /\ Len(buffer) = 0
    BY DEF SanitizerInit
  <1>2. buffer \in Seq(Outputs)
    BY <1>1
  <1>3. MaxSQLLen \in Nat /\ MaxSQLLen >= 1
    BY SanitizerAssumption
  <1>4. LengthLimited
    BY <1>1, <1>3 DEF LengthLimited
  <1>5. 1..Len(buffer) = {}
    BY <1>1
  <1> DEFINE from == [i \in 1..Len(buffer) |-> 1]
  <1>6. from \in [1..Len(buffer) -> Nat \ {0}]
    OBVIOUS
  <1>7. IsOrigin(from)
    BY <1>5 DEF IsOrigin
  <1> HIDE DEF from
  <1>8. CopiedInOrder
    BY <1>6, <1>7 DEF CopiedInOrder
  <1>9. position \in Nat \ {0}
    BY <1>1
  <1> QED
    BY <1>2, <1>4, <1>8, <1>9 DEF SanitizerInv

\* One more rune at the end, which comes from the current position.
LEMMA GrowsByOne ==
  ASSUME SanitizerInv, fsm # "Done", sql' = sql, NEW x \in Outputs,
         buffer' = buffer \o <<x>>,
         \/ position' = position + 1 /\ (x = "?" \/ x = sql[position])
         \/ position' = position /\ x = Ellipsis /\ fsm' = "Done"
  PROVE  buffer' \in Seq(Outputs) /\ Len(buffer') = Len(buffer) + 1 /\ CopiedInOrder'
  <1> DEFINE n == Len(buffer)
             Out == Outputs
             out == buffer'
  <1>1. buffer \in Seq(Out) /\ x \in Out /\ position \in Nat \ {0}
    BY DEF SanitizerInv
  <1>2. out = buffer \o <<x>>
    OBVIOUS
  <1>3. n \in Nat
    BY <1>1, LenProperties
  <1>4. PICK from \in [1..n -> Nat \ {0}] : IsOrigin(from)
    BY DEF SanitizerInv, CopiedInOrder
  <1>5. /\ out \in Seq(Out) /\ Len(out) = n + 1
        /\ \A i \in 1..n : out[i] = buffer[i]
        /\ out[n + 1] = x
    <2> HIDE DEF Out, out
    <2> QED
      BY <1>1, <1>2, <1>3
  <1> DEFINE grown == [i \in 1..(n + 1) |-> IF i = n + 1 THEN position ELSE from[i]]
  <1>6. /\ \A i \in 1..n : from[i] \in Nat \ {0} /\ from[i] < position
        /\ \A i \in 1..n : buffer[i] = "?" \/ buffer[i] = sql[from[i]]
        /\ \A i, j \in 1..n : i < j => from[i] < from[j]
    BY <1>4 DEF IsOrigin
  <1>7. grown \in [1..(n + 1) -> Nat \ {0}]
    BY <1>1, <1>3, <1>6
  <1>8. \A i, j \in 1..(n + 1) : i < j => grown[i] < grown[j]
    <2> HIDE DEF n
    <2> QED
      BY <1>1, <1>3, <1>6
  <1>9. ASSUME NEW i \in 1..(n + 1)
        PROVE  \/ grown[i] < position' /\ (out[i] = "?" \/ out[i] = sql'[grown[i]])
               \/ grown[i] = position' /\ out[i] = Ellipsis /\ fsm' = "Done"
    <2>1. CASE i = n + 1
      BY <2>1, <1>1, <1>5
    <2>2. CASE i # n + 1
      <3>1. i \in 1..n /\ grown[i] = from[i] /\ position <= position'
        BY <2>2, <1>1, <1>3
      <3>2. grown[i] < position'
        BY <3>1, <1>1, <1>6
      <3> HIDE DEF grown, n, out
      <3> QED
        BY <3>1, <3>2, <1>5, <1>6
    <2> QED
      BY <2>1, <2>2
  <1>10. 1..Len(out) = 1..(n + 1)
    BY <1>5
  <1>11. CopiedInOrder'
    <2>1. PICK origin : origin = grown
      OBVIOUS
    <2>2. IsOrigin(origin)'
      <3> HIDE DEF grown, n
      <3> QED
        BY <2>1, <1>7, <1>8, <1>9, <1>10 DEF IsOrigin
    <2>3. origin \in [1..Len(out) -> Nat \ {0}]
      <3> HIDE DEF grown
      <3> QED
        BY <2>1, <1>7, <1>10
    <2> QED
      BY <2>2, <2>3 DEF CopiedInOrder
  <1>12. Outputs' = Outputs
    BY DEF Outputs
  <1> QED
    BY <1>5, <1>11, <1>12

\* Runes taken back from the end, or none.
LEMMA ShrinksToPrefix ==
  ASSUME SanitizerInv, fsm # "Done", sql' = sql, position' \in Nat, position <= position',
         NEW k \in 0..Len(buffer), buffer' = SubSeq(buffer, 1, k)
  PROVE  buffer' \in Seq(Outputs) /\ Len(buffer') = k /\ CopiedInOrder'
  <1> DEFINE n == Len(buffer)
             Out == Outputs
             out == buffer'
  <1>1. buffer \in Seq(Out) /\ position \in Nat \ {0}
    BY DEF SanitizerInv
  <1>2. n \in Nat
    BY <1>1, LenProperties
  <1>3. PICK from \in [1..n -> Nat \ {0}] : IsOrigin(from)
    BY DEF SanitizerInv, CopiedInOrder
  <1>4. out \in Seq(Out) /\ Len(out) = k /\ \A i \in 1..k : out[i] = buffer[i]
    <2>1. out = SubSeq(buffer, 1, k)
      OBVIOUS
    <2> HIDE DEF Out, out
    <2> QED
      BY <1>1, <1>2, <2>1
  <1>5. /\ \A i \in 1..n : from[i] \in Nat \ {0} /\ from[i] < position
        /\ \A i \in 1..n : buffer[i] = "?" \/ buffer[i] = sql[from[i]]
        /\ \A i, j \in 1..n : i < j => from[i] < from[j]
    BY <1>3 DEF IsOrigin
  <1>6. PICK origin : origin = [i \in 1..k |-> from[i]]
    OBVIOUS
  <1>7. \A i \in 1..k : i \in 1..n
    BY <1>2
  <1>8. origin \in [1..Len(out) -> Nat \ {0}]
    BY <1>4, <1>5, <1>6, <1>7
  <1>9. \A i, j \in 1..k : i < j => origin[i] < origin[j]
    BY <1>5, <1>6, <1>7
  <1>10. \A i \in 1..k : origin[i] < position' /\ (out[i] = "?" \/ out[i] = sql'[origin[i]])
    <2> HIDE DEF out
    <2> TAKE i \in 1..k
    <2>1. i \in 1..n /\ origin[i] = from[i] /\ out[i] = buffer[i]
      BY <1>4, <1>6, <1>7
    <2>2. origin[i] < position'
      BY <2>1, <1>1, <1>5
    <2> QED
      BY <2>1, <2>2, <1>5
  <1>11. IsOrigin(origin)'
    BY <1>4, <1>8, <1>9, <1>10 DEF IsOrigin
  <1>12. Outputs' = Outputs
    BY DEF Outputs
  <1> QED
    BY <1>4, <1>8, <1>11, <1>12 DEF CopiedInOrder

LEMMA SanitizerInvNext == SanitizerInv /\ [SanitizerNext]_sanitizerVars => SanitizerInv'
  <1> SUFFICES ASSUME SanitizerInv, [SanitizerNext]_sanitizerVars PROVE SanitizerInv'
    OBVIOUS
  <1>1. /\ position \in Nat \ {0} /\ buffer \in Seq(Outputs) /\ Len(buffer) \in Nat
        /\ MaxSQLLen \in Nat \ {0} /\ LengthLimited
    BY SanitizerAssumption, LenProperties DEF SanitizerInv
  <1>2. CASE RuneRead
    <2>1. /\ sql' = sql /\ fsm # "Done" /\ fsm' # "Done"
          /\ position' = position + 1 /\ position' \in Nat \ {0} /\ position <= position'
          /\ Len(buffer) < MaxSQLLen - 1 /\ Len(buffer) < position
      BY <1>1, <1>2 DEF RuneRead, LengthLimited
    <2>2. CASE Pushed
      <3>1. PICK x \in {"?", sql[position]} : buffer' = buffer \o <<x>>
        BY <2>2 DEF Pushed
      <3>2. x \in Outputs
        BY <1>1 DEF Outputs, Marks
      <3>3. buffer' \in Seq(Outputs') /\ Len(buffer') = Len(buffer) + 1 /\ CopiedInOrder'
        BY <2>1, <3>1, <3>2, GrowsByOne DEF Outputs
      <3>4. LengthLimited'
        BY <1>1, <2>1, <3>3 DEF LengthLimited
      <3> QED
        BY <2>1, <3>3, <3>4 DEF SanitizerInv
    <2>3. CASE Kept \/ TakenBack
      <3>1. PICK k \in 0..Len(buffer) : buffer' = SubSeq(buffer, 1, k)
        <4>1. buffer = SubSeq(buffer, 1, Len(buffer))
          BY <1>1
        <4>2. Len(buffer) \in 0..Len(buffer)
          BY <1>1
        <4> QED
          BY <2>3, <4>1, <4>2 DEF Kept, TakenBack
      <3>2. buffer' \in Seq(Outputs') /\ Len(buffer') = k /\ CopiedInOrder'
        BY <2>1, <3>1, ShrinksToPrefix DEF Outputs
      <3>3. LengthLimited'
        BY <1>1, <2>1, <3>2 DEF LengthLimited
      <3> QED
        BY <2>1, <3>2, <3>3 DEF SanitizerInv
    <2> QED
      BY <1>2, <2>2, <2>3 DEF RuneRead
  <1>3. CASE Finish
    <2>1. /\ sql' = sql /\ position' = position /\ fsm # "Done" /\ fsm' = "Done"
          /\ Len(buffer) <= MaxSQLLen - 1 /\ Len(buffer) < position
      BY <1>1, <1>3 DEF Finish, LengthLimited, input
    <2>2. CASE buffer' = buffer \o <<Ellipsis>>
      <3>1. Ellipsis \in Outputs
        BY DEF Outputs, Marks
      <3>2. buffer' \in Seq(Outputs') /\ Len(buffer') = Len(buffer) + 1 /\ CopiedInOrder'
        BY <2>1, <2>2, <3>1, GrowsByOne DEF Outputs
      <3>3. LengthLimited'
        BY <1>1, <2>1, <3>2 DEF LengthLimited
      <3> QED
        BY <1>1, <2>1, <3>2, <3>3 DEF SanitizerInv
    <2>3. CASE buffer' = buffer
      <3>1. buffer' = SubSeq(buffer, 1, Len(buffer)) /\ Len(buffer) \in 0..Len(buffer)
        BY <2>3, <1>1
      <3>2. buffer' \in Seq(Outputs') /\ Len(buffer') = Len(buffer) /\ CopiedInOrder'
        BY <1>1, <2>1, <3>1, ShrinksToPrefix DEF Outputs
      <3>3. LengthLimited'
        BY <1>1, <2>1, <3>2 DEF LengthLimited
      <3> QED
        BY <1>1, <2>1, <3>2, <3>3 DEF SanitizerInv
    <2>4. buffer' = buffer \/ buffer' = Append(buffer, Ellipsis)
      BY <1>3 DEF Finish
    <2>5. Append(buffer, Ellipsis) = buffer \o <<Ellipsis>>
      <3> DEFINE Out == Outputs
      <3>1. buffer \in Seq(Out) /\ Ellipsis \in Out
        BY <1>1 DEF Outputs, Marks
      <3> HIDE DEF Out
      <3> QED
        BY <3>1, AppendIsConcat
    <2> QED
      BY <2>2, <2>3, <2>4, <2>5
  <1>4. CASE UNCHANGED sanitizerVars
    BY <1>4 DEF sanitizerVars, input, SanitizerInv, LengthLimited, CopiedInOrder, IsOrigin, Outputs
  <1> QED
    BY <1>2, <1>3, <1>4, ReadsRunes

\* Whatever the statement and the database, the sanitized statement is made of runes of the
\* statement, in their order and none of them twice, of marks in place of what began where
\* they stand, and of an ellipsis for the rest: nothing is made up, moved or repeated, and it
\* is never longer than the limit, nor, but for the ellipsis, than what was read of the
\* statement (sql_sanitizer.go:152-349).
THEOREM SanitizerKeepsOrder == SanitizerSpec => [](CopiedInOrder /\ LengthLimited)
  <1>1. SanitizerInv => CopiedInOrder /\ LengthLimited
    BY DEF SanitizerInv
  <1> QED
    BY <1>1, SanitizerInvInit, SanitizerInvNext, PTL DEF SanitizerSpec

-----------------------------------------------------------------------------
(* The parts side by side. *)

BackgroundInv == ReadyInv /\ TypeInv /\ HostInv /\ ServerlessInv

\* A step of one part is a stuttering step of the others.
LEMMA PartsStep ==
  [BackgroundNext]_backgroundVars =>
    /\ [ReadyNext]_readyVars /\ [MetricsNext]_metricVars
    /\ [HostNext]_hostVars /\ [ServerlessNext]_serverlessVars
  BY DEF BackgroundNext, backgroundVars, serviceVars, algorithmVars

\* The types of every part, whichever part runs.
THEOREM BackgroundTypeCorrect == BackgroundSpec => []BackgroundTypeOK
  <1>1. BackgroundInit => BackgroundInv
    BY ReadyInvInit, TypeInvInit, HostInvInit, ServerlessInvInit DEF BackgroundInit, BackgroundInv
  <1>2. BackgroundInv /\ [BackgroundNext]_backgroundVars => BackgroundInv'
    BY PartsStep, ReadyInvNext, TypeInvNext, HostStep, ServerlessInvNext DEF BackgroundInv
  <1>3. BackgroundInv => BackgroundTypeOK
    BY DEF BackgroundInv, BackgroundTypeOK, ReadyInv, HostInv, ServerlessInv,
           TypeInv, SpanTypes, CountTypes, TransTypes, PosterTypes, CollectTypes, ReportType, MetricsTypeOK
  <1> QED
    BY <1>1, <1>2, <1>3, PTL DEF BackgroundSpec
=============================================================================
