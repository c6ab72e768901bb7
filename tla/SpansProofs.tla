---------------------------- MODULE SpansProofs ----------------------------
(***************************************************************************)
(* Proofs about Spans, for any number of spans, goroutines and calls.       *)
(***************************************************************************)
EXTENDS Spans, SequenceTheorems, WellFoundedInduction, TLAPS

\* What an event is, with the ids drawn so far.
EventType == [id : Ids, span : Spans, label : Labels, edges : SUBSET Ids,
              args : SUBSET Goroutines, sent : BOOLEAN]
AnyEvent == [id : Nat, span : Spans, label : Labels, edges : SUBSET Nat,
             args : SUBSET Goroutines, sent : BOOLEAN]

SpanTypes ==
  /\ sampled \in BOOLEAN /\ enabled \in BOOLEAN
  /\ status \in [Spans -> {"free", "live", "null"}]
  /\ parent \in [Spans -> Spans \cup {None}]
  /\ txCtx \in [Spans -> Spans] /\ name \in [Spans -> Goroutines \cup {None}]
  /\ ended \in [Spans -> BOOLEAN]
  /\ endArgs \in [Spans -> SUBSET Goroutines]
CallTypes ==
  /\ pc \in [Goroutines -> InCall \cup InEnd]
  /\ cur \in [Goroutines -> Spans]
IdTypes ==
  /\ ids \in Nat /\ exitEvent \in Ids
  /\ opID \in [Spans -> Ids]
  /\ childEdges \in [Spans -> SUBSET Ids]
  /\ ev \in [Goroutines -> EventType]
  /\ prepared \in Seq(AnyEvent)

\* A goroutine holds the lock of a span exactly while it is in the End of that span.
Locks ==
  /\ lock \in [Spans -> Goroutines \cup {None}]
  /\ \A s \in Spans : lock[s] # None => pc[lock[s]] \in InEnd /\ cur[lock[s]] = s
  /\ \A g \in Goroutines : pc[g] \in InEnd => lock[cur[g]] = g

TypeInv == SpanTypes /\ CallTypes /\ IdTypes /\ Locks

-----------------------------------------------------------------------------
LEMMA TypeInvInit == Init => TypeInv
  <1> SUFFICES ASSUME Init PROVE TypeInv
    OBVIOUS
  <1> USE SpansAssumption
  <1>1. SpanTypes /\ CallTypes /\ Locks
    BY DEF Init, SpanTypes, CallTypes, Locks, InCall, InEnd
  <1>2. ids = 1 /\ Ids = 0..1
    BY DEF Init, Ids
  <1>3. NoEvent \in EventType /\ [NoEvent EXCEPT !.id = 1, !.label = "entry", !.sent = TRUE] \in AnyEvent
    <2>1. NoEvent \in EventType
      BY <1>2 DEF NoEvent, EventType, Labels
    <2>2. NoEvent \in AnyEvent
      BY DEF NoEvent, AnyEvent, Labels
    <2>3. [NoEvent EXCEPT !.id = 1] \in AnyEvent
      BY <2>2 DEF AnyEvent
    <2>4. [NoEvent EXCEPT !.id = 1, !.label = "entry"] \in AnyEvent
      BY <2>3 DEF AnyEvent, Labels
    <2> QED
      BY <2>1, <2>4 DEF AnyEvent
  <1>4. prepared \in Seq(AnyEvent)
    BY <1>3 DEF Init
  <1> QED
    BY <1>1, <1>2, <1>3, <1>4 DEF Init, TypeInv, IdTypes

\* An id that was drawn stays one.
LEMMA IdsGrow ==
  ASSUME ids \in Nat, ids' \in Nat, ids' >= ids
  PROVE  Ids \subseteq Ids' /\ EventType \subseteq EventType'
  <1>1. Ids \subseteq Ids'
    BY DEF Ids
  <1> QED
    BY <1>1 DEF EventType

\* A step of goroutine g that changes at most where it is.
LEMMA CallStep ==
  ASSUME TypeInv, NEW g \in Goroutines, NEW s \in Spans, NEW l \in {"begin", "info", "args", "name", "end"},
         Call(g, s, l)
  PROVE  TypeInv'
  <1>1. SpanTypes' /\ CallTypes'
    BY DEF TypeInv, SpanTypes, CallTypes, Call, Goto, spanVars, InCall, InEnd
  <1>2. IdTypes'
    BY DEF TypeInv, IdTypes, Call, spanVars, Ids, EventType
  <1>3. Locks'
    BY SpansAssumption DEF TypeInv, CallTypes, Locks, Call, Goto, spanVars, InCall, InEnd
  <1> QED
    BY <1>1, <1>2, <1>3 DEF TypeInv

\* Report keeps the types.
LEMMA ReportTypes ==
  ASSUME TypeInv, NEW s \in Spans, NEW e \in EventType', NEW sent \in BOOLEAN, Report(s, e, sent),
         ids' \in Nat, ids' >= ids
  PROVE  opID' \in [Spans -> Ids'] /\ prepared' \in Seq(AnyEvent)
  <1>1. Ids \subseteq Ids' /\ opID \in [Spans -> Ids] /\ prepared \in Seq(AnyEvent)
    BY IdsGrow DEF TypeInv, IdTypes
  <1>2. CASE ~sampled
    BY <1>1, <1>2 DEF Report
  <1>3. CASE sampled
    <2>1. e.id \in Ids' /\ [e EXCEPT !.sent = sent] \in AnyEvent
      BY DEF EventType, AnyEvent, Ids
    <2>2. opID' = [opID EXCEPT ![s] = e.id] /\ prepared' = Append(prepared, [e EXCEPT !.sent = sent])
      BY <1>3 DEF Report
    <2> HIDE DEF AnyEvent
    <2> QED
      BY <1>1, <2>1, <2>2, AppendProperties
  <1> QED
    BY <1>2, <1>3

\* Every step of the application and of a goroutine keeps types and locks.
LEMMA TypeInvNext == TypeInv /\ [Next]_vars => TypeInv'
  <1> SUFFICES ASSUME TypeInv, [Next]_vars PROVE TypeInv'
    OBVIOUS
  <1> USE SpansAssumption
  <1>1. ASSUME NEW g \in Goroutines, NEW s \in Spans, NEW l \in {"begin", "info", "args", "name", "end"},
               Call(g, s, l)
        PROVE  TypeInv'
    BY <1>1, CallStep
  <1>2. ASSUME NEW g \in Goroutines, NEW c \in Spans, BeginReport(g, c) PROVE TypeInv'
    <2> DEFINE s == cur[g]
               e == Event(c, "entry", ids + 1, {opID[s]}, {})
    <2>1. s \in Spans /\ ids \in Nat /\ opID[s] \in Ids /\ txCtx[s] \in Spans
      BY DEF TypeInv, CallTypes, IdTypes, SpanTypes
    <2>2. ids' = ids + 1 /\ ids' \in Nat /\ ids' >= ids
      BY <1>2, <2>1 DEF BeginReport, NewSpan
    <2>3. e \in EventType'
      BY <2>1, <2>2 DEF Event, EventType, Ids, Labels
    <2>4. PICK sent \in BOOLEAN :
            /\ Report(c, e, sent)
            /\ status' = [status EXCEPT ![c] = IF sampled /\ ~sent THEN "null" ELSE "live"]
      BY <1>2 DEF BeginReport, NewSpan
    <2>5. opID' \in [Spans -> Ids'] /\ prepared' \in Seq(AnyEvent)
      <3> HIDE DEF e
      <3> QED
        BY <2>2, <2>3, <2>4, ReportTypes
    <2>6. SpanTypes'
      BY <1>2, <2>1, <2>4 DEF BeginReport, NewSpan, TypeInv, SpanTypes
    <2>7. CallTypes' /\ Locks'
      BY <1>2 DEF BeginReport, NewSpan, Goto, TypeInv, CallTypes, Locks, InCall, InEnd
    <2>8. Ids \subseteq Ids' /\ EventType \subseteq EventType'
      BY <2>1, <2>2, IdsGrow
    <2>9. IdTypes'
      BY <1>2, <2>2, <2>5, <2>8 DEF BeginReport, NewSpan, TypeInv, IdTypes
    <2> QED
      BY <2>6, <2>7, <2>9 DEF TypeInv
  <1>3. ASSUME NEW g \in Goroutines, InfoCompose(g) PROVE TypeInv'
    <2>1. cur[g] \in Spans /\ ids \in Nat /\ opID[cur[g]] \in Ids
      BY DEF TypeInv, CallTypes, IdTypes
    <2>2. ids' = ids + 1 /\ ids' \in Nat
      BY <1>3, <2>1 DEF InfoCompose
    <2>3. Event(cur[g], "info", ids + 1, {opID[cur[g]]}, {}) \in EventType'
      BY <2>1, <2>2 DEF Event, EventType, Ids, Labels
    <2>4. Ids \subseteq Ids' /\ EventType \subseteq EventType'
      BY <2>1, <2>2, IdsGrow
    <2>5. IdTypes'
      BY <1>3, <2>2, <2>3, <2>4 DEF InfoCompose, TypeInv, IdTypes, histVars, spanVars
    <2>6. SpanTypes'
      BY <1>3 DEF InfoCompose, TypeInv, SpanTypes, spanVars
    <2>7. CallTypes' /\ Locks'
      BY <1>3 DEF InfoCompose, Goto, TypeInv, CallTypes, Locks, InCall, InEnd, spanVars
    <2> QED
      BY <2>5, <2>6, <2>7 DEF TypeInv
  <1>4. ASSUME NEW g \in Goroutines, InfoSend(g) PROVE TypeInv'
    <2>1. cur[g] \in Spans /\ ids \in Nat /\ ids' = ids /\ Ids' = Ids /\ EventType' = EventType
      BY <1>4 DEF InfoSend, TypeInv, CallTypes, IdTypes, Ids, EventType
    <2>2. ev[g] \in EventType'
      BY <2>1 DEF TypeInv, IdTypes
    <2>3. opID' \in [Spans -> Ids'] /\ prepared' \in Seq(AnyEvent)
      BY <1>4, <2>1, <2>2, ReportTypes DEF InfoSend
    <2>4. IdTypes'
      BY <1>4, <2>1, <2>3 DEF InfoSend, TypeInv, IdTypes
    <2>5. SpanTypes'
      BY <1>4 DEF InfoSend, TypeInv, SpanTypes
    <2>6. CallTypes' /\ Locks'
      BY <1>4 DEF InfoSend, Goto, TypeInv, CallTypes, Locks, InCall, InEnd
    <2> QED
      BY <2>4, <2>5, <2>6 DEF TypeInv
  <1>5. ASSUME NEW g \in Goroutines, AppendArgs(g) PROVE TypeInv'
    <2>1. cur[g] \in Spans
      BY DEF TypeInv, CallTypes
    <2>2. IdTypes'
      BY <1>5 DEF AppendArgs, TypeInv, IdTypes, Ids, EventType
    <2>3. SpanTypes'
      BY <1>5, <2>1 DEF AppendArgs, TypeInv, SpanTypes
    <2>4. CallTypes' /\ Locks'
      BY <1>5 DEF AppendArgs, Goto, TypeInv, CallTypes, Locks, InCall, InEnd
    <2> QED
      BY <2>2, <2>3, <2>4 DEF TypeInv
  <1>6. ASSUME NEW g \in Goroutines, SetName(g) PROVE TypeInv'
    <2>1. IdTypes'
      BY <1>6 DEF SetName, TypeInv, IdTypes, Ids, EventType
    <2>2. SpanTypes'
      BY <1>6 DEF SetName, TypeInv, SpanTypes
    <2>3. CallTypes' /\ Locks'
      BY <1>6 DEF SetName, Goto, TypeInv, CallTypes, Locks, InCall, InEnd
    <2> QED
      BY <2>1, <2>2, <2>3 DEF TypeInv
  <1>7. ASSUME NEW g \in Goroutines, ExitMetadata(g) \/ TellExitEvent(g) PROVE TypeInv'
    <2>1. /\ pc'[g] \in {"idle", "make", "tell"} /\ pc[g] \in {"idle", "tell"} /\ pc' = [pc EXCEPT ![g] = pc'[g]]
          /\ UNCHANGED <<sampled, enabled, spanVars, cur, ev, ids, prepared, recorded>>
      BY <1>7 DEF ExitMetadata, TellExitEvent, Goto, histVars, TypeInv, CallTypes
    <2>2. IdTypes' /\ SpanTypes'
      BY <2>1 DEF TypeInv, IdTypes, SpanTypes, spanVars, Ids, EventType
    <2>3. CallTypes' /\ Locks'
      BY <2>1 DEF TypeInv, CallTypes, Locks, spanVars, InCall, InEnd
    <2> QED
      BY <2>2, <2>3 DEF TypeInv
  <1>16. ASSUME NEW g \in Goroutines, MakeExitEvent(g) PROVE TypeInv'
    <2>1. ids \in Nat /\ exitEvent \in Ids
      BY DEF TypeInv, IdTypes
    <2>2. ids' \in Nat /\ ids' >= ids /\ exitEvent' \in Ids'
      BY <1>16, <2>1 DEF MakeExitEvent, Ids
    <2>3. Ids \subseteq Ids' /\ EventType \subseteq EventType'
      BY <2>1, <2>2, IdsGrow
    <2>4. IdTypes'
      BY <1>16, <2>2, <2>3 DEF MakeExitEvent, TypeInv, IdTypes, histVars
    <2>5. SpanTypes'
      BY <1>16 DEF MakeExitEvent, TypeInv, SpanTypes
    <2>6. CallTypes' /\ Locks'
      BY <1>16 DEF MakeExitEvent, Goto, TypeInv, CallTypes, Locks, InCall, InEnd
    <2> QED
      BY <2>4, <2>5, <2>6 DEF TypeInv
  <1>8. ASSUME NEW g \in Goroutines, EndLock(g) PROVE TypeInv'
    <2>1. cur[g] \in Spans
      BY DEF TypeInv, CallTypes
    <2>2. IdTypes' /\ SpanTypes'
      BY <1>8 DEF EndLock, TypeInv, IdTypes, SpanTypes, Ids, EventType, histVars
    <2>3. CallTypes'
      BY <1>8 DEF EndLock, Goto, TypeInv, CallTypes, InCall, InEnd
    <2>4. lock[cur[g]] = None
      BY <1>8 DEF EndLock, Wanted
    <2>5. Locks'
      BY <1>8, <2>1, <2>4 DEF EndLock, Goto, TypeInv, CallTypes, Locks, InCall, InEnd
    <2> QED
      BY <2>2, <2>3, <2>5 DEF TypeInv
  <1>9. ASSUME NEW g \in Goroutines, Compose(g) PROVE TypeInv'
    <2> DEFINE s == cur[g]
               id == IF s = Trace /\ exitEvent # 0 THEN exitEvent ELSE ids + 1
    <2>1. /\ s \in Spans /\ ids \in Nat /\ opID[s] \in Ids /\ exitEvent \in Ids
          /\ childEdges[s] \subseteq Ids /\ endArgs[s] \subseteq Goroutines
      BY DEF TypeInv, CallTypes, IdTypes, SpanTypes
    <2>2. ids' \in Nat /\ ids' >= ids /\ id \in Ids'
      BY <1>9, <2>1 DEF Compose, Ids
    <2>3. Ids \subseteq Ids' /\ EventType \subseteq EventType'
      BY <2>1, <2>2, IdsGrow
    <2>4. Event(s, "exit", id, childEdges[s] \cup {opID[s]}, endArgs[s]) \in EventType'
      BY <2>1, <2>2, <2>3 DEF Event, EventType, Labels
    <2>5. IdTypes'
      BY <1>9, <2>2, <2>3, <2>4 DEF Compose, TypeInv, IdTypes, spanVars
    <2>6. SpanTypes'
      BY <1>9 DEF Compose, TypeInv, SpanTypes, spanVars
    <2>7. CallTypes' /\ Locks'
      BY <1>9 DEF Compose, Goto, TypeInv, CallTypes, Locks, InCall, InEnd, spanVars
    <2> QED
      BY <2>5, <2>6, <2>7 DEF TypeInv
  <1>10. ASSUME NEW g \in Goroutines, ExitSend(g) PROVE TypeInv'
    <2>1. cur[g] \in Spans /\ ids \in Nat /\ ids' = ids /\ Ids' = Ids /\ EventType' = EventType
      BY <1>10 DEF ExitSend, TypeInv, CallTypes, IdTypes, Ids, EventType
    <2>2. ev[g] \in EventType'
      BY <2>1 DEF TypeInv, IdTypes
    <2>3. opID' \in [Spans -> Ids'] /\ prepared' \in Seq(AnyEvent)
      BY <1>10, <2>1, <2>2, ReportTypes DEF ExitSend
    <2>4. childEdges' \in [Spans -> SUBSET Ids']
      BY <1>10, <2>1 DEF ExitSend, TypeInv, IdTypes
    <2>5. IdTypes'
      BY <1>10, <2>1, <2>3, <2>4 DEF ExitSend, TypeInv, IdTypes
    <2>6. SpanTypes'
      BY <1>10, <2>1 DEF ExitSend, TypeInv, SpanTypes
    <2>7. CallTypes'
      BY <1>10 DEF ExitSend, Goto, TypeInv, CallTypes, InCall, InEnd
    <2>8. Locks'
      BY <1>10, <2>1 DEF ExitSend, Goto, Unlocked, TypeInv, CallTypes, Locks, InCall, InEnd
    <2> QED
      BY <2>5, <2>6, <2>7, <2>8 DEF TypeInv
  <1>11. ASSUME NEW g \in Goroutines, Join(g) PROVE TypeInv'
    <2>1. IdTypes' /\ SpanTypes'
      BY <1>11 DEF Join, TypeInv, IdTypes, SpanTypes, Ids, EventType, histVars
    <2>2. CallTypes'
      BY <1>11 DEF Join, Goto, TypeInv, CallTypes, InCall, InEnd
    <2>3. Locks'
      BY <1>11 DEF Join, Goto, Unlocked, TypeInv, CallTypes, Locks, InCall, InEnd
    <2> QED
      BY <2>1, <2>2, <2>3 DEF TypeInv
  <1>12. ASSUME NEW g \in Goroutines, AddChildEdge(g) PROVE TypeInv'
    <2>1. ids' = ids /\ Ids' = Ids /\ EventType' = EventType /\ opID[cur[g]] \in Ids
      BY <1>12 DEF AddChildEdge, TypeInv, CallTypes, IdTypes, Ids, EventType
    <2>2. childEdges' \in [Spans -> SUBSET Ids']
      BY <1>12, <2>1 DEF AddChildEdge, TypeInv, IdTypes
    <2>3. IdTypes'
      BY <1>12, <2>1, <2>2 DEF AddChildEdge, TypeInv, IdTypes
    <2>4. SpanTypes'
      BY <1>12 DEF AddChildEdge, TypeInv, SpanTypes
    <2>5. CallTypes'
      BY <1>12 DEF AddChildEdge, Goto, TypeInv, CallTypes, InCall, InEnd
    <2>6. Locks'
      BY <1>12 DEF AddChildEdge, Goto, Unlocked, TypeInv, CallTypes, Locks, InCall, InEnd
    <2> QED
      BY <2>3, <2>4, <2>5, <2>6 DEF TypeInv
  <1>13. CASE UNCHANGED vars
    BY <1>13 DEF vars, spanVars, callVars, histVars, TypeInv, SpanTypes, CallTypes, IdTypes, Locks,
       Ids, EventType
  <1>14. ASSUME NEW g \in Goroutines, Begin(g) PROVE TypeInv'
    <2>1. ASSUME NEW s \in Spans, BeginSpan(g, s) \/ Info(g, s) \/ AddEndArgs(g, s)
                                    \/ SetTransactionName(g, s) \/ End(g, s)
          PROVE  TypeInv'
      BY <1>1, <2>1 DEF BeginSpan, Info, AddEndArgs, SetTransactionName, End
    <2> QED
      BY <1>7, <1>14, <2>1 DEF Begin
  <1>15. ASSUME NEW g \in Goroutines, Step(g) PROVE TypeInv'
    BY <1>2, <1>3, <1>4, <1>5, <1>6, <1>7, <1>8, <1>9, <1>10, <1>11, <1>12, <1>15, <1>16 DEF Step
  <1> QED
    BY <1>13, <1>14, <1>15 DEF Next

\* Types, and who holds a lock.
THEOREM SpansTypeCorrect == Spec => []SpansTypeOK
  <1>1. TypeInv => SpansTypeOK
    BY DEF TypeInv, SpanTypes, CallTypes, IdTypes, Locks, SpansTypeOK
  <1> QED
    BY <1>1, TypeInvInit, TypeInvNext, PTL DEF Spec

-----------------------------------------------------------------------------
(* One exit event and one measurement of the trace. *)

\* The trace is measured by who is about to report its exit, or was.
Measured == ended[Trace] \/ \E g \in Goroutines : pc[g] = "exitsend" /\ cur[g] = Trace

Roots ==
  /\ parent[Trace] = None
  /\ status[Trace] = "live"
Sending ==
  \A g \in Goroutines :
    /\ pc[g] \in {"exit", "exitsend"} /\ cur[g] = Trace => ~ended[Trace]
    /\ pc[g] = "exitsend" => ev[g].label = "exit" /\ ev[g].span = cur[g]
    /\ pc[g] = "infosend" => ev[g].label = "info" /\ ev[g].span = cur[g]
ExitOnce ==
  /\ \A i, j \in ExitsOf(Trace) : i = j
  /\ ExitsOf(Trace) # {} <=> ended[Trace] /\ sampled
MeasuredOnce ==
  /\ recorded \in Seq(Goroutines \cup {None})
  /\ Len(recorded) = IF enabled /\ Measured THEN 1 ELSE 0

TraceInv == Roots /\ Sending /\ ExitOnce /\ MeasuredOnce

LEMMA TraceInvInit == Init => TraceInv
  <1> SUFFICES ASSUME Init PROVE TraceInv
    OBVIOUS
  <1>1. Roots /\ Sending /\ MeasuredOnce
    BY SpansAssumption DEF Init, Roots, Sending, MeasuredOnce, Measured
  <1>2. ExitsOf(Trace) = {}
    <2>1. CASE sampled
      <3> DEFINE e == [NoEvent EXCEPT !.id = 1, !.label = "entry", !.sent = TRUE]
      <3>1. prepared = <<e>>
        BY <2>1 DEF Init
      <3>2. e.label = "entry"
        BY DEF NoEvent
      <3> HIDE DEF e
      <3>3. \A i \in 1..Len(prepared) : prepared[i].label # "exit"
        BY <3>1, <3>2
      <3> QED
        BY <3>3 DEF ExitsOf
    <2>2. CASE ~sampled
      BY <2>2 DEF Init, ExitsOf
    <2> QED
      BY <2>1, <2>2
  <1>3. ~ended[Trace]
    BY SpansAssumption DEF Init
  <1> QED
    BY <1>1, <1>2, <1>3 DEF TraceInv, ExitOnce

\* What Report adds to the history.
LEMMA Appended ==
  ASSUME TypeInv, NEW s \in Spans, NEW e \in EventType', NEW sent \in BOOLEAN, Report(s, e, sent),
         sampled
  PROVE  /\ Len(prepared) \in Nat /\ Len(prepared') = Len(prepared) + 1
         /\ \A i \in 1..Len(prepared) : prepared'[i] = prepared[i]
         /\ prepared'[Len(prepared')].span = e.span
         /\ prepared'[Len(prepared')].label = e.label
         /\ prepared'[Len(prepared')].edges = e.edges
         /\ prepared'[Len(prepared')].args = e.args
         /\ prepared'[Len(prepared')].id = e.id
         /\ prepared'[Len(prepared')].sent = sent
  <1> DEFINE f == [e EXCEPT !.sent = sent]
  <1>1. prepared \in Seq(AnyEvent) /\ prepared' = Append(prepared, f)
    BY DEF TypeInv, IdTypes, Report
  <1>2. f \in AnyEvent
    BY DEF EventType, AnyEvent, Ids
  <1>3. f.span = e.span /\ f.label = e.label /\ f.edges = e.edges /\ f.args = e.args
        /\ f.id = e.id /\ f.sent = sent
    BY DEF EventType
  <1> HIDE DEF f, AnyEvent
  <1>4. Len(prepared) \in Nat
    BY <1>1, LenProperties
  <1>5. /\ Len(prepared') = Len(prepared) + 1
        /\ \A i \in 1..Len(prepared) : prepared'[i] = prepared[i]
        /\ prepared'[Len(prepared) + 1] = f
    BY <1>1, <1>2, AppendProperties
  <1> QED
    BY <1>3, <1>4, <1>5

\* The exit events of the trace after a report.
LEMMA ReportExits ==
  ASSUME TypeInv, NEW s \in Spans, NEW e \in EventType', NEW sent \in BOOLEAN, Report(s, e, sent)
  PROVE  ExitsOf(Trace)' = ExitsOf(Trace)
           \cup (IF sampled /\ e.span = Trace /\ e.label = "exit" THEN {Len(prepared')} ELSE {})
  <1>1. CASE ~sampled
    BY <1>1 DEF Report, ExitsOf
  <1>2. CASE sampled
    <2>1. 1..Len(prepared') = 1..Len(prepared) \cup {Len(prepared')} /\ Len(prepared') \notin 1..Len(prepared)
      BY <1>2, Appended
    <2>2. \A i \in 1..Len(prepared) : prepared'[i] = prepared[i]
      BY <1>2, Appended
    <2>3. prepared'[Len(prepared')].span = e.span /\ prepared'[Len(prepared')].label = e.label
      BY <1>2, Appended
    <2> QED
      BY <1>2, <2>1, <2>2, <2>3 DEF ExitsOf
  <1> QED
    BY <1>1, <1>2

\* A step that neither reports nor measures, of a goroutine outside the two steps of an exit.
LEMMA TraceUntouched ==
  ASSUME TypeInv, TraceInv, NEW g \in Goroutines,
         UNCHANGED <<sampled, enabled, ended, recorded, prepared, parent, status>>,
         \A h \in Goroutines \ {g} : pc'[h] = pc[h] /\ cur'[h] = cur[h] /\ ev'[h] = ev[h],
         pc[g] \notin {"exit", "exitsend"} \/ (pc'[g] = pc[g] /\ cur'[g] = cur[g] /\ ev'[g] = ev[g]),
         pc'[g] = "infosend" => ev'[g].label = "info" /\ ev'[g].span = cur'[g],
         pc'[g] = "exit" => (cur'[g] = Trace => ~ended[Trace]),
         pc'[g] = "exitsend" => pc[g] = "exitsend"
  PROVE  TraceInv'
  <1>1. Roots' /\ ExitOnce'
    BY DEF TraceInv, Roots, ExitOnce, ExitsOf
  <1>2. Sending'
    BY DEF TraceInv, Sending
  <1>3. Measured' = Measured
    BY DEF Measured
  <1>4. MeasuredOnce'
    BY <1>3 DEF TraceInv, MeasuredOnce
  <1> QED
    BY <1>1, <1>2, <1>4 DEF TraceInv

LEMMA TraceInvNext == TypeInv /\ TraceInv /\ [Next]_vars => TraceInv'
  <1> SUFFICES ASSUME TypeInv, TraceInv, [Next]_vars PROVE TraceInv'
    OBVIOUS
  <1> USE SpansAssumption
  <1>1. pc \in [Goroutines -> InCall \cup InEnd]
        /\ cur \in [Goroutines -> Spans] /\ ids \in Nat
    BY DEF TypeInv, CallTypes, IdTypes
  <1>2. ASSUME NEW g \in Goroutines, NEW s \in Spans, NEW l \in {"begin", "info", "args", "name", "end"},
               Call(g, s, l)
        PROVE  TraceInv'
    BY <1>1, <1>2, TraceUntouched DEF Call, Goto, spanVars
  <1>3. ASSUME NEW g \in Goroutines, NEW c \in Spans, BeginReport(g, c) PROVE TraceInv'
    <2> DEFINE e == Event(c, "entry", ids + 1, {opID[cur[g]]}, {})
    <2>1. PICK sent \in BOOLEAN :
            /\ Report(c, e, sent)
            /\ status' = [status EXCEPT ![c] = IF sampled /\ ~sent THEN "null" ELSE "live"]
      BY <1>3 DEF BeginReport, NewSpan
    <2>2. ids' = ids + 1 /\ ids \in Nat /\ opID[cur[g]] \in Ids
      BY <1>1, <1>3 DEF BeginReport, NewSpan, TypeInv, IdTypes
    <2>3. e \in EventType' /\ e.label = "entry"
      BY <2>2 DEF Event, EventType, Ids, Labels
    <2>4. ExitsOf(Trace)' = ExitsOf(Trace)
      <3> HIDE DEF e
      <3> QED
        BY <2>1, <2>3, ReportExits
    <2>5. Roots'
      BY <1>3, <2>1 DEF BeginReport, NewSpan, TraceInv, Roots, TypeInv, SpanTypes
    <2>6. Sending' /\ ExitOnce'
      BY <1>1, <1>3, <2>4 DEF BeginReport, NewSpan, Goto, TraceInv, Sending, ExitOnce
    <2>7. Measured' = Measured
      BY <1>1, <1>3 DEF BeginReport, NewSpan, Goto, Measured
    <2>8. MeasuredOnce'
      BY <1>3, <2>7 DEF BeginReport, NewSpan, TraceInv, MeasuredOnce
    <2> QED
      BY <2>5, <2>6, <2>8 DEF TraceInv
  <1>4. ASSUME NEW g \in Goroutines, InfoCompose(g) PROVE TraceInv'
    <2>1. ev'[g].label = "info" /\ ev'[g].span = cur'[g]
      BY <1>4 DEF InfoCompose, Event, TypeInv, IdTypes
    <2> QED
      BY <1>1, <1>4, <2>1, TraceUntouched DEF InfoCompose, Goto, TypeInv, IdTypes, spanVars, histVars
  <1>5. ASSUME NEW g \in Goroutines, InfoSend(g) PROVE TraceInv'
    <2>1. PICK sent \in BOOLEAN : Report(cur[g], ev[g], sent)
      BY <1>5 DEF InfoSend
    <2>2. ev[g] \in EventType' /\ ev[g].label = "info"
      BY <1>5 DEF InfoSend, TypeInv, IdTypes, EventType, Ids, TraceInv, Sending
    <2>3. ExitsOf(Trace)' = ExitsOf(Trace)
      BY <1>1, <2>1, <2>2, ReportExits
    <2>4. Roots' /\ Sending' /\ ExitOnce'
      BY <1>1, <1>5, <2>3 DEF InfoSend, Goto, TraceInv, Roots, Sending, ExitOnce
    <2>5. Measured' = Measured
      BY <1>1, <1>5 DEF InfoSend, Goto, Measured
    <2>6. MeasuredOnce'
      BY <1>5, <2>5 DEF InfoSend, TraceInv, MeasuredOnce
    <2> QED
      BY <2>4, <2>6 DEF TraceInv
  <1>6. ASSUME NEW g \in Goroutines, AppendArgs(g) \/ SetName(g) \/ Join(g) \/ AddChildEdge(g)
        PROVE  TraceInv'
    <2>1. /\ pc[g] \notin {"exit", "exitsend"} /\ pc'[g] \in {"idle", "edge"}
          /\ UNCHANGED <<sampled, enabled, ended, recorded, prepared, parent, status, cur, ev>>
          /\ \A h \in Goroutines \ {g} : pc'[h] = pc[h]
      BY <1>1, <1>6 DEF AppendArgs, SetName, Join, AddChildEdge, Goto, histVars
    <2> QED
      BY <2>1, TraceUntouched
  <1>7. ASSUME NEW g \in Goroutines, ExitMetadata(g) \/ MakeExitEvent(g) \/ TellExitEvent(g)
        PROVE  TraceInv'
    <2>1. /\ pc[g] \notin {"exit", "exitsend"} /\ pc'[g] \in {"idle", "make", "tell"}
          /\ UNCHANGED <<sampled, enabled, ended, recorded, prepared, parent, status, cur, ev>>
          /\ \A h \in Goroutines \ {g} : pc'[h] = pc[h]
      BY <1>1, <1>7 DEF ExitMetadata, MakeExitEvent, TellExitEvent, Goto, spanVars, histVars
    <2> QED
      BY <2>1, TraceUntouched
  <1>8. ASSUME NEW g \in Goroutines, EndLock(g) PROVE TraceInv'
    <2>1. /\ pc[g] = "end" /\ (pc'[g] = "exit" => ~AlreadyEnded(g)) /\ pc'[g] \in {"idle", "exit"}
          /\ UNCHANGED <<sampled, enabled, ended, recorded, prepared, parent, status, cur, ev>>
          /\ \A h \in Goroutines \ {g} : pc'[h] = pc[h]
      BY <1>1, <1>8 DEF EndLock, Goto, histVars
    <2> QED
      BY <2>1, TraceUntouched DEF AlreadyEnded
  <1>9. ASSUME NEW g \in Goroutines, Compose(g) PROVE TraceInv'
    <2>1. pc[g] = "exit" /\ lock[cur[g]] = g /\ pc' = [pc EXCEPT ![g] = "exitsend"]
          /\ UNCHANGED <<cur, ended, enabled, sampled, prepared, parent, status, name, txCtx>>
      BY <1>9 DEF Compose, Goto, TypeInv, Locks, InCall, InEnd, spanVars
    <2>2. ev'[g].label = "exit" /\ ev'[g].span = cur[g]
          /\ \A h \in Goroutines \ {g} : ev'[h] = ev[h]
      BY <1>9 DEF Compose, Event, TypeInv, IdTypes
    <2>3. Roots' /\ Sending' /\ ExitOnce'
      BY <1>1, <2>1, <2>2 DEF TraceInv, Roots, Sending, ExitOnce, ExitsOf
    <2>4. recorded \in Seq(Goroutines \cup {None}) /\ name[txCtx[Trace]] \in Goroutines \cup {None}
      BY DEF TraceInv, MeasuredOnce, TypeInv, SpanTypes
    <2>5. CASE cur[g] = Trace
      <3>1. ~Measured
        <4>1. ~ended[Trace]
          BY <2>1, <2>5 DEF TraceInv, Sending
        <4>2. ASSUME NEW h \in Goroutines, pc[h] = "exitsend", cur[h] = Trace PROVE FALSE
          BY <2>1, <2>5, <4>2 DEF TypeInv, Locks, InCall, InEnd
        <4> QED
          BY <4>1, <4>2 DEF Measured
      <3>2. Measured'
        BY <1>1, <2>1, <2>5 DEF Measured
      <3>3. recorded' = IF enabled THEN Append(recorded, name[txCtx[Trace]]) ELSE recorded
        BY <1>9, <2>5 DEF Compose, Recorded
      <3>4. Len(recorded) = 0
        BY <3>1 DEF TraceInv, MeasuredOnce
      <3>5. recorded' \in Seq(Goroutines \cup {None}) /\ Len(recorded') = IF enabled THEN 1 ELSE 0
        <4> DEFINE x == name[txCtx[Trace]]
        <4> HIDE DEF x
        <4>1. Append(recorded, x) \in Seq(Goroutines \cup {None}) /\ Len(Append(recorded, x)) = 1
          BY <2>4, <3>4, AppendProperties DEF x
        <4> QED
          BY <2>4, <3>3, <3>4, <4>1 DEF x
      <3>6. MeasuredOnce'
        BY <2>1, <3>2, <3>5 DEF MeasuredOnce
      <3> QED
        BY <2>3, <3>6 DEF TraceInv
    <2>6. CASE cur[g] # Trace
      <3>1. recorded' = recorded
        BY <1>9, <2>6 DEF Compose, Recorded
      <3>2. Measured' = Measured
        BY <1>1, <2>1, <2>6 DEF Measured
      <3> QED
        BY <2>1, <2>3, <3>1, <3>2 DEF TraceInv, MeasuredOnce
    <2> QED
      BY <2>5, <2>6
  <1>10. ASSUME NEW g \in Goroutines, ExitSend(g) PROVE TraceInv'
    <2>1. PICK sent \in BOOLEAN : Report(cur[g], ev[g], sent)
      BY <1>10 DEF ExitSend
    <2>2. ev[g] \in EventType' /\ ev[g].label = "exit" /\ ev[g].span = cur[g]
      BY <1>10 DEF ExitSend, TypeInv, IdTypes, EventType, Ids, TraceInv, Sending
    <2>3. ExitsOf(Trace)' = ExitsOf(Trace)
            \cup (IF sampled /\ cur[g] = Trace THEN {Len(prepared')} ELSE {})
      BY <1>1, <2>1, <2>2, ReportExits
    <2>4. /\ pc[g] = "exitsend" /\ lock[cur[g]] = g /\ ended' = [ended EXCEPT ![cur[g]] = TRUE]
          /\ pc' = [pc EXCEPT ![g] = IF parent[cur[g]] = None THEN "idle" ELSE "join"]
          /\ UNCHANGED <<cur, ev, enabled, sampled, parent, status, recorded>>
      BY <1>10 DEF ExitSend, Goto, TypeInv, Locks, InCall, InEnd
    <2>5. Roots'
      BY <2>4 DEF TraceInv, Roots
    <2>6. ASSUME NEW h \in Goroutines, pc'[h] \in {"exit", "exitsend"}, cur'[h] = Trace
          PROVE  ~ended'[Trace]
      <3>1. h # g /\ pc[h] = pc'[h] /\ cur[h] = Trace
        BY <1>1, <2>4, <2>6
      <3>2. lock[Trace] = h
        BY <2>6, <3>1 DEF TypeInv, Locks, InCall, InEnd
      <3>3. cur[g] # Trace /\ ~ended[Trace]
        BY <2>4, <2>6, <3>1, <3>2 DEF TraceInv, Sending
      <3> QED
        BY <1>1, <2>4, <3>3 DEF TypeInv, SpanTypes
    <2>7. Sending'
      BY <1>1, <2>4, <2>6 DEF TraceInv, Sending
    <2>8. ended \in [Spans -> BOOLEAN] /\ ended'[Trace] = (ended[Trace] \/ cur[g] = Trace)
      BY <1>1, <2>4 DEF TypeInv, SpanTypes
    <2>9. ExitOnce'
      <3>1. cur[g] = Trace => ExitsOf(Trace) = {}
        BY <2>4 DEF TraceInv, Sending, ExitOnce
      <3> QED
        BY <2>3, <2>4, <2>8, <3>1 DEF TraceInv, ExitOnce
    <2>10. Measured' = Measured
      BY <1>1, <2>4, <2>8 DEF Measured
    <2>11. MeasuredOnce'
      BY <2>4, <2>10 DEF TraceInv, MeasuredOnce
    <2> QED
      BY <2>5, <2>7, <2>9, <2>11 DEF TraceInv
  <1>11. CASE UNCHANGED vars
    BY <1>11 DEF vars, spanVars, callVars, histVars, TraceInv, Roots, Sending, ExitOnce, ExitsOf,
       MeasuredOnce, Measured
  <1>12. ASSUME NEW g \in Goroutines, Begin(g) PROVE TraceInv'
    <2>1. ASSUME NEW s \in Spans, BeginSpan(g, s) \/ Info(g, s) \/ AddEndArgs(g, s)
                                    \/ SetTransactionName(g, s) \/ End(g, s)
          PROVE  TraceInv'
      BY <1>2, <2>1 DEF BeginSpan, Info, AddEndArgs, SetTransactionName, End
    <2> QED
      BY <1>7, <1>12, <2>1 DEF Begin
  <1>13. ASSUME NEW g \in Goroutines, Step(g) PROVE TraceInv'
    BY <1>3, <1>4, <1>5, <1>6, <1>7, <1>8, <1>9, <1>10, <1>13 DEF Step
  <1> QED
    BY <1>11, <1>12, <1>13 DEF Next

\* However many goroutines end the trace, it reports one exit event and is measured once.
THEOREM SpansTraceOnce == Spec => []TraceOnce
  <1>1. TraceInv => TraceOnce
    BY DEF TraceInv, ExitOnce, MeasuredOnce, Measured, TraceOnce
  <1> QED
    BY <1>1, TypeInvInit, TypeInvNext, TraceInvInit, TraceInvNext, PTL DEF Spec

-----------------------------------------------------------------------------
(* The graph of the events. *)

\* The ids an edge may lead to, and the spans whose entry event was sent.
Known(n) == {0} \cup {prepared[j].id : j \in 1..n}
Entered(s, n) == \E j \in 1..n : /\ prepared[j].span = s
                                 /\ prepared[j].label = "entry" /\ prepared[j].sent

Contexts ==
  \A s \in Spans : /\ opID[s] \in Known(Len(prepared))
                   /\ childEdges[s] \subseteq Known(Len(prepared))
Composed ==
  \A g \in Goroutines : pc[g] \in {"infosend", "exitsend"} =>
    /\ ev[g].edges \subseteq Known(Len(prepared))
    /\ ev[g].span = cur[g] /\ ev[g].label # "entry"
\* Where a goroutine is in no method of a span: outside, or in ExitMetadata.
NoSpan == {"idle", "make", "tell"}
Alive ==
  /\ \A s \in Spans : status[s] = "live" /\ sampled => Entered(s, Len(prepared))
  /\ \A g \in Goroutines : pc[g] \notin NoSpan => status[cur[g]] = "live"
\* What is not sampled prepares nothing.
Quiet == ~sampled => prepared = <<>>

GraphInv == Contexts /\ Composed /\ Alive /\ Quiet /\ EventGraph

LEMMA GraphInvInit == Init => GraphInv
  <1> SUFFICES ASSUME Init PROVE GraphInv
    OBVIOUS
  <1> USE SpansAssumption
  <1>1. Composed /\ Quiet
    BY DEF Init, Composed, Quiet
  <1>2. CASE sampled
    <2> DEFINE e == [NoEvent EXCEPT !.id = 1, !.label = "entry", !.sent = TRUE]
    <2>1. prepared = <<e>>
      BY <1>2 DEF Init
    <2>2. e.id = 1 /\ e.label = "entry" /\ e.sent /\ e.edges = {} /\ e.span = Trace
      BY DEF NoEvent
    <2> HIDE DEF e
    <2>3. Len(prepared) = 1 /\ prepared[1] = e
      BY <2>1
    <2>4. 1 \in Known(Len(prepared)) /\ 0 \in Known(Len(prepared))
      BY <2>2, <2>3 DEF Known
    <2>5. Contexts
      BY <2>4 DEF Init, Contexts
    <2>6. Alive
      BY <2>2, <2>3 DEF Init, Alive, Entered
    <2>7. EventGraph
      BY <2>2, <2>3 DEF EventGraph
    <2> QED
      BY <1>1, <2>5, <2>6, <2>7 DEF GraphInv
  <1>3. CASE ~sampled
    <2>1. prepared = <<>>
      BY <1>3 DEF Init
    <2>2. Contexts /\ Alive
      BY <1>3 DEF Init, Contexts, Alive, Known
    <2>3. EventGraph
      BY <2>1 DEF EventGraph
    <2> QED
      BY <1>1, <2>2, <2>3 DEF GraphInv
  <1> QED
    BY <1>2, <1>3

\* A report of an event of a span that was entered, or of its entry, whose edges are known.
LEMMA GraphReport ==
  ASSUME TypeInv, GraphInv, NEW s \in Spans, NEW e \in EventType', NEW sent \in BOOLEAN,
         Report(s, e, sent), sampled' = sampled,
         sampled => e.edges \subseteq Known(Len(prepared)),
         sampled /\ e.label # "entry" => Entered(e.span, Len(prepared))
  PROVE  /\ Quiet' /\ EventGraph'
         /\ Known(Len(prepared)) \subseteq Known(Len(prepared))'
         /\ \A r \in Spans : Entered(r, Len(prepared)) => Entered(r, Len(prepared))'
         /\ \A r \in Spans : opID'[r] \in Known(Len(prepared))'
         /\ sampled /\ sent /\ e.label = "entry" => Entered(e.span, Len(prepared))'
  <1>1. CASE ~sampled
    BY <1>1 DEF Report, GraphInv, Quiet, EventGraph, Known, Entered, Contexts
  <1>2. CASE sampled
    <2> DEFINE n == Len(prepared)
    <2>1. /\ n \in Nat /\ Len(prepared') = n + 1
          /\ \A i \in 1..n : prepared'[i] = prepared[i]
          /\ prepared'[n + 1].span = e.span
          /\ prepared'[n + 1].label = e.label
          /\ prepared'[n + 1].edges = e.edges
          /\ prepared'[n + 1].id = e.id
          /\ prepared'[n + 1].sent = sent
      BY <1>2, Appended
    <2>2. Quiet'
      BY <1>2 DEF Quiet
    <2>3. \A i \in 1..n+1 : \A j \in 1..i-1 : j \in 1..n /\ prepared'[j] = prepared[j]
      BY <2>1
    <2>4. \A i \in 1..n :
             /\ prepared'[i].edges \subseteq {0} \cup {prepared'[j].id : j \in 1..i-1}
             /\ prepared'[i].label # "entry" =>
                  \E j \in 1..i-1 : /\ prepared'[j].span = prepared'[i].span
                                    /\ prepared'[j].label = "entry" /\ prepared'[j].sent
      <3> SUFFICES ASSUME NEW i \in 1..n
                   PROVE  /\ prepared'[i].edges \subseteq {0} \cup {prepared'[j].id : j \in 1..i-1}
                          /\ prepared'[i].label # "entry" =>
                               \E j \in 1..i-1 : /\ prepared'[j].span = prepared'[i].span
                                                 /\ prepared'[j].label = "entry" /\ prepared'[j].sent
        OBVIOUS
      <3>1. i \in 1..n+1 /\ prepared'[i] = prepared[i]
        BY <2>1
      <3>2. {prepared'[j].id : j \in 1..i-1} = {prepared[j].id : j \in 1..i-1}
        BY <2>3, <3>1
      <3>3. /\ prepared[i].edges \subseteq {0} \cup {prepared[j].id : j \in 1..i-1}
            /\ prepared[i].label # "entry" =>
                 \E j \in 1..i-1 : /\ prepared[j].span = prepared[i].span
                                   /\ prepared[j].label = "entry" /\ prepared[j].sent
        BY DEF GraphInv, EventGraph
      <3> QED
        BY <2>3, <3>1, <3>2, <3>3
    <2>5. {prepared'[j].id : j \in 1..n} = {prepared[j].id : j \in 1..n}
      BY <2>1
    <2>6. /\ prepared'[n + 1].edges \subseteq {0} \cup {prepared'[j].id : j \in 1..n}
          /\ prepared'[n + 1].label # "entry" =>
               \E j \in 1..n : /\ prepared'[j].span = prepared'[n + 1].span
                               /\ prepared'[j].label = "entry" /\ prepared'[j].sent
      BY <1>2, <2>1, <2>5 DEF Known, Entered
    <2>7. EventGraph'
      <3> SUFFICES ASSUME NEW i \in 1..n + 1
                   PROVE  /\ prepared'[i].edges \subseteq {0} \cup {prepared'[j].id : j \in 1..i-1}
                          /\ prepared'[i].label # "entry" =>
                               \E j \in 1..i-1 : /\ prepared'[j].span = prepared'[i].span
                                                 /\ prepared'[j].label = "entry" /\ prepared'[j].sent
        BY <2>1 DEF EventGraph
      <3>1. CASE i \in 1..n
        BY <2>4, <3>1
      <3>2. CASE i = n + 1
        <4>1. i - 1 = n
          BY <2>1, <3>2
        <4> QED
          BY <2>6, <3>2, <4>1
      <3> QED
        BY <2>1, <3>1, <3>2
    <2>8. Known(n) \subseteq Known(Len(prepared))' /\ e.id \in Known(Len(prepared))'
      <3>1. Known(Len(prepared))' = {0} \cup {prepared'[j].id : j \in 1..n + 1}
        BY <2>1 DEF Known
      <3>2. \A j \in 1..n : prepared[j].id = prepared'[j].id /\ j \in 1..n + 1
        BY <2>1
      <3>3. n + 1 \in 1..n + 1 /\ e.id = prepared'[n + 1].id
        BY <2>1
      <3> QED
        BY <3>1, <3>2, <3>3 DEF Known
    <2>9. ASSUME NEW r \in Spans, Entered(r, n) PROVE Entered(r, Len(prepared))'
      <3>1. PICK j \in 1..n : prepared[j].span = r /\ prepared[j].label = "entry" /\ prepared[j].sent
        BY <2>9 DEF Entered
      <3>2. j \in 1..Len(prepared') /\ prepared'[j] = prepared[j]
        BY <2>1
      <3> QED
        BY <3>1, <3>2 DEF Entered
    <2>10. \A r \in Spans : opID'[r] \in Known(Len(prepared))'
      BY <1>2, <2>8 DEF Report, GraphInv, Contexts, TypeInv, IdTypes
    <2>11. ASSUME sent, e.label = "entry" PROVE Entered(e.span, Len(prepared))'
      <3>1. n + 1 \in 1..Len(prepared') /\ prepared'[n + 1].sent = sent
        BY <2>1
      <3> HIDE DEF n
      <3> QED
        BY <2>1, <2>11, <3>1 DEF Entered
    <2> QED
      BY <1>2, <2>2, <2>7, <2>8, <2>9, <2>10, <2>11
  <1> QED
    BY <1>1, <1>2

\* A step of goroutine g that reports nothing.
LEMMA GraphUntouched ==
  ASSUME TypeInv, GraphInv, NEW g \in Goroutines,
         UNCHANGED <<sampled, prepared, opID, status>>,
         \A s \in Spans : childEdges'[s] \subseteq Known(Len(prepared)),
         \A h \in Goroutines \ {g} : pc'[h] = pc[h] /\ cur'[h] = cur[h] /\ ev'[h] = ev[h],
         pc'[g] \notin NoSpan => status[cur'[g]] = "live",
         pc'[g] \in {"infosend", "exitsend"} =>
            /\ ev'[g].edges \subseteq Known(Len(prepared))
            /\ ev'[g].span = cur'[g] /\ ev'[g].label # "entry"
  PROVE  GraphInv'
  <1>1. Known(Len(prepared))' = Known(Len(prepared))
        /\ \A s \in Spans : Entered(s, Len(prepared))' = Entered(s, Len(prepared))
    BY DEF Known, Entered
  <1>2. Contexts' /\ Composed'
    BY <1>1 DEF GraphInv, Contexts, Composed
  <1>3. Alive'
    BY <1>1 DEF GraphInv, Alive
  <1>4. Quiet' /\ EventGraph'
    BY DEF GraphInv, Quiet, EventGraph
  <1> QED
    BY <1>2, <1>3, <1>4 DEF GraphInv

LEMMA GraphInvNext == TypeInv /\ GraphInv /\ [Next]_vars => GraphInv'
  <1> SUFFICES ASSUME TypeInv, GraphInv, [Next]_vars PROVE GraphInv'
    OBVIOUS
  <1> USE SpansAssumption
  <1>1. /\ pc \in [Goroutines -> InCall \cup InEnd]
        /\ cur \in [Goroutines -> Spans] /\ ids \in Nat
        /\ ev \in [Goroutines -> EventType]
        /\ \A s \in Spans : opID[s] \in Known(Len(prepared)) /\ childEdges[s] \subseteq Known(Len(prepared))
        /\ \A h \in Goroutines : pc[h] \notin NoSpan => status[cur[h]] = "live"
    BY DEF TypeInv, CallTypes, IdTypes, GraphInv, Contexts, Alive
  <1>2. ASSUME NEW g \in Goroutines, NEW s \in Spans, NEW l \in {"begin", "info", "args", "name", "end"},
               Call(g, s, l)
        PROVE  GraphInv'
    BY <1>1, <1>2, GraphUntouched DEF Call, Goto, Ok, spanVars
  <1>3. ASSUME NEW g \in Goroutines, NEW c \in Spans, BeginReport(g, c) PROVE GraphInv'
    <2> DEFINE e == Event(c, "entry", ids + 1, {opID[cur[g]]}, {})
    <2>1. PICK sent \in BOOLEAN :
            /\ Report(c, e, sent)
            /\ status' = [status EXCEPT ![c] = IF sampled /\ ~sent THEN "null" ELSE "live"]
      BY <1>3 DEF BeginReport, NewSpan
    <2>2. /\ ids' = ids + 1 /\ opID[cur[g]] \in Ids /\ status[c] = "free"
          /\ pc' = [pc EXCEPT ![g] = "idle"]
          /\ UNCHANGED <<sampled, cur, ev, childEdges>>
      BY <1>1, <1>3 DEF BeginReport, NewSpan, Goto, TypeInv, IdTypes
    <2>3. /\ e \in EventType' /\ e.label = "entry" /\ e.span = c
          /\ e.edges \subseteq Known(Len(prepared))
      BY <1>1, <2>2 DEF Event, EventType, Ids, Labels
    <2> HIDE DEF e
    <2>4. /\ Quiet' /\ EventGraph'
          /\ Known(Len(prepared)) \subseteq Known(Len(prepared))'
          /\ \A r \in Spans : Entered(r, Len(prepared)) => Entered(r, Len(prepared))'
          /\ \A r \in Spans : opID'[r] \in Known(Len(prepared))'
          /\ sampled /\ sent => Entered(c, Len(prepared))'
      BY <2>1, <2>2, <2>3, GraphReport
    <2>5. Contexts' /\ Composed'
      BY <1>1, <2>2, <2>4 DEF GraphInv, Contexts, Composed
    <2>6. Alive'
      BY <1>1, <2>1, <2>2, <2>4 DEF GraphInv, Alive, TypeInv, SpanTypes, NoSpan
    <2> QED
      BY <2>4, <2>5, <2>6 DEF GraphInv
  <1>4. ASSUME NEW g \in Goroutines, InfoCompose(g) PROVE GraphInv'
    <2>1. /\ pc[g] = "info" /\ pc' = [pc EXCEPT ![g] = "infosend"]
          /\ UNCHANGED <<sampled, prepared, opID, status, cur, childEdges>>
      BY <1>4 DEF InfoCompose, Goto, spanVars, histVars
    <2>2. /\ ev'[g].edges = {opID[cur[g]]} /\ ev'[g].span = cur[g] /\ ev'[g].label = "info"
          /\ \A h \in Goroutines \ {g} : ev'[h] = ev[h]
      BY <1>4 DEF InfoCompose, Event, TypeInv, IdTypes
    <2> QED
      BY <1>1, <2>1, <2>2, GraphUntouched DEF NoSpan
  <1>5. ASSUME NEW g \in Goroutines, InfoSend(g) \/ ExitSend(g) PROVE GraphInv'
    <2>1. PICK sent \in BOOLEAN : Report(cur[g], ev[g], sent)
      BY <1>5 DEF InfoSend, ExitSend
    <2>2. /\ pc[g] \in {"infosend", "exitsend"} /\ pc'[g] \in {"idle", "join"}
          /\ \A h \in Goroutines \ {g} : pc'[h] = pc[h]
          /\ UNCHANGED <<sampled, cur, ev, ids, status>>
          /\ \A s \in Spans : childEdges'[s] \subseteq childEdges[s]
      BY <1>1, <1>5 DEF InfoSend, ExitSend, Goto, TypeInv, IdTypes
    <2>3. /\ ev[g] \in EventType' /\ ev[g].span = cur[g] /\ ev[g].label # "entry"
          /\ ev[g].edges \subseteq Known(Len(prepared))
      BY <1>1, <2>2 DEF EventType, Ids, GraphInv, Composed
    <2>4. sampled => Entered(cur[g], Len(prepared))
      BY <1>1, <2>2 DEF GraphInv, Alive, NoSpan
    <2>5. /\ Quiet' /\ EventGraph'
          /\ Known(Len(prepared)) \subseteq Known(Len(prepared))'
          /\ \A r \in Spans : Entered(r, Len(prepared)) => Entered(r, Len(prepared))'
          /\ \A r \in Spans : opID'[r] \in Known(Len(prepared))'
      BY <1>1, <2>1, <2>2, <2>3, <2>4, GraphReport
    <2>6. Contexts' /\ Composed'
      BY <1>1, <2>2, <2>5 DEF GraphInv, Contexts, Composed
    <2>7. Alive'
      BY <1>1, <2>2, <2>5 DEF GraphInv, Alive, NoSpan
    <2> QED
      BY <2>5, <2>6, <2>7 DEF GraphInv
  <1>6. ASSUME NEW g \in Goroutines, AppendArgs(g) \/ SetName(g) \/ EndLock(g) \/ Join(g) PROVE GraphInv'
    <2>1. /\ pc[g] \notin NoSpan /\ pc'[g] \in {"idle", "edge", "exit"}
          /\ UNCHANGED <<sampled, prepared, opID, status, cur, ev, childEdges>>
          /\ \A h \in Goroutines \ {g} : pc'[h] = pc[h]
      BY <1>1, <1>6 DEF AppendArgs, SetName, EndLock, Join, Goto, histVars, NoSpan
    <2> QED
      BY <1>1, <2>1, GraphUntouched DEF NoSpan
  <1>7. ASSUME NEW g \in Goroutines, ExitMetadata(g) \/ MakeExitEvent(g) \/ TellExitEvent(g)
        PROVE  GraphInv'
    <2>1. /\ UNCHANGED <<sampled, prepared, opID, status, cur, ev, childEdges>>
          /\ pc'[g] \in NoSpan /\ \A h \in Goroutines \ {g} : pc'[h] = pc[h]
      BY <1>1, <1>7 DEF ExitMetadata, MakeExitEvent, TellExitEvent, Goto, spanVars, histVars, NoSpan
    <2> QED
      BY <1>1, <2>1, GraphUntouched DEF NoSpan
  <1>8. ASSUME NEW g \in Goroutines, Compose(g) PROVE GraphInv'
    <2>1. /\ pc[g] = "exit" /\ pc' = [pc EXCEPT ![g] = "exitsend"]
          /\ UNCHANGED <<sampled, prepared, opID, status, cur, childEdges>>
      BY <1>8 DEF Compose, Goto, spanVars
    <2>2. /\ ev'[g].edges = childEdges[cur[g]] \cup {opID[cur[g]]}
          /\ ev'[g].span = cur[g] /\ ev'[g].label = "exit"
          /\ \A h \in Goroutines \ {g} : ev'[h] = ev[h]
      BY <1>8 DEF Compose, Event, TypeInv, IdTypes
    <2> QED
      BY <1>1, <2>1, <2>2, GraphUntouched DEF NoSpan
  <1>9. ASSUME NEW g \in Goroutines, AddChildEdge(g) PROVE GraphInv'
    <2>1. /\ pc' = [pc EXCEPT ![g] = "idle"]
          /\ UNCHANGED <<sampled, prepared, opID, status, cur, ev>>
          /\ childEdges' = [childEdges EXCEPT ![parent[cur[g]]] = @ \cup {opID[cur[g]]}]
      BY <1>9 DEF AddChildEdge, Goto
    <2>2. \A s \in Spans : childEdges'[s] \subseteq Known(Len(prepared))
      BY <1>1, <2>1 DEF TypeInv, IdTypes
    <2> QED
      BY <1>1, <2>1, <2>2, GraphUntouched DEF NoSpan
  <1>10. CASE UNCHANGED vars
    BY <1>10 DEF vars, spanVars, callVars, histVars, GraphInv, Contexts, Composed, Alive, Quiet,
       EventGraph, Known, Entered
  <1>11. ASSUME NEW g \in Goroutines, Begin(g) PROVE GraphInv'
    <2>1. ASSUME NEW s \in Spans, BeginSpan(g, s) \/ Info(g, s) \/ AddEndArgs(g, s)
                                    \/ SetTransactionName(g, s) \/ End(g, s)
          PROVE  GraphInv'
      BY <1>2, <2>1 DEF BeginSpan, Info, AddEndArgs, SetTransactionName, End
    <2> QED
      BY <1>7, <1>11, <2>1 DEF Begin
  <1>12. ASSUME NEW g \in Goroutines, Step(g) PROVE GraphInv'
    BY <1>3, <1>4, <1>5, <1>6, <1>7, <1>8, <1>9, <1>12 DEF Step
  <1> QED
    BY <1>10, <1>11, <1>12 DEF Next

\* An edge leads to an event prepared before, and no span reports without its entry.
THEOREM SpansEventGraph == Spec => []EventGraph
  <1>1. GraphInv => EventGraph
    BY DEF GraphInv
  <1> QED
    BY <1>1, TypeInvInit, TypeInvNext, GraphInvInit, GraphInvNext, PTL DEF Spec

-----------------------------------------------------------------------------
(* Nothing given to a span before its end is lost. *)

GivenType == [edges : SUBSET Nat, args : SUBSET Goroutines, exit : SUBSET Nat, named : BOOLEAN]

GivenTypes == given \in [Spans -> GivenType] /\ due \in [Spans -> SUBSET GivenType]

\* What was given waits in a span until it has ended; what was due is never taken back.
Waiting ==
  /\ \A s \in Spans : ~ended[s] => /\ given[s].edges \subseteq childEdges[s]
                                   /\ given[s].args \subseteq endArgs[s]
  /\ \A s \in Spans : \A d \in due[s] : d.edges \subseteq given[s].edges /\ d.args \subseteq given[s].args
\* The id that was noted stays the one of the exit event, and a name stays set.
Lasting ==
  \A s \in Spans : \A d \in due[s] \cup {given[s]} :
    /\ d.exit # {} => s = Trace /\ exitEvent # 0 /\ d.exit = {exitEvent}
    /\ s = Trace /\ d.named => name[Trace] # None
\* The spans of a trace share one transactionContext.
OneName == \A s \in Spans : status[s] # "free" => txCtx[s] = Trace
\* Who is in End has noted what is due, and the trace is not measured before.
Noted ==
  /\ \A g \in Goroutines : pc[g] \in {"end"} \cup InEnd => due[cur[g]] # {}
  /\ due[Trace] = {} => Len(recorded) = 0
Carries(e, d) ==
  /\ d.edges \subseteq e.edges /\ d.args \subseteq e.args
  /\ d.exit \subseteq {e.id}
\* The first exit event carries what is due, when it is made and when it was sent.
OnItsWay ==
  \A g \in Goroutines : pc[g] = "exitsend" /\ ~ended[cur[g]] => \A d \in due[cur[g]] : Carries(ev[g], d)
Delivered ==
  \A s \in Spans : \A d \in due[s] :
    ended[s] /\ sampled => \E i \in ExitsOf(s) : Carries(prepared[i], d)
MeasuredName == \A d \in due[Trace] : d.named => \A i \in 1..Len(recorded) : recorded[i] # None

LossInv == GivenTypes /\ Waiting /\ Lasting /\ OneName /\ Noted /\ OnItsWay /\ Delivered /\ MeasuredName

\* An id is noted only while nobody is about to put another event in its place, which
\* nobody begins to do once there is one.
Settled == \A s \in Spans : \A d \in due[s] \cup {given[s]} : d.exit # {} => ~Making
Told == \A g \in Goroutines : pc[g] = "tell" => exitEvent # 0

ExitInv == Settled /\ Told

LEMMA LossInvInit == Init => LossInv
  <1> SUFFICES ASSUME Init PROVE LossInv
    OBVIOUS
  <1> USE SpansAssumption
  <1>1. Nothing \in GivenType /\ Nothing.edges = {} /\ Nothing.args = {} /\ Nothing.exit = {} /\ ~Nothing.named
    BY DEF Nothing, GivenType
  <1>2. /\ given = [s \in Spans |-> Nothing] /\ due = [s \in Spans |-> {}] /\ Len(recorded) = 0
        /\ \A s \in Spans : status[s] # "free" => txCtx[s] = Trace
        /\ \A g \in Goroutines : pc[g] = "idle"
    BY DEF Init
  <1> HIDE DEF Nothing
  <1>3. GivenTypes /\ Waiting /\ Lasting
    BY <1>1, <1>2 DEF GivenTypes, Waiting, Lasting
  <1>4. OneName /\ Noted /\ OnItsWay /\ Delivered /\ MeasuredName
    BY <1>2 DEF OneName, Noted, OnItsWay, Delivered, MeasuredName, InCall, InEnd
  <1> QED
    BY <1>3, <1>4 DEF LossInv

\* A step of goroutine g that gives, takes and reports nothing.
LEMMA LossUntouched ==
  ASSUME TypeInv, LossInv, NEW g \in Goroutines,
         UNCHANGED <<sampled, ended, recorded, prepared, status, txCtx, name, exitEvent, childEdges,
                     endArgs, given, due>>,
         \A h \in Goroutines \ {g} : pc'[h] = pc[h] /\ cur'[h] = cur[h] /\ ev'[h] = ev[h],
         pc'[g] \in {"end"} \cup InEnd => due[cur'[g]] # {},
         pc'[g] # "exitsend"
  PROVE  LossInv'
  <1>1. GivenTypes' /\ Waiting' /\ Lasting' /\ OneName' /\ MeasuredName'
    BY DEF LossInv, GivenTypes, Waiting, Lasting, OneName, MeasuredName
  <1>2. Noted'
    BY DEF LossInv, Noted
  <1>3. OnItsWay'
    BY DEF LossInv, OnItsWay
  <1>4. Delivered'
    BY DEF LossInv, Delivered, ExitsOf
  <1> QED
    BY <1>1, <1>2, <1>3, <1>4 DEF LossInv

\* An exit event stays one.
LEMMA ExitsStay ==
  ASSUME TypeInv, NEW r \in Spans, NEW e \in EventType', NEW sent \in BOOLEAN, Report(r, e, sent),
         NEW s \in Spans, NEW i \in ExitsOf(s)
  PROVE  i \in ExitsOf(s)' /\ prepared'[i] = prepared[i]
  <1>1. CASE ~sampled
    BY <1>1 DEF Report, ExitsOf
  <1>2. CASE sampled
    <2>1. i \in 1..Len(prepared) /\ prepared'[i] = prepared[i]
      BY <1>2, Appended DEF ExitsOf
    <2>2. i \in 1..Len(prepared')
      BY <1>2, <2>1, Appended
    <2> QED
      BY <2>1, <2>2 DEF ExitsOf
  <1> QED
    BY <1>1, <1>2

\* End notes what was given so far, unless an earlier call has.
LEMMA EndLoss ==
  ASSUME TypeInv, LossInv, NEW g \in Goroutines, NEW s \in Spans, End(g, s)
  PROVE  LossInv'
  <1>1. /\ ~ended[s] /\ pc' = [pc EXCEPT ![g] = "end"] /\ cur' = [cur EXCEPT ![g] = s]
        /\ due' = IF due[s] = {} THEN [due EXCEPT ![s] = {given[s]}] ELSE due
        /\ UNCHANGED <<sampled, ended, recorded, prepared, status, txCtx, name, exitEvent, childEdges,
                       endArgs, given, ev>>
    BY DEF End, Call, Ok, Goto, spanVars
  <1>2. given \in [Spans -> GivenType] /\ due \in [Spans -> SUBSET GivenType]
        /\ pc \in [Goroutines -> InCall \cup InEnd]
        /\ cur \in [Goroutines -> Spans]
    BY DEF LossInv, GivenTypes, TypeInv, CallTypes
  <1>3. /\ \A r \in Spans : r # s => due'[r] = due[r]
        /\ due'[s] = IF due[s] = {} THEN {given[s]} ELSE due[s]
        /\ due'[s] # {}
    BY <1>1, <1>2
  <1>4. GivenTypes'
    BY <1>1, <1>2 DEF GivenTypes
  <1>5. Waiting' /\ Lasting' /\ OneName'
    <2> HIDE DEF GivenType
    <2>1. \A r \in Spans : \A d \in due'[r] : d \in due[r] \/ d = given[r]
      BY <1>3
    <2>2. Waiting'
      BY <1>1, <2>1 DEF LossInv, Waiting
    <2>3. Lasting'
      BY <1>1, <2>1 DEF LossInv, Lasting
    <2> QED
      BY <1>1, <2>2, <2>3 DEF LossInv, OneName
  <1>6. Noted'
    BY <1>1, <1>2, <1>3, SpansAssumption DEF LossInv, Noted
  <1>7. ASSUME NEW h \in Goroutines, pc'[h] = "exitsend", ~ended'[cur'[h]], NEW d \in due'[cur'[h]]
        PROVE  Carries(ev'[h], d)
    <2>1. h # g /\ pc[h] = "exitsend" /\ cur'[h] = cur[h]
      BY <1>1, <1>2, <1>7
    <2>2. due[cur[h]] # {}
      BY <2>1 DEF LossInv, Noted, InCall, InEnd
    <2>3. d \in due[cur[h]]
      BY <1>2, <1>3, <1>7, <2>1, <2>2
    <2> QED
      BY <1>1, <1>7, <2>1, <2>3 DEF LossInv, OnItsWay
  <1>8. OnItsWay'
    BY <1>7 DEF OnItsWay
  <1>9. Delivered'
    BY <1>1, <1>3 DEF LossInv, Delivered, ExitsOf
  <1>10. MeasuredName'
    <2>1. CASE due[Trace] = {}
      BY <1>1, <2>1 DEF LossInv, Noted, MeasuredName
    <2>2. CASE due[Trace] # {}
      BY <1>1, <1>3, <2>2, SpansAssumption DEF LossInv, MeasuredName
    <2> QED
      BY <2>1, <2>2
  <1> QED
    BY <1>4, <1>5, <1>6, <1>8, <1>9, <1>10 DEF LossInv

\* A report of goroutine g that is no exit event.
LEMMA ReportLoss ==
  ASSUME TypeInv, LossInv, NEW g \in Goroutines, NEW s \in Spans, NEW e \in EventType',
         NEW sent \in BOOLEAN, Report(s, e, sent), pc' = [pc EXCEPT ![g] = "idle"],
         UNCHANGED <<sampled, ended, recorded, name, exitEvent, childEdges, endArgs, given, due, cur, ev>>,
         OneName'
  PROVE  LossInv'
  <1>1. pc \in [Goroutines -> InCall \cup InEnd]
    BY DEF TypeInv, CallTypes
  <1>2. GivenTypes' /\ Waiting' /\ Lasting' /\ MeasuredName'
    BY DEF LossInv, GivenTypes, Waiting, Lasting, MeasuredName
  <1>3. Noted'
    BY <1>1 DEF LossInv, Noted, InCall, InEnd
  <1>4. OnItsWay'
    BY <1>1 DEF LossInv, OnItsWay
  <1>5. ASSUME NEW r \in Spans, NEW d \in due'[r], ended'[r], sampled'
        PROVE  \E i \in ExitsOf(r)' : Carries(prepared'[i], d)
    <2>1. PICK i \in ExitsOf(r) : Carries(prepared[i], d)
      BY <1>5 DEF LossInv, Delivered
    <2>2. i \in ExitsOf(r)' /\ prepared'[i] = prepared[i]
      BY ExitsStay
    <2> QED
      BY <2>1, <2>2
  <1>6. Delivered'
    BY <1>5 DEF Delivered
  <1> QED
    BY <1>2, <1>3, <1>4, <1>6 DEF LossInv

LEMMA BeginLoss ==
  ASSUME TypeInv, GraphInv, LossInv, NEW g \in Goroutines, NEW c \in Spans, BeginReport(g, c)
  PROVE  LossInv'
  <1> DEFINE e == Event(c, "entry", ids + 1, {opID[cur[g]]}, {})
  <1>1. PICK sent \in BOOLEAN :
          /\ Report(c, e, sent)
          /\ status' = [status EXCEPT ![c] = IF sampled /\ ~sent THEN "null" ELSE "live"]
    BY DEF BeginReport, NewSpan
  <1>2. /\ ids' = ids + 1 /\ opID[cur[g]] \in Ids /\ ids \in Nat /\ cur[g] \in Spans
        /\ pc[g] = "begin" /\ pc' = [pc EXCEPT ![g] = "idle"]
        /\ txCtx' = [txCtx EXCEPT ![c] = txCtx[cur[g]]]
        /\ UNCHANGED <<sampled, ended, recorded, name, exitEvent, childEdges, endArgs, given, due, cur, ev>>
    BY DEF BeginReport, NewSpan, Goto, TypeInv, IdTypes, CallTypes
  <1>3. e \in EventType'
    BY <1>2 DEF Event, EventType, Ids, Labels
  <1>4. OneName'
    <2>1. status[cur[g]] = "live"
      BY <1>2 DEF GraphInv, Alive, NoSpan
    <2>2. txCtx[cur[g]] = Trace
      BY <1>2, <2>1 DEF LossInv, OneName
    <2> QED
      BY <1>1, <1>2, <2>2 DEF LossInv, OneName, TypeInv, SpanTypes
  <1> HIDE DEF e
  <1> QED
    BY <1>1, <1>2, <1>3, <1>4, ReportLoss

LEMMA InfoLoss ==
  ASSUME TypeInv, LossInv, NEW g \in Goroutines, InfoSend(g)
  PROVE  LossInv'
  <1>1. PICK sent \in BOOLEAN : Report(cur[g], ev[g], sent)
    BY DEF InfoSend
  <1>2. /\ cur[g] \in Spans /\ ids' = ids /\ pc' = [pc EXCEPT ![g] = "idle"]
        /\ UNCHANGED <<sampled, ended, recorded, name, exitEvent, childEdges, endArgs, given, due,
                       cur, ev, status, txCtx>>
    BY DEF InfoSend, Goto, TypeInv, CallTypes
  <1>3. ev[g] \in EventType'
    BY <1>2 DEF TypeInv, IdTypes, EventType, Ids
  <1>4. OneName'
    BY <1>2 DEF LossInv, OneName
  <1> QED
    BY <1>1, <1>2, <1>3, <1>4, ReportLoss

\* A step of goroutine g, outside of an exit, that gives something to spans.
LEMMA GiveLoss ==
  ASSUME TypeInv, LossInv, NEW g \in Goroutines,
         UNCHANGED <<sampled, ended, recorded, prepared, status, txCtx, due, cur, ev>>,
         \E l \in {"idle", "tell"} : pc' = [pc EXCEPT ![g] = l],
         given' \in [Spans -> GivenType],
         \A s \in Spans : given[s].edges \subseteq given'[s].edges /\ given[s].args \subseteq given'[s].args,
         \A s \in Spans : ~ended[s] => /\ given'[s].edges \subseteq childEdges'[s]
                                       /\ given'[s].args \subseteq endArgs'[s],
         exitEvent' = exitEvent \/ (\A s \in Spans : \A d \in due[s] \cup {given[s]} : d.exit = {}),
         name'[Trace] = name[Trace] \/ name'[Trace] # None,
         \A s \in Spans : given'[s].exit = given[s].exit
                          \/ (s = Trace /\ exitEvent' # 0 /\ given'[s].exit = {exitEvent'}),
         given'[Trace].named = given[Trace].named \/ name'[Trace] # None
  PROVE  LossInv'
  <1>1. pc \in [Goroutines -> InCall \cup InEnd]
    BY DEF TypeInv, CallTypes
  <1>2. GivenTypes' /\ OneName' /\ MeasuredName' /\ Delivered'
    BY DEF LossInv, GivenTypes, OneName, MeasuredName, Delivered, ExitsOf
  <1>3. Waiting'
    BY DEF LossInv, Waiting
  <1>4. Lasting'
    <2> SUFFICES ASSUME NEW s \in Spans, NEW d \in due'[s] \cup {given'[s]}
                 PROVE  /\ d.exit # {} => s = Trace /\ exitEvent' # 0 /\ d.exit = {exitEvent'}
                        /\ s = Trace /\ d.named => name'[Trace] # None
      BY DEF Lasting
    <2>1. CASE d \in due[s]
      BY <2>1 DEF LossInv, Lasting
    <2>2. CASE d = given'[s]
      <3>1. /\ given[s].exit # {} => s = Trace /\ exitEvent # 0 /\ given[s].exit = {exitEvent}
            /\ s = Trace /\ given[s].named => name[Trace] # None
        BY DEF LossInv, Lasting
      <3> QED
        BY <2>2, <3>1
    <2> QED
      BY <2>1, <2>2
  <1>5. Noted'
    BY <1>1 DEF LossInv, Noted, InCall, InEnd
  <1>6. OnItsWay'
    BY <1>1 DEF LossInv, OnItsWay
  <1> QED
    BY <1>2, <1>3, <1>4, <1>5, <1>6 DEF LossInv

\* What is given to one span.
LEMMA GivenTo ==
  ASSUME given \in [Spans -> GivenType], NEW r \in Spans, NEW v \in GivenType, given' = [given EXCEPT ![r] = v]
  PROVE  given' \in [Spans -> GivenType] /\ \A s \in Spans : given'[s] = IF s = r THEN v ELSE given[s]
  OBVIOUS

LEMMA GivesLoss ==
  ASSUME TypeInv, GraphInv, LossInv, ExitInv, NEW g \in Goroutines,
         AppendArgs(g) \/ SetName(g) \/ MakeExitEvent(g) \/ TellExitEvent(g) \/ AddChildEdge(g)
  PROVE  LossInv'
  <1> USE SpansAssumption
  <1>1. /\ given \in [Spans -> GivenType] /\ cur[g] \in Spans /\ ids \in Nat /\ exitEvent \in Ids
        /\ opID[cur[g]] \in Nat /\ txCtx[cur[g]] \in Spans
        /\ parent[cur[g]] \in Spans \cup {None}
        /\ name \in [Spans -> Goroutines \cup {None}]
        /\ childEdges \in [Spans -> SUBSET Ids] /\ endArgs \in [Spans -> SUBSET Goroutines]
    BY DEF LossInv, GivenTypes, TypeInv, CallTypes, IdTypes, SpanTypes, Ids
  <1>2. \A s \in Spans : ~ended[s] => given[s].edges \subseteq childEdges[s] /\ given[s].args \subseteq endArgs[s]
    BY DEF LossInv, Waiting
  <1>3. CASE AppendArgs(g)
    <2>1. /\ given' = [given EXCEPT ![cur[g]].args = @ \cup {g}]
          /\ endArgs' = [endArgs EXCEPT ![cur[g]] = @ \cup {g}]
          /\ pc' = [pc EXCEPT ![g] = "idle"]
          /\ UNCHANGED <<sampled, ended, recorded, prepared, status, txCtx, due, cur, ev, exitEvent,
                         name, childEdges>>
      BY <1>3 DEF AppendArgs, Goto
    <2> DEFINE v == [given[cur[g]] EXCEPT !.args = given[cur[g]].args \cup {g}]
    <2>a. /\ v \in GivenType /\ v.args = given[cur[g]].args \cup {g}
          /\ v.edges = given[cur[g]].edges /\ v.exit = given[cur[g]].exit /\ v.named = given[cur[g]].named
      <3>1. given[cur[g]] \in GivenType
        BY <1>1
      <3> QED
        BY <3>1 DEF GivenType
    <2>b. given' = [given EXCEPT ![cur[g]] = v]
      BY <2>1
    <2> HIDE DEF v
    <2>2. given' \in [Spans -> GivenType] /\ \A s \in Spans : given'[s] = IF s = cur[g] THEN v ELSE given[s]
      BY <1>1, <2>a, <2>b, GivenTo
    <2>3. \A s \in Spans : /\ given'[s].edges = given[s].edges /\ given'[s].exit = given[s].exit
                           /\ given'[s].named = given[s].named
                           /\ given'[s].args = IF s = cur[g] THEN given[s].args \cup {g} ELSE given[s].args
      BY <2>a, <2>2
    <2>4. \A s \in Spans : endArgs'[s] = IF s = cur[g] THEN endArgs[s] \cup {g} ELSE endArgs[s]
      BY <1>1, <2>1
    <2>5. \A s \in Spans : ~ended[s] => /\ given'[s].edges \subseteq childEdges'[s]
                                        /\ given'[s].args \subseteq endArgs'[s]
      BY <1>2, <2>1, <2>3, <2>4
    <2> QED
      <3>1. \A s \in Spans : given[s].edges \subseteq given'[s].edges /\ given[s].args \subseteq given'[s].args
        BY <2>3
      <3>2. given'[Trace].named = given[Trace].named /\ \A s \in Spans : given'[s].exit = given[s].exit
        BY <2>3
      <3> QED
        BY <2>1, <2>2, <2>5, <3>1, <3>2, GiveLoss
  <1>4. CASE SetName(g)
    <2>1. /\ given' = [given EXCEPT ![Trace].named = TRUE]
          /\ name' = [name EXCEPT ![txCtx[cur[g]]] = g]
          /\ pc[g] = "name" /\ pc' = [pc EXCEPT ![g] = "idle"]
          /\ UNCHANGED <<sampled, ended, recorded, prepared, status, txCtx, due, cur, ev, exitEvent,
                         childEdges, endArgs>>
      BY <1>4 DEF SetName, Goto
    <2> DEFINE v == [given[Trace] EXCEPT !.named = TRUE]
    <2>a. /\ v \in GivenType /\ v.args = given[Trace].args
          /\ v.edges = given[Trace].edges /\ v.exit = given[Trace].exit
      <3>1. given[Trace] \in GivenType
        BY <1>1
      <3> QED
        BY <3>1 DEF GivenType
    <2>b. given' = [given EXCEPT ![Trace] = v]
      BY <2>1
    <2> HIDE DEF v
    <2>2. given' \in [Spans -> GivenType] /\ \A s \in Spans : given'[s] = IF s = Trace THEN v ELSE given[s]
      BY <1>1, <2>a, <2>b, GivenTo
    <2>3. \A s \in Spans : /\ given'[s].edges = given[s].edges /\ given'[s].exit = given[s].exit
                           /\ given'[s].args = given[s].args
      BY <2>a, <2>2
    <2>4. txCtx[cur[g]] = Trace
      BY <1>1, <2>1 DEF GraphInv, Alive, NoSpan, LossInv, OneName
    <2>5. name'[Trace] # None
      BY <1>1, <2>1, <2>4
    <2> QED
      BY <1>2, <2>1, <2>2, <2>3, <2>5, GiveLoss
  <1>5. CASE MakeExitEvent(g)
    <2>1. /\ pc[g] = "make" /\ pc' = [pc EXCEPT ![g] = "tell"]
          /\ UNCHANGED <<sampled, ended, recorded, prepared, status, txCtx, given, due, cur, ev, name,
                         childEdges, endArgs>>
      BY <1>5 DEF MakeExitEvent, Goto, histVars
    <2>2. \A s \in Spans : \A d \in due[s] \cup {given[s]} : d.exit = {}
      BY <2>1 DEF ExitInv, Settled, Making
    <2> QED
      BY <1>1, <1>2, <2>1, <2>2, GiveLoss
  <1>7. CASE TellExitEvent(g)
    <2>1. /\ pc[g] = "tell" /\ pc' = [pc EXCEPT ![g] = "idle"]
          /\ given' = IF Making THEN given
                      ELSE [given EXCEPT ![Trace].exit = given[Trace].exit \cup {exitEvent}]
          /\ UNCHANGED <<sampled, ended, recorded, prepared, status, txCtx, due, cur, ev, name,
                         exitEvent, childEdges, endArgs>>
      BY <1>7 DEF TellExitEvent, Goto, spanVars
    <2>2. exitEvent # 0 /\ exitEvent \in Nat
      BY <1>1, <2>1 DEF Ids, ExitInv, Told
    <2>3. CASE Making
      BY <1>1, <1>2, <2>1, <2>3, GiveLoss
    <2>4. CASE ~Making
      <3> DEFINE v == [given[Trace] EXCEPT !.exit = given[Trace].exit \cup {exitEvent}]
      <3>1. given[Trace] \in GivenType
        BY <1>1
      <3>2. given[Trace].exit = {} \/ given[Trace].exit = {exitEvent}
        BY DEF LossInv, Lasting
      <3>3. /\ v \in GivenType /\ v.exit = {exitEvent} /\ v.args = given[Trace].args
            /\ v.edges = given[Trace].edges /\ v.named = given[Trace].named
        BY <2>2, <3>1, <3>2 DEF GivenType
      <3>4. given' = [given EXCEPT ![Trace] = v]
        BY <2>1, <2>4
      <3> HIDE DEF v
      <3>5. given' \in [Spans -> GivenType] /\ \A s \in Spans : given'[s] = IF s = Trace THEN v ELSE given[s]
        BY <1>1, <3>3, <3>4, GivenTo
      <3>6. \A s \in Spans : /\ given'[s].edges = given[s].edges /\ given'[s].args = given[s].args
                             /\ given'[s].named = given[s].named
                             /\ given'[s].exit = IF s = Trace THEN {exitEvent} ELSE given[s].exit
        BY <3>3, <3>5
      <3> QED
        BY <1>2, <2>1, <2>2, <3>5, <3>6, GiveLoss
    <2> QED
      BY <2>3, <2>4
  <1>6. CASE AddChildEdge(g)
    <2> DEFINE p == parent[cur[g]]
               x == opID[cur[g]]
    <2>1. /\ given' = [given EXCEPT ![p].edges = @ \cup {x}]
          /\ childEdges' = [childEdges EXCEPT ![p] = @ \cup {x}]
          /\ pc' = [pc EXCEPT ![g] = "idle"]
          /\ UNCHANGED <<sampled, ended, recorded, prepared, status, txCtx, due, cur, ev, exitEvent,
                         name, endArgs>>
      BY <1>6 DEF AddChildEdge, Goto
    <2>2. x \in Nat
      BY <1>1
    <2> HIDE DEF p, x
    <2>3. CASE p \in Spans
      <3> DEFINE v == [given[p] EXCEPT !.edges = given[p].edges \cup {x}]
      <3>1. /\ v \in GivenType /\ v.edges = given[p].edges \cup {x} /\ v.args = given[p].args
            /\ v.exit = given[p].exit /\ v.named = given[p].named
        <4>1. given[p] \in GivenType
          BY <1>1, <2>3
        <4> QED
          BY <2>2, <4>1 DEF GivenType
      <3>2. given' = [given EXCEPT ![p] = v]
        BY <2>1
      <3> HIDE DEF v
      <3>3. given' \in [Spans -> GivenType] /\ \A s \in Spans : given'[s] = IF s = p THEN v ELSE given[s]
        BY <1>1, <2>3, <3>1, <3>2, GivenTo
      <3>4. \A s \in Spans : /\ given'[s].exit = given[s].exit /\ given'[s].args = given[s].args
                             /\ given'[s].named = given[s].named
                             /\ given'[s].edges = IF s = p THEN given[s].edges \cup {x} ELSE given[s].edges
        BY <3>1, <3>3
      <3>5. \A s \in Spans : childEdges'[s] = IF s = p THEN childEdges[s] \cup {x} ELSE childEdges[s]
        BY <1>1, <2>1
      <3>6. \A s \in Spans : ~ended[s] => /\ given'[s].edges \subseteq childEdges'[s]
                                          /\ given'[s].args \subseteq endArgs'[s]
        BY <1>2, <2>1, <3>4, <3>5
      <3> QED
        <4>1. \A s \in Spans : given[s].edges \subseteq given'[s].edges /\ given[s].args \subseteq given'[s].args
          BY <3>4
        <4>2. given'[Trace].named = given[Trace].named /\ \A s \in Spans : given'[s].exit = given[s].exit
          BY <3>4
        <4> QED
          BY <2>1, <3>3, <3>6, <4>1, <4>2, GiveLoss
    <2>4. CASE p \notin Spans
      <3>1. given' = given /\ childEdges' = childEdges
        BY <1>1, <2>1, <2>4
      <3> QED
        BY <1>1, <1>2, <2>1, <3>1, GiveLoss
    <2> QED
      BY <2>3, <2>4
  <1> QED
    BY <1>3, <1>4, <1>5, <1>6, <1>7

\* The exit event takes along what was given, and the measurement the name.
LEMMA ComposeLoss ==
  ASSUME TypeInv, TraceInv, LossInv, NEW g \in Goroutines, Compose(g)
  PROVE  LossInv'
  <1> USE SpansAssumption
  <1> DEFINE s == cur[g]
             id == IF s = Trace /\ exitEvent # 0 THEN exitEvent ELSE ids + 1
  <1>1. /\ pc[g] = "exit" /\ pc' = [pc EXCEPT ![g] = "exitsend"]
        /\ recorded' = Recorded(s)
        /\ ev' = [ev EXCEPT ![g] = Event(s, "exit", id, childEdges[s] \cup {opID[s]}, endArgs[s])]
        /\ UNCHANGED <<sampled, ended, prepared, status, txCtx, name, exitEvent, childEdges, endArgs,
                       given, due, cur>>
    BY DEF Compose, Goto, spanVars
  <1>2. /\ pc \in [Goroutines -> InCall \cup InEnd]
        /\ s \in Spans /\ ev \in [Goroutines -> EventType]
    BY DEF TypeInv, CallTypes, IdTypes
  <1>3. /\ ev'[g].edges = childEdges[s] \cup {opID[s]} /\ ev'[g].args = endArgs[s] /\ ev'[g].id = id
        /\ \A h \in Goroutines \ {g} : ev'[h] = ev[h]
    BY <1>1, <1>2 DEF Event
  <1>4. due[s] # {}
    BY <1>1, <1>2 DEF LossInv, Noted, InCall, InEnd
  <1>5. ASSUME ~ended[s], NEW d \in due[s] PROVE Carries(ev'[g], d)
    <2>1. /\ d.edges \subseteq given[s].edges /\ d.args \subseteq given[s].args
          /\ given[s].edges \subseteq childEdges[s] /\ given[s].args \subseteq endArgs[s]
      BY <1>2, <1>5 DEF LossInv, Waiting
    <2>2. d.exit # {} => s = Trace /\ exitEvent # 0 /\ d.exit = {exitEvent}
      BY <1>2, <1>5 DEF LossInv, Lasting
    <2> QED
      BY <1>3, <2>1, <2>2 DEF Carries
  <1> HIDE DEF id
  <1>6. OnItsWay'
    BY <1>1, <1>2, <1>3, <1>5 DEF LossInv, OnItsWay
  <1>7. GivenTypes' /\ Waiting' /\ Lasting' /\ OneName' /\ Delivered'
    BY <1>1 DEF LossInv, GivenTypes, Waiting, Lasting, OneName, Delivered, ExitsOf
  <1>8. Noted'
    <2>1. \A h \in Goroutines : pc'[h] \in {"end"} \cup InEnd => due'[cur'[h]] # {}
      BY <1>1, <1>2, <1>4 DEF LossInv, Noted
    <2>2. due[Trace] = {} => recorded' = recorded
      BY <1>1, <1>4 DEF Recorded
    <2> QED
      BY <1>1, <2>1, <2>2 DEF LossInv, Noted
  <1>9. MeasuredName'
    <2> SUFFICES ASSUME NEW d \in due[Trace], d.named
                 PROVE  \A i \in 1..Len(recorded') : recorded'[i] # None
      BY <1>1 DEF MeasuredName
    <2>1. \A i \in 1..Len(recorded) : recorded[i] # None
      BY DEF LossInv, MeasuredName
    <2>2. CASE recorded' = recorded
      BY <2>1, <2>2
    <2>3. CASE recorded' # recorded
      <3> DEFINE x == name[txCtx[Trace]]
      <3>1. recorded' = Append(recorded, x)
        BY <1>1, <2>3 DEF Recorded
      <3>2. txCtx[Trace] = Trace
        BY DEF TraceInv, Roots, LossInv, OneName
      <3>3. x # None /\ x \in Goroutines \cup {None} /\ recorded \in Seq(Goroutines \cup {None})
        BY <3>2 DEF LossInv, Lasting, TypeInv, SpanTypes, TraceInv, MeasuredOnce
      <3> DEFINE Names == Goroutines \cup {None}
      <3>4. x \in Names /\ recorded \in Seq(Names)
        BY <3>3
      <3> HIDE DEF x, Names
      <3>5. Len(recorded) \in Nat
        BY <3>4, LenProperties
      <3>6. /\ Len(recorded') = Len(recorded) + 1
            /\ \A i \in 1..Len(recorded) : recorded'[i] = recorded[i]
            /\ recorded'[Len(recorded) + 1] = x
        BY <3>1, <3>4, AppendProperties
      <3> QED
        BY <2>1, <3>3, <3>5, <3>6
    <2> QED
      BY <2>2, <2>3
  <1> QED
    BY <1>6, <1>7, <1>8, <1>9 DEF LossInv

\* The first exit event of a span delivers what is due; a later one takes nothing back.
LEMMA SendLoss ==
  ASSUME TypeInv, TraceInv, LossInv, NEW g \in Goroutines, ExitSend(g)
  PROVE  LossInv'
  <1> DEFINE s == cur[g]
  <1>1. PICK sent \in BOOLEAN : Report(s, ev[g], sent)
    BY DEF ExitSend
  <1>2. /\ pc[g] = "exitsend"
        /\ pc' = [pc EXCEPT ![g] = IF parent[s] = None THEN "idle" ELSE "join"]
        /\ childEdges' = [childEdges EXCEPT ![s] = {}] /\ endArgs' = [endArgs EXCEPT ![s] = {}]
        /\ ended' = [ended EXCEPT ![s] = TRUE]
        /\ UNCHANGED <<sampled, recorded, status, txCtx, name, exitEvent, given, due, cur, ev, ids>>
    BY DEF ExitSend, Goto
  <1>3. /\ s \in Spans /\ ended \in [Spans -> BOOLEAN]
        /\ pc \in [Goroutines -> InCall \cup InEnd]
        /\ childEdges \in [Spans -> SUBSET Ids] /\ endArgs \in [Spans -> SUBSET Goroutines]
    BY DEF TypeInv, CallTypes, SpanTypes, IdTypes
  <1>4. ev[g] \in EventType' /\ ev[g].label = "exit" /\ ev[g].span = s
    BY <1>2 DEF TypeInv, IdTypes, EventType, Ids, TraceInv, Sending
  <1>5. GivenTypes' /\ Lasting' /\ OneName' /\ MeasuredName'
    BY <1>2 DEF LossInv, GivenTypes, Lasting, OneName, MeasuredName
  <1>6. Waiting'
    BY <1>2, <1>3 DEF LossInv, Waiting
  <1>7. Noted'
    BY <1>2, <1>3 DEF LossInv, Noted, InCall, InEnd
  <1>8. OnItsWay'
    BY <1>2, <1>3 DEF LossInv, OnItsWay
  <1>9. ASSUME NEW r \in Spans, NEW d \in due'[r], ended'[r], sampled'
        PROVE  \E i \in ExitsOf(r)' : Carries(prepared'[i], d)
    <2>1. CASE ended[r]
      <3>1. PICK i \in ExitsOf(r) : Carries(prepared[i], d)
        BY <1>2, <1>9, <2>1 DEF LossInv, Delivered
      <3>2. i \in ExitsOf(r)' /\ prepared'[i] = prepared[i]
        BY <1>1, <1>3, <1>4, ExitsStay
      <3> QED
        BY <3>1, <3>2
    <2>2. CASE ~ended[r]
      <3>1. r = s
        BY <1>2, <1>3, <1>9, <2>2
      <3>2. Carries(ev[g], d)
        BY <1>2, <1>9, <2>2, <3>1 DEF LossInv, OnItsWay
      <3> DEFINE n == Len(prepared')
      <3> HIDE DEF s
      <3>3. /\ prepared'[n].span = s /\ prepared'[n].label = "exit"
            /\ prepared'[n].edges = ev[g].edges /\ prepared'[n].args = ev[g].args
            /\ prepared'[n].id = ev[g].id /\ n \in 1..n
        BY <1>1, <1>2, <1>3, <1>4, <1>9, Appended
      <3>4. n \in ExitsOf(r)'
        BY <3>1, <3>3 DEF ExitsOf
      <3> QED
        BY <3>2, <3>3, <3>4 DEF Carries
    <2> QED
      BY <2>1, <2>2
  <1>10. Delivered'
    BY <1>9 DEF Delivered
  <1> QED
    BY <1>5, <1>6, <1>7, <1>8, <1>10 DEF LossInv

LEMMA LossInvNext == TypeInv /\ TraceInv /\ GraphInv /\ LossInv /\ ExitInv /\ [Next]_vars => LossInv'
  <1> SUFFICES ASSUME TypeInv, TraceInv, GraphInv, LossInv, ExitInv, [Next]_vars PROVE LossInv'
    OBVIOUS
  <1>1. pc \in [Goroutines -> InCall \cup InEnd]
        /\ cur \in [Goroutines -> Spans]
    BY DEF TypeInv, CallTypes
  <1>2. ASSUME NEW g \in Goroutines, NEW s \in Spans, NEW l \in {"begin", "info", "args", "name"},
               Call(g, s, l), UNCHANGED due
        PROVE  LossInv'
    BY <1>1, <1>2, LossUntouched DEF Call, Goto, spanVars, InCall, InEnd
  <1>3. ASSUME NEW g \in Goroutines, InfoCompose(g) PROVE LossInv'
    <2>1. /\ pc' = [pc EXCEPT ![g] = "infosend"] /\ \A h \in Goroutines \ {g} : ev'[h] = ev[h]
          /\ UNCHANGED <<sampled, ended, recorded, prepared, status, txCtx, name, exitEvent, childEdges,
                         endArgs, given, due, cur>>
      BY <1>3 DEF InfoCompose, Goto, spanVars, histVars, TypeInv, IdTypes
    <2> QED
      BY <1>1, <2>1, LossUntouched DEF InCall, InEnd
  <1>4. ASSUME NEW g \in Goroutines, EndLock(g) \/ Join(g) PROVE LossInv'
    <2>1. /\ pc[g] \in {"end"} \cup InEnd
          /\ pc'[g] \in {"idle", "exit", "edge"} /\ \A h \in Goroutines \ {g} : pc'[h] = pc[h]
          /\ UNCHANGED <<sampled, ended, recorded, prepared, status, txCtx, name, exitEvent, childEdges,
                         endArgs, given, due, cur, ev>>
      BY <1>1, <1>4 DEF EndLock, Join, Goto, histVars, InCall, InEnd
    <2>2. due[cur'[g]] # {}
      BY <2>1 DEF LossInv, Noted
    <2> QED
      BY <2>1, <2>2, LossUntouched
  <1>5. CASE UNCHANGED vars
    BY <1>5 DEF vars, spanVars, callVars, histVars, LossInv, GivenTypes, Waiting, Lasting, OneName,
       Noted, OnItsWay, Delivered, MeasuredName, ExitsOf
  <1>6. ASSUME NEW g \in Goroutines, Begin(g) PROVE LossInv'
    <2>1. ASSUME NEW s \in Spans, BeginSpan(g, s) \/ Info(g, s) \/ AddEndArgs(g, s)
                                    \/ SetTransactionName(g, s)
          PROVE  LossInv'
      BY <1>2, <2>1 DEF BeginSpan, Info, AddEndArgs, SetTransactionName
    <2>2. ASSUME ExitMetadata(g) PROVE LossInv'
      BY <1>1, <2>2, LossUntouched DEF ExitMetadata, Goto, spanVars, histVars, InEnd
    <2> QED
      BY <1>6, <2>1, <2>2, EndLoss DEF Begin
  <1>7. ASSUME NEW g \in Goroutines, Step(g) PROVE LossInv'
    BY <1>3, <1>4, <1>7, BeginLoss, InfoLoss, GivesLoss, ComposeLoss, SendLoss DEF Step
  <1> QED
    BY <1>5, <1>6, <1>7 DEF Next

LEMMA ExitInvInit == Init => ExitInv
  BY DEF Init, ExitInv, Settled, Told, Making

\* A step that notes no id and neither begins nor ends a call of ExitMetadata.
LEMMA ExitUntouched ==
  ASSUME ExitInv, exitEvent' = exitEvent,
         \A g \in Goroutines : pc'[g] \in {"make", "tell"} => pc[g] = pc'[g],
         \A s \in Spans : \A d \in due'[s] \cup {given'[s]} :
           \E c \in due[s] \cup {given[s]} : c.exit = d.exit
  PROVE  ExitInv'
  <1>1. Making' => Making
    BY DEF Making
  <1>2. Settled'
    BY <1>1 DEF ExitInv, Settled
  <1>3. Told'
    BY DEF ExitInv, Told
  <1> QED
    BY <1>2, <1>3 DEF ExitInv

LEMMA ExitInvNext == TypeInv /\ LossInv /\ ExitInv /\ [Next]_vars => ExitInv'
  <1> SUFFICES ASSUME TypeInv, LossInv, ExitInv, [Next]_vars PROVE ExitInv'
    OBVIOUS
  <1> USE SpansAssumption
  <1>1. /\ pc \in [Goroutines -> InCall \cup InEnd] /\ given \in [Spans -> GivenType]
        /\ due \in [Spans -> SUBSET GivenType] /\ ids \in Nat
    BY DEF TypeInv, CallTypes, IdTypes, LossInv, GivenTypes
  <1>2. ASSUME NEW g \in Goroutines, NEW s \in Spans, NEW l \in {"begin", "info", "args", "name", "end"},
               Call(g, s, l), due' = due \/ due' = [due EXCEPT ![s] = {given[s]}]
        PROVE  ExitInv'
    <2>1. /\ exitEvent' = exitEvent /\ given' = given
          /\ \A h \in Goroutines : pc'[h] \in {"make", "tell"} => pc[h] = pc'[h]
      BY <1>1, <1>2 DEF Call, Goto, spanVars
    <2>2. \A r \in Spans : \A d \in due'[r] \cup {given'[r]} : d \in due[r] \cup {given[r]}
      BY <1>1, <1>2, <2>1
    <2> QED
      BY <2>1, <2>2, ExitUntouched
  <1>3. ASSUME NEW g \in Goroutines, (\E c \in Spans : BeginReport(g, c)) \/ InfoCompose(g) \/ InfoSend(g)
                                     \/ EndLock(g) \/ Compose(g) \/ ExitSend(g) \/ Join(g)
        PROVE  ExitInv'
    <2>1. exitEvent' = exitEvent /\ given' = given /\ due' = due
      BY <1>3 DEF BeginReport, NewSpan, InfoCompose, InfoSend, EndLock, Compose, ExitSend, Join,
                  spanVars, histVars
    <2>2. \A h \in Goroutines : pc'[h] \in {"make", "tell"} => pc[h] = pc'[h]
      BY <1>1, <1>3 DEF BeginReport, NewSpan, InfoCompose, InfoSend, EndLock, Compose, ExitSend, Join, Goto
    <2> QED
      BY <2>1, <2>2, ExitUntouched
  <1>4. ASSUME NEW g \in Goroutines, AppendArgs(g) \/ SetName(g) \/ AddChildEdge(g) PROVE ExitInv'
    <2>1. /\ exitEvent' = exitEvent /\ due' = due /\ pc' = [pc EXCEPT ![g] = "idle"]
          /\ \/ given' = [given EXCEPT ![cur[g]].args = @ \cup {g}]
             \/ given' = [given EXCEPT ![Trace].named = TRUE]
             \/ given' = [given EXCEPT ![parent[cur[g]]].edges = @ \cup {opID[cur[g]]}]
      BY <1>4 DEF AppendArgs, SetName, AddChildEdge, Goto
    <2>2. \A s \in Spans : given'[s].exit = given[s].exit
      <3>1. \A s \in Spans : given[s] \in GivenType
        BY <1>1
      <3>2. \A v \in GivenType : \A x : /\ [v EXCEPT !.args = x].exit = v.exit
                                        /\ [v EXCEPT !.edges = x].exit = v.exit
                                        /\ [v EXCEPT !.named = x].exit = v.exit
        BY DEF GivenType
      <3>3. CASE given' = [given EXCEPT ![cur[g]].args = @ \cup {g}]
        BY <1>1, <3>1, <3>2, <3>3
      <3>4. CASE given' = [given EXCEPT ![Trace].named = TRUE]
        BY <1>1, <3>1, <3>2, <3>4
      <3>5. CASE given' = [given EXCEPT ![parent[cur[g]]].edges = @ \cup {opID[cur[g]]}]
        BY <1>1, <3>1, <3>2, <3>5
      <3> QED
        BY <2>1, <3>3, <3>4, <3>5
    <2>3. \A h \in Goroutines : pc'[h] \in {"make", "tell"} => pc[h] = pc'[h]
      BY <1>1, <2>1
    <2> QED
      BY <2>1, <2>2, <2>3, ExitUntouched
  <1>5. ASSUME NEW g \in Goroutines, ExitMetadata(g) PROVE ExitInv'
    <2>1. /\ UNCHANGED <<exitEvent, given, due>>
          /\ pc' = [pc EXCEPT ![g] = IF exitEvent = 0 THEN "make" ELSE "tell"]
      BY <1>5 DEF ExitMetadata, Goto, spanVars, histVars
    <2>2. Told'
      BY <1>1, <2>1 DEF ExitInv, Told
    <2>3. Making' => Making \/ exitEvent = 0
      BY <1>1, <2>1 DEF Making
    <2>4. exitEvent = 0 => \A s \in Spans : \A d \in due[s] \cup {given[s]} : d.exit = {}
      BY DEF LossInv, Lasting
    <2>5. Settled'
      BY <2>1, <2>3, <2>4 DEF ExitInv, Settled
    <2> QED
      BY <2>2, <2>5 DEF ExitInv
  <1>6. ASSUME NEW g \in Goroutines, MakeExitEvent(g) PROVE ExitInv'
    <2>1. /\ UNCHANGED <<given, due>> /\ pc[g] = "make" /\ exitEvent' = ids + 1
      BY <1>6 DEF MakeExitEvent, histVars
    <2>2. \A s \in Spans : \A d \in due[s] \cup {given[s]} : d.exit = {}
      BY <2>1 DEF ExitInv, Settled, Making
    <2>3. Settled' /\ Told'
      BY <1>1, <2>1, <2>2 DEF Settled, Told
    <2> QED
      BY <2>3 DEF ExitInv
  <1>7. ASSUME NEW g \in Goroutines, TellExitEvent(g) PROVE ExitInv'
    <2>1. /\ UNCHANGED <<exitEvent, due>> /\ pc' = [pc EXCEPT ![g] = "idle"]
          /\ Making => given' = given
      BY <1>7 DEF TellExitEvent, Goto, spanVars
    <2>2. Told' /\ (Making' => Making)
      BY <1>1, <2>1 DEF ExitInv, Told, Making
    <2>3. Settled'
      BY <2>1, <2>2 DEF ExitInv, Settled
    <2> QED
      BY <2>2, <2>3 DEF ExitInv
  <1>8. CASE UNCHANGED vars
    BY <1>8 DEF vars, spanVars, callVars, histVars, ExitInv, Settled, Told, Making
  <1>9. ASSUME NEW g \in Goroutines, Begin(g) PROVE ExitInv'
    <2>1. ASSUME NEW s \in Spans, BeginSpan(g, s) \/ Info(g, s) \/ AddEndArgs(g, s)
                                    \/ SetTransactionName(g, s) \/ End(g, s)
          PROVE  ExitInv'
      BY <1>2, <2>1 DEF BeginSpan, Info, AddEndArgs, SetTransactionName, End
    <2> QED
      BY <1>5, <1>9, <2>1 DEF Begin
  <1>10. ASSUME NEW g \in Goroutines, Step(g) PROVE ExitInv'
    BY <1>3, <1>4, <1>6, <1>7, <1>10 DEF Step
  <1> QED
    BY <1>8, <1>9, <1>10 DEF Next

\* What calls gave before the first End of a span is in its exit event, and a name is measured.
THEOREM SpansNothingLost == Spec => []NothingLost
  <1>1. TraceInv /\ LossInv => NothingLost
    <2> SUFFICES ASSUME TraceInv, LossInv, NEW s \in Spans, NEW d \in due[s], ended[s]
                 PROVE  /\ sampled => \E i \in ExitsOf(s) :
                                        /\ d.edges \subseteq prepared[i].edges
                                        /\ d.args \subseteq prepared[i].args
                                        /\ d.exit \subseteq {prepared[i].id}
                        /\ s = Trace /\ d.named /\ enabled => recorded[1] # None
      BY DEF NothingLost
    <2>1. sampled => \E i \in ExitsOf(s) : Carries(prepared[i], d)
      BY DEF LossInv, Delivered
    <2>2. s = Trace /\ enabled => Len(recorded) = 1
      BY DEF TraceInv, MeasuredOnce, Measured
    <2>3. s = Trace /\ d.named => \A i \in 1..Len(recorded) : recorded[i] # None
      BY DEF LossInv, MeasuredName
    <2> QED
      BY <2>1, <2>2, <2>3 DEF Carries
  <1> QED
    BY <1>1, TypeInvInit, TypeInvNext, TraceInvInit, TraceInvNext, GraphInvInit, GraphInvNext,
       LossInvInit, LossInvNext, ExitInvInit, ExitInvNext, PTL DEF Spec
-----------------------------------------------------------------------------
(* Nobody waits in a circle. *)

\* The locks that a goroutine waits for where it is, and who holds them.
Awaited(g) ==
  CASE pc[g] \in {"end", "join", "edge"} -> {Wanted(g)}
    [] pc[g] = "args" -> {cur[g]}
    [] OTHER -> {}
WaitsFor(g) == {h \in Goroutines : \E s \in Awaited(g) \cap Spans : lock[s] = h}

\* In every set of goroutines somebody waits for nobody in it.
NoCircularWait ==
  \A S \in SUBSET Goroutines : S # {} => \E g \in S : WaitsFor(g) \cap S = {}

\* Parents can be ranked before their children, whoever is the parent of a span had begun,
\* and only a span with a parent joins it.
RanksSpans(rank) == \A s \in Spans : parent[s] # None => rank[parent[s]] < rank[s]
Ranked == \E rank \in [Spans -> Nat] : RanksSpans(rank)
Begun == \A s \in Spans : parent[s] # None => status[parent[s]] # "free"
Joining == \A g \in Goroutines : pc[g] \in {"join", "edge"} => parent[cur[g]] # None

FamilyInv == Ranked /\ Begun /\ Joining

LEMMA FamilyInvInit == Init => FamilyInv
  <1> SUFFICES ASSUME Init PROVE FamilyInv
    OBVIOUS
  <1>1. [s \in Spans |-> 0] \in [Spans -> Nat] /\ RanksSpans([s \in Spans |-> 0])
    BY DEF Init, RanksSpans
  <1> QED
    BY <1>1 DEF Init, FamilyInv, Ranked, Begun, Joining

\* A step that begins no span.
LEMMA FamilyUntouched ==
  ASSUME TypeInv, FamilyInv, UNCHANGED <<parent, status>>,
         \A g \in Goroutines :
           pc'[g] \in {"join", "edge"} =>
             \/ pc[g] \in {"join", "edge"} /\ cur'[g] = cur[g]
             \/ parent[cur'[g]] # None
  PROVE  FamilyInv'
  <1>1. Ranked' /\ Begun'
    BY DEF FamilyInv, Ranked, RanksSpans, Begun
  <1>2. Joining'
    BY DEF FamilyInv, Joining
  <1> QED
    BY <1>1, <1>2 DEF FamilyInv

\* The new span ranks after its parent; it is nobody's parent yet.
LEMMA FamilyGrows ==
  ASSUME TypeInv, FamilyInv, NEW g \in Goroutines, NEW c \in Spans, BeginReport(g, c),
         status[cur[g]] = "live"
  PROVE  FamilyInv'
  <1>1. /\ cur[g] \in Spans /\ status[c] = "free" /\ cur[g] # c
        /\ parent \in [Spans -> Spans \cup {None}] /\ parent' = [parent EXCEPT ![c] = cur[g]]
        /\ \A s \in Spans : status[s] # "free" => status'[s] # "free"
        /\ cur' = cur /\ pc' = [pc EXCEPT ![g] = "idle"] /\ pc[g] = "begin"
    BY DEF BeginReport, NewSpan, Goto, TypeInv, SpanTypes, CallTypes
  <1>2. \A s \in Spans : parent[s] # None => parent[s] \in Spans /\ parent[s] # c
    BY <1>1 DEF FamilyInv, Begun
  <1>3. Ranked'
    <2>1. PICK rank \in [Spans -> Nat] : RanksSpans(rank)
      BY DEF FamilyInv, Ranked
    <2> DEFINE new == [rank EXCEPT ![c] = rank[cur[g]] + 1]
    <2>2. new \in [Spans -> Nat] /\ new[c] = rank[cur[g]] + 1 /\ rank[cur[g]] \in Nat
      BY <1>1
    <2>3. \A s \in Spans : s # c => new[s] = rank[s]
      BY <1>1
    <2> HIDE DEF new
    <2>4. ASSUME NEW s \in Spans, parent'[s] # None PROVE new[parent'[s]] < new[s]
      <3>1. CASE s = c
        BY <1>1, <2>2, <2>3, <3>1
      <3>2. CASE s # c
        <4>1. parent'[s] = parent[s]
          BY <1>1, <3>2
        <4> QED
          BY <1>2, <2>1, <2>3, <2>4, <3>2, <4>1 DEF RanksSpans
      <3> QED
        BY <3>1, <3>2
    <2> QED
      BY <2>2, <2>4 DEF Ranked, RanksSpans
  <1>4. Begun'
    BY <1>1 DEF FamilyInv, Begun
  <1>5. Joining'
    <2>1. ASSUME NEW h \in Goroutines, pc'[h] \in {"join", "edge"} PROVE parent'[cur'[h]] # None
      <3>1. pc[h] = pc'[h] /\ cur'[h] = cur[h] /\ cur[h] \in Spans
        BY <1>1, <2>1 DEF TypeInv, CallTypes
      <3>2. parent[cur[h]] # None
        BY <2>1, <3>1 DEF FamilyInv, Joining
      <3> QED
        BY <1>1, <3>1, <3>2, SpansAssumption
    <2> QED
      BY <2>1 DEF Joining
  <1> QED
    BY <1>3, <1>4, <1>5 DEF FamilyInv

LEMMA FamilyInvNext == TypeInv /\ GraphInv /\ FamilyInv /\ [Next]_vars => FamilyInv'
  <1> SUFFICES ASSUME TypeInv, GraphInv, FamilyInv, [Next]_vars PROVE FamilyInv'
    OBVIOUS
  <1>1. /\ pc \in [Goroutines -> InCall \cup InEnd]
        /\ \A h \in Goroutines : pc[h] \notin NoSpan => status[cur[h]] = "live"
    BY DEF TypeInv, CallTypes, GraphInv, Alive
  <1>2. ASSUME NEW g \in Goroutines, NEW s \in Spans, NEW l \in {"begin", "info", "args", "name", "end"},
               Call(g, s, l)
        PROVE  FamilyInv'
    BY <1>1, <1>2, FamilyUntouched DEF Call, Goto, spanVars, TypeInv, CallTypes
  <1>3. ASSUME NEW g \in Goroutines, NEW c \in Spans, BeginReport(g, c) PROVE FamilyInv'
    <2>1. pc[g] = "begin"
      BY <1>3 DEF BeginReport, NewSpan
    <2> QED
      BY <1>1, <1>3, <2>1, FamilyGrows DEF NoSpan
  <1>4. ASSUME NEW g \in Goroutines, InfoCompose(g) \/ InfoSend(g) \/ AppendArgs(g) \/ SetName(g)
        PROVE  FamilyInv'
    BY <1>1, <1>4, FamilyUntouched DEF InfoCompose, InfoSend, AppendArgs, SetName, Goto, spanVars
  <1>5. ASSUME NEW g \in Goroutines, EndLock(g) \/ Compose(g) \/ AddChildEdge(g) \/ Join(g)
        PROVE  FamilyInv'
    BY <1>1, <1>5, FamilyUntouched DEF EndLock, Compose, AddChildEdge, Join, Goto, spanVars
  <1>6. ASSUME NEW g \in Goroutines, ExitSend(g) PROVE FamilyInv'
    BY <1>1, <1>6, FamilyUntouched DEF ExitSend, Goto
  <1>7. ASSUME NEW g \in Goroutines, ExitMetadata(g) \/ MakeExitEvent(g) \/ TellExitEvent(g)
        PROVE  FamilyInv'
    BY <1>1, <1>7, FamilyUntouched DEF ExitMetadata, MakeExitEvent, TellExitEvent, Goto, spanVars
  <1>8. CASE UNCHANGED vars
    BY <1>8, FamilyUntouched DEF vars, spanVars, callVars
  <1>9. ASSUME NEW g \in Goroutines, Begin(g) PROVE FamilyInv'
    <2>1. ASSUME NEW s \in Spans, BeginSpan(g, s) \/ Info(g, s) \/ AddEndArgs(g, s)
                                    \/ SetTransactionName(g, s) \/ End(g, s)
          PROVE  FamilyInv'
      BY <1>2, <2>1 DEF BeginSpan, Info, AddEndArgs, SetTransactionName, End
    <2> QED
      BY <1>7, <1>9, <2>1 DEF Begin
  <1>10. ASSUME NEW g \in Goroutines, Step(g) PROVE FamilyInv'
    BY <1>3, <1>4, <1>5, <1>6, <1>7, <1>10 DEF Step
  <1> QED
    BY <1>8, <1>9, <1>10 DEF Next

\* The least of the ranks in use.
LEMMA LeastRank ==
  ASSUME NEW S, S # {}, NEW f \in [S -> Nat]
  PROVE  \E x \in S : \A y \in S : f[x] <= f[y]
  <1> DEFINE T == {f[x] : x \in S}
             less == OpToRel(<, Nat)
  <1>1. T \subseteq Nat /\ T # {}
    OBVIOUS
  <1>2. PICK n \in T : \A m \in T : ~(<<m, n>> \in less)
    <2>1. IsWellFoundedOn(less, Nat)
      BY NatLessThanWellFounded
    <2> HIDE DEF less, T
    <2> QED
      BY <1>1, <2>1, WFMin
  <1>3. ASSUME NEW m \in T PROVE n <= m
    <2>1. m \in Nat /\ n \in Nat
      BY <1>1
    <2>2. m < n => <<m, n>> \in less
      BY <2>1 DEF OpToRel
    <2>3. <<m, n>> \notin less
      BY <1>2
    <2> HIDE DEF less
    <2> QED
      BY <2>1, <2>2, <2>3
  <1> QED
    BY <1>3

\* Among the goroutines with the span of the least rank, one that waits for a lock of that
\* rank waits for a goroutine past its own wait, and one that waits for a parent's lock
\* waits for a goroutine outside the set.
LEMMA NoCircle ==
  ASSUME TypeInv, FamilyInv
  PROVE  NoCircularWait
  <1> SUFFICES ASSUME NEW S \in SUBSET Goroutines, S # {}
               PROVE  \E g \in S : WaitsFor(g) \cap S = {}
    BY DEF NoCircularWait
  <1>1. /\ cur \in [Goroutines -> Spans] /\ parent \in [Spans -> Spans \cup {None}]
        /\ \A s \in Spans : \A h \in Goroutines : lock[s] = h => pc[h] \in InEnd /\ cur[h] = s
    BY SpansAssumption DEF TypeInv, SpanTypes, CallTypes, Locks
  <1>2. PICK rank \in [Spans -> Nat] : RanksSpans(rank)
    BY DEF FamilyInv, Ranked
  <1>3. PICK g \in S : \A h \in S : rank[cur[g]] <= rank[cur[h]]
    <2> DEFINE f == [h \in S |-> rank[cur[h]]]
    <2>1. f \in [S -> Nat]
      BY <1>1
    <2>2. \A h \in S : f[h] = rank[cur[h]]
      OBVIOUS
    <2> HIDE DEF f
    <2> QED
      BY <2>1, <2>2, LeastRank
  \* Who waits for the lock of a parent.
  <1>4. ASSUME NEW h \in S, rank[cur[h]] = rank[cur[g]], pc[h] \in {"join", "edge"}
        PROVE  WaitsFor(h) \cap S = {}
    <2>1. parent[cur[h]] # None /\ cur[h] \in Spans
      BY <1>1, <1>4 DEF FamilyInv, Joining
    <2>2. /\ parent[cur[h]] \in Spans
          /\ rank[parent[cur[h]]] < rank[cur[h]]
      BY <1>1, <1>2, <2>1 DEF RanksSpans
    <2>3. ASSUME NEW k \in WaitsFor(h), k \in S PROVE FALSE
      <3>1. k \in Goroutines /\ lock[parent[cur[h]]] = k
        BY <1>4, <2>3 DEF WaitsFor, Awaited, Wanted
      <3>2. cur[k] = parent[cur[h]]
        BY <1>1, <2>2, <3>1
      <3>3. rank[cur[g]] <= rank[parent[cur[h]]] /\ rank[parent[cur[h]]] \in Nat /\ rank[cur[g]] \in Nat
        BY <1>1, <1>3, <2>2, <2>3, <3>2
      <3> QED
        BY <1>4, <2>2, <3>3
    <2> QED
      BY <2>3
  \* Who waits for nobody.
  <1>5. ASSUME NEW h \in S, pc[h] \notin {"join", "edge", "end", "args"}
        PROVE  WaitsFor(h) \cap S = {}
    BY <1>5 DEF WaitsFor, Awaited, Wanted
  <1>6. ASSUME pc[g] \in {"end", "args"} PROVE \E h \in S : WaitsFor(h) \cap S = {}
    <2>1. CASE WaitsFor(g) \cap S = {}
      BY <2>1
    <2>2. CASE WaitsFor(g) \cap S # {}
      <3>1. PICK h \in S : lock[cur[g]] = h
        BY <1>6, <2>2 DEF WaitsFor, Awaited, Wanted
      <3>2. pc[h] \in InEnd /\ cur[h] = cur[g]
        BY <1>1, <3>1
      <3> QED
        BY <1>4, <1>5, <3>2 DEF InCall, InEnd
    <2> QED
      BY <2>1, <2>2
  <1> QED
    BY <1>4, <1>5, <1>6

\* The places within a call, in their order.
Place(l) ==
  CASE l \in {"begin", "info", "args", "name", "make", "end"} -> 1
    [] l \in {"infosend", "tell", "exit"} -> 2
    [] l = "exitsend" -> 3 [] l = "join" -> 4 [] l = "edge" -> 5 [] OTHER -> 0

\* What each step does to a goroutine within a call.
Advance ==
  \A g \in Goroutines :
    pc[g] # "idle" =>
      \/ pc'[g] = "idle"
      \/ Place(pc'[g]) > Place(pc[g])
      \/ UNCHANGED <<pc[g], cur[g]>> /\ ~Step(g)

LEMMA StepAdvances ==
  ASSUME TypeInv, NEW g \in Goroutines, Step(g)
  PROVE  /\ pc[g] # "idle"
         /\ pc'[g] = "idle" \/ Place(pc'[g]) > Place(pc[g])
         /\ \A h \in Goroutines \ {g} : UNCHANGED <<pc[h], cur[h]>>
  <1>1. /\ pc \in [Goroutines -> InCall \cup InEnd]
    BY DEF TypeInv, CallTypes
  <1>2. CASE (\E c \in Spans : BeginReport(g, c)) \/ InfoCompose(g) \/ InfoSend(g)
    BY <1>1, <1>2 DEF BeginReport, NewSpan, InfoCompose, InfoSend, Goto, Place
  <1>3. CASE AppendArgs(g) \/ SetName(g) \/ MakeExitEvent(g) \/ TellExitEvent(g)
    BY <1>1, <1>3 DEF AppendArgs, SetName, MakeExitEvent, TellExitEvent, Goto, Place
  <1>4. CASE EndLock(g) \/ Compose(g)
    BY <1>1, <1>4 DEF EndLock, Compose, Goto, Place
  <1>5. CASE ExitSend(g)
    BY <1>1, <1>5 DEF ExitSend, Goto, Place
  <1>6. CASE Join(g) \/ AddChildEdge(g)
    BY <1>1, <1>6 DEF Join, AddChildEdge, Goto, Place
  <1> QED
    BY <1>2, <1>3, <1>4, <1>5, <1>6 DEF Step

\* A call does not end in a circle of goroutines that wait for each other's locks, however
\* deep spans are nested and whoever ends them at the same time: End asks for the parent's
\* lock while it holds its own, but never the other way round.  And each step of a call takes
\* it further on a way of at most five steps.  That is what CallsReturn needs besides the
\* fairness of Go's scheduler and locks (layer.go:262-288, trace.go:275-281).
THEOREM SpansCallsAdvance == Spec => []NoCircularWait /\ [][Advance]_vars
  <1>1. TypeInv /\ FamilyInv => NoCircularWait
    BY NoCircle
  <1>2. TypeInv /\ [Next]_vars => [Advance]_vars
    <2> SUFFICES ASSUME TypeInv, Next, NEW h \in Goroutines, pc[h] # "idle", pc'[h] # "idle",
                        ~(Place(pc'[h]) > Place(pc[h]))
                 PROVE  UNCHANGED <<pc[h], cur[h]>> /\ ~Step(h)
      BY DEF Advance
    <2>1. ~Step(h)
      BY StepAdvances
    <2>2. ASSUME NEW g \in Goroutines, Step(g) PROVE UNCHANGED <<pc[h], cur[h]>>
      BY <2>1, <2>2, StepAdvances
    <2>3. ASSUME NEW g \in Goroutines, Begin(g) PROVE UNCHANGED <<pc[h], cur[h]>>
      <3>1. CASE ExitMetadata(g)
        BY <3>1 DEF ExitMetadata, Goto, TypeInv, CallTypes
      <3>2. ASSUME NEW s \in Spans, NEW l, Call(g, s, l) PROVE UNCHANGED <<pc[h], cur[h]>>
        BY <3>2 DEF Call, Goto, TypeInv, CallTypes
      <3> QED
        BY <2>3, <3>1, <3>2 DEF Begin, BeginSpan, Info, AddEndArgs, SetTransactionName, End
    <2> QED
      BY <2>1, <2>2, <2>3 DEF Next
  <1> QED
    BY <1>1, <1>2, TypeInvInit, TypeInvNext, GraphInvInit, GraphInvNext, FamilyInvInit, FamilyInvNext,
       PTL DEF Spec

=============================================================================
