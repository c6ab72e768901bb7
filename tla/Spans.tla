-------------------------------- MODULE Spans --------------------------------
(***************************************************************************)
(* The spans of one trace (layer.go, trace.go) with their contexts          *)
(* (internal/reporter/context.go): several goroutines begin, describe and   *)
(* end them at the same time.                                               *)
(*                                                                         *)
(* A context is the id of the latest event reported with it; 0 is the one   *)
(* the trace started from.  An event is prepared, which makes it the latest *)
(* of its context, and then sent, or dropped if the reporter's channel is   *)
(* full.  A trace that is not sampled goes through the same motions and     *)
(* reports nothing.                                                         *)
(***************************************************************************)
EXTENDS Integers, Sequences, FiniteSets

CONSTANTS
  Spans,      \* the spans; one of them is the trace
  Trace,
  Goroutines, \* goroutines of the application
  None,
  MaxCalls    \* bound: calls of the application

ASSUME SpansAssumption ==
  /\ Trace \in Spans
  /\ None \notin Spans \cup Goroutines
  /\ MaxCalls \in Nat

VARIABLES
  sampled, enabled,      \* the decision NewContext took
  status,                \* per span: "free", "live", "null" (a nullSpan)
  parent,
  opID,                  \* per span: op id of its context
  txCtx,                 \* per span: the span whose transactionContext it uses
  name,                  \* per transactionContext: the goroutine that named it
  ended, childEdges, endArgs, lock,
  exitEvent,             \* of the trace: the event ExitMetadata made, or 0
  pc, cur,               \* per goroutine: what it does, and with which span
  ev,                    \* per goroutine: the event it has made
  ids,                   \* how many op ids were drawn
  prepared,              \* history: the events, in the order they were prepared
  recorded,              \* history: the transaction names reported to the metrics
  given,                 \* history: per span: what calls that returned have added
  due,                   \* history: per span: `given' when End was first called
  calls

spanVars == <<status, parent, opID, txCtx, name, ended, childEdges, endArgs, lock, exitEvent>>
callVars == <<pc, cur, ev>>
histVars == <<prepared, recorded, given, due>>
vars == <<sampled, enabled, spanVars, callVars, ids, histVars, calls>>

Labels == {"entry", "info", "exit"}
NoEvent == [id |-> 0, span |-> Trace, label |-> "info", edges |-> {}, args |-> {}, sent |-> FALSE]

\* What an exit event carries: edges, KVs, the ids told before, a transaction name.
Nothing == [edges |-> {}, args |-> {}, exit |-> {}, named |-> FALSE]

\* NewTraceWithOptions: the trace is live and, if sampled, has reported its entry.
Init ==
  /\ sampled \in BOOLEAN /\ enabled \in BOOLEAN
  /\ status = [s \in Spans |-> IF s = Trace THEN "live" ELSE "free"]
  /\ parent = [s \in Spans |-> None]
  /\ opID = [s \in Spans |-> IF s = Trace /\ sampled THEN 1 ELSE 0]
  /\ txCtx = [s \in Spans |-> s]
  /\ name = [s \in Spans |-> None]
  /\ ended = [s \in Spans |-> FALSE]
  /\ childEdges = [s \in Spans |-> {}] /\ endArgs = [s \in Spans |-> {}]
  /\ lock = [s \in Spans |-> None]
  /\ exitEvent = 0
  /\ pc = [g \in Goroutines |-> "idle"]
  /\ cur = [g \in Goroutines |-> Trace]
  /\ ev = [g \in Goroutines |-> NoEvent]
  /\ ids = 1
  /\ prepared = IF sampled THEN <<[NoEvent EXCEPT !.id = 1, !.label = "entry", !.sent = TRUE]>>
                           ELSE <<>>
  /\ recorded = <<>>
  /\ given = [s \in Spans |-> Nothing] /\ due = [s \in Spans |-> {}]
  /\ calls = 0

-----------------------------------------------------------------------------
Goto(g, l) == pc' = [pc EXCEPT ![g] = l]

\* span.ok, under the read lock: a caller waits for who holds the lock.
Ok(s) == status[s] = "live" /\ lock[s] = None /\ ~ended[s]

\* A call on span s that passes its check of ok.
Call(g, s, l) ==
  /\ pc[g] = "idle"
  /\ calls < MaxCalls
  /\ Ok(s)
  /\ calls' = calls + 1
  /\ cur' = [cur EXCEPT ![g] = s]
  /\ Goto(g, l)
  /\ UNCHANGED <<sampled, enabled, spanVars, ev, ids, prepared, recorded, given>>

BeginSpan(g, s) ==
  /\ Cardinality({c \in Spans : status[c] = "free"}) > Cardinality({h \in Goroutines : pc[h] = "begin"})
  /\ Call(g, s, "begin")
  /\ UNCHANGED due
Info(g, s) == Call(g, s, "info") /\ UNCHANGED due
AddEndArgs(g, s) == Call(g, s, "args") /\ UNCHANGED due
SetTransactionName(g, s) == Call(g, s, "name") /\ UNCHANGED due
End(g, s) ==
  /\ Call(g, s, "end")
  /\ due' = IF due[s] = {} THEN [due EXCEPT ![s] = {given[s]}] ELSE due

\* prepareEvent and the reporter's channel, which takes the event or does not: event e of span s.
Report(s, e, sent) ==
  IF ~sampled THEN UNCHANGED <<opID, prepared>>
  ELSE /\ opID' = [opID EXCEPT ![s] = e.id]
       /\ prepared' = Append(prepared, [e EXCEPT !.sent = sent])

Event(s, l, id, edges, args) ==
  [id |-> id, span |-> s, label |-> l, edges |-> edges, args |-> args, sent |-> FALSE]

\* newSpan, which uses transactionContext tx; failed says whether an error makes a nullSpan.
NewSpan(g, c, tx, failed) ==
  LET s == cur[g]
      e == Event(c, "entry", ids + 1, {opID[s]}, {})
  IN /\ pc[g] = "begin"
     /\ status[c] = "free"
     /\ parent' = [parent EXCEPT ![c] = s]
     /\ txCtx' = [txCtx EXCEPT ![c] = tx]
     /\ \E sent \in BOOLEAN :
          /\ Report(c, e, sent)
          /\ status' = [status EXCEPT ![c] = IF sampled /\ ~sent THEN failed ELSE "live"]
     /\ ids' = ids + 1
     /\ Goto(g, "idle")
     /\ UNCHANGED <<sampled, enabled, name, ended, childEdges, endArgs, lock, exitEvent,
                    cur, ev, recorded, given, due, calls>>

\* Mutation: the copy of a context has a transactionContext of its own.
NewSpanOwnName(g, c) == NewSpan(g, c, c, "null")

\* Mutation: the error of the entry event is ignored.
NewSpanAnyway(g, c) == NewSpan(g, c, txCtx[cur[g]], "live")

\* Copy shares the transactionContext; without an entry event there is no span.
BeginReport(g, c) == NewSpan(g, c, txCtx[cur[g]], "null")

\* The event is made, with an edge to the context's latest.
InfoCompose(g) ==
  /\ pc[g] = "info"
  /\ ev' = [ev EXCEPT ![g] = Event(cur[g], "info", ids + 1, {opID[cur[g]]}, {})]
  /\ ids' = ids + 1
  /\ Goto(g, "infosend")
  /\ UNCHANGED <<sampled, enabled, spanVars, cur, histVars, calls>>

InfoSend(g) ==
  /\ pc[g] = "infosend"
  /\ \E sent \in BOOLEAN : Report(cur[g], ev[g], sent)
  /\ Goto(g, "idle")
  /\ UNCHANGED <<sampled, enabled, status, parent, txCtx, name, ended, childEdges, endArgs, lock,
                 exitEvent, cur, ev, ids, recorded, given, due, calls>>

AppendArgs(g) ==
  /\ pc[g] = "args"
  /\ lock[cur[g]] = None
  /\ endArgs' = [endArgs EXCEPT ![cur[g]] = @ \cup {g}]
  /\ given' = [given EXCEPT ![cur[g]].args = @ \cup {g}]
  /\ Goto(g, "idle")
  /\ UNCHANGED <<sampled, enabled, status, parent, opID, txCtx, name, ended, childEdges, lock,
                 exitEvent, cur, ev, ids, prepared, recorded, due, calls>>

SetName(g) ==
  /\ pc[g] = "name"
  /\ name' = [name EXCEPT ![txCtx[cur[g]]] = g]
  /\ given' = [given EXCEPT ![Trace].named = TRUE]
  /\ Goto(g, "idle")
  /\ UNCHANGED <<sampled, enabled, status, parent, opID, txCtx, ended, childEdges, endArgs, lock,
                 exitEvent, cur, ev, ids, prepared, recorded, due, calls>>

(* ExitMetadata makes the exit event in advance, and asks nothing and locks nothing: of      *)
(* several callers each may find none, and the event assigned last is the one that stays.    *)
ExitMetadata(g) ==
  /\ pc[g] = "idle"
  /\ calls < MaxCalls
  /\ calls' = calls + 1
  /\ Goto(g, IF exitEvent = 0 THEN "make" ELSE "tell")
  /\ UNCHANGED <<sampled, enabled, spanVars, cur, ev, ids, histVars>>

MakeExitEvent(g) ==
  /\ pc[g] = "make"
  /\ exitEvent' = ids + 1
  /\ ids' = ids + 1
  /\ Goto(g, "tell")
  /\ UNCHANGED <<sampled, enabled, status, parent, opID, txCtx, name, ended, childEdges, endArgs,
                 lock, cur, ev, histVars, calls>>

\* Some call has found no exit event and has not assigned its own yet.
Making == \E g \in Goroutines : pc[g] = "make"

\* The history notes the id unless a call under way is about to put another one in its place.
TellExitEvent(g) ==
  /\ pc[g] = "tell"
  /\ given' = IF Making THEN given ELSE [given EXCEPT ![Trace].exit = @ \cup {exitEvent}]
  /\ Goto(g, "idle")
  /\ UNCHANGED <<sampled, enabled, spanVars, cur, ev, ids, prepared, recorded, due, calls>>

-----------------------------------------------------------------------------
(* End: span.End and aoTrace.reportExit. *)

\* Mutation: reportExit trusts its first check of ok.
Recheck(g) == FALSE

\* reportExit checks again under the lock; span.End does not.
AlreadyEnded(g) == cur[g] = Trace /\ ended[Trace]

\* Mutation: End asks the span itself once more, where it should ask the parent.
WantedOwn(g) == cur[g]

\* The span whose lock a goroutine in End waits for.
Wanted(g) == IF pc[g] = "end" THEN cur[g] ELSE parent[cur[g]]

\* Mutation: an early return without the unlock.
KeptLock(s) == lock

Unlocked(s) == [lock EXCEPT ![s] = None]

EndLock(g) ==
  /\ pc[g] = "end"
  /\ lock[Wanted(g)] = None
  /\ \/ /\ AlreadyEnded(g)
        /\ Goto(g, "idle")
        /\ UNCHANGED lock
     \/ /\ ~AlreadyEnded(g)
        /\ Goto(g, "exit")
        /\ lock' = [lock EXCEPT ![cur[g]] = g]
  /\ UNCHANGED <<sampled, enabled, status, parent, opID, txCtx, name, ended, childEdges, endArgs,
                 exitEvent, cur, ev, ids, histVars, calls>>

\* recordHTTPSpan: an enabled trace is measured, with the name set last or a default one.
Recorded(s) == IF s = Trace /\ enabled THEN Append(recorded, name[txCtx[s]]) ELSE recorded

\* The measurement, and the exit event with all its edges.
Compose(g) ==
  LET s == cur[g]
      id == IF s = Trace /\ exitEvent # 0 THEN exitEvent ELSE ids + 1
  IN /\ pc[g] = "exit"
     /\ recorded' = Recorded(s)
     /\ ev' = [ev EXCEPT ![g] = Event(s, "exit", id, childEdges[s] \cup {opID[s]}, endArgs[s])]
     /\ ids' = IF id = exitEvent THEN ids ELSE ids + 1
     /\ Goto(g, "exitsend")
     /\ UNCHANGED <<sampled, enabled, spanVars, cur, prepared, given, due, calls>>

ExitSend(g) ==
  LET s == cur[g]
  IN /\ pc[g] = "exitsend"
     /\ \E sent \in BOOLEAN : Report(s, ev[g], sent)
     /\ childEdges' = [childEdges EXCEPT ![s] = {}]
     /\ endArgs' = [endArgs EXCEPT ![s] = {}]
     /\ ended' = [ended EXCEPT ![s] = TRUE]
     /\ Goto(g, IF parent[s] = None THEN "idle" ELSE "join")
     /\ lock' = IF parent[s] = None THEN Unlocked(s) ELSE lock
     /\ UNCHANGED <<sampled, enabled, status, parent, txCtx, name, exitEvent, cur, ev, ids,
                    recorded, given, due, calls>>

\* End asks the parent while it holds the span's own lock, and returns if it has ended.
Join(g) ==
  LET s == cur[g] p == parent[s]
  IN /\ pc[g] = "join"
     /\ lock[Wanted(g)] = None
     /\ \/ Ok(p) /\ Goto(g, "edge") /\ UNCHANGED lock
        \/ ~Ok(p) /\ Goto(g, "idle") /\ lock' = Unlocked(s)
     /\ UNCHANGED <<sampled, enabled, status, parent, opID, txCtx, name, ended, childEdges, endArgs,
                    exitEvent, cur, ev, ids, histVars, calls>>

\* addChildEdge, under the parent's lock.
AddChildEdge(g) ==
  LET s == cur[g] p == parent[s]
  IN /\ pc[g] = "edge"
     /\ lock[Wanted(g)] = None
     /\ childEdges' = [childEdges EXCEPT ![p] = @ \cup {opID[s]}]
     /\ given' = [given EXCEPT ![p].edges = @ \cup {opID[s]}]
     /\ lock' = Unlocked(s)
     /\ Goto(g, "idle")
     /\ UNCHANGED <<sampled, enabled, status, parent, opID, txCtx, name, ended, endArgs, exitEvent,
                    cur, ev, ids, prepared, recorded, due, calls>>

-----------------------------------------------------------------------------
Step(g) ==
  \/ \E c \in Spans : BeginReport(g, c)
  \/ InfoCompose(g) \/ InfoSend(g) \/ AppendArgs(g) \/ SetName(g)
  \/ MakeExitEvent(g) \/ TellExitEvent(g)
  \/ EndLock(g) \/ Compose(g) \/ ExitSend(g) \/ Join(g) \/ AddChildEdge(g)

Begin(g) ==
  \/ ExitMetadata(g)
  \/ \E s \in Spans : BeginSpan(g, s) \/ Info(g, s) \/ AddEndArgs(g, s)
                        \/ SetTransactionName(g, s) \/ End(g, s)

Next == \E g \in Goroutines : Begin(g) \/ Step(g)

Spec == Init /\ [][Next]_vars

\* Go schedules every goroutine that can run, and its RWMutex starves nobody.
FairSpec == Spec /\ \A g \in Goroutines : SF_vars(Step(g))

-----------------------------------------------------------------------------
(* Correctness. *)

Ids == 0..ids
InCall == {"idle", "begin", "info", "infosend", "args", "name", "make", "tell", "end"}
InEnd == {"exit", "exitsend", "join", "edge"}

\* The types, and who holds a lock: a goroutine in the End of that span (layer.go:262).
SpansTypeOK ==
  /\ sampled \in BOOLEAN /\ enabled \in BOOLEAN
  /\ status \in [Spans -> {"free", "live", "null"}]
  /\ parent \in [Spans -> Spans \cup {None}]
  /\ opID \in [Spans -> Ids] /\ exitEvent \in Ids
  /\ txCtx \in [Spans -> Spans] /\ name \in [Spans -> Goroutines \cup {None}]
  /\ ended \in [Spans -> BOOLEAN]
  /\ childEdges \in [Spans -> SUBSET Ids] /\ endArgs \in [Spans -> SUBSET Goroutines]
  /\ lock \in [Spans -> Goroutines \cup {None}]
  /\ pc \in [Goroutines -> InCall \cup InEnd]
  /\ cur \in [Goroutines -> Spans]
  /\ \A s \in Spans : lock[s] # None => pc[lock[s]] \in InEnd /\ cur[lock[s]] = s

ExitsOf(s) == {i \in 1..Len(prepared) : prepared[i].span = s /\ prepared[i].label = "exit"}

\* However many goroutines end the trace, it reports one exit event if it is sampled, and one
\* measurement if it is enabled (trace.go:270-310).
TraceOnce ==
  /\ \A i, j \in ExitsOf(Trace) : i = j
  /\ ExitsOf(Trace) # {} <=> ended[Trace] /\ sampled
  /\ Len(recorded) <= 1
  /\ ended[Trace] => Len(recorded) = IF enabled THEN 1 ELSE 0

\* The events of a sampled trace form a graph without cycles that can be drawn: an edge
\* leads to an event that was prepared before (or to where the trace came from), although
\* contexts are shared without a lock and the exit event may be made in advance; and only
\* a span whose entry was sent reports anything else (layer.go:519-525, reporter.go:200).
EventGraph ==
  \A i \in 1..Len(prepared) :
    /\ prepared[i].edges \subseteq {0} \cup {prepared[j].id : j \in 1..i-1}
    /\ prepared[i].label # "entry" =>
         \E j \in 1..i-1 : /\ prepared[j].span = prepared[i].span
                           /\ prepared[j].label = "entry" /\ prepared[j].sent

\* What was given to a span by calls that returned before its first End began is in its exit
\* event: the ends of its children, the KVs, and the id ExitMetadata told, unless another
\* call of it was then between its check and its assignment; and a transaction name set on
\* any span is the one measured (layer.go:267-278, trace.go:295-304, 318-326).
NothingLost ==
  \A s \in Spans : \A d \in due[s] :
    ended[s] =>
      /\ sampled => \E i \in ExitsOf(s) :
                      /\ d.edges \subseteq prepared[i].edges
                      /\ d.args \subseteq prepared[i].args
                      /\ d.exit \subseteq {prepared[i].id}
      /\ s = Trace /\ d.named /\ enabled => recorded[1] # None

\* Every call returns: End waits for the parent's lock while it holds its own, and the check
\* in reportExit must not wait for its own lock (layer.go:276, trace.go:275-281).
CallsReturn == \A g \in Goroutines : []<>(pc[g] = "idle")
=============================================================================
