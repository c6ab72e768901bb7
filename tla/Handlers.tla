-------------------------------- MODULE Handlers --------------------------------
(****************************************************************************)
(* A request on its way through instrumented HTTP handlers                  *)
(* (http_instrumentation.go) and clients (http_client_instrumentation.go).  *)
(*                                                                          *)
(* Handler h calls handler h + 1: in its own process with the same response *)
(* writer ("wrap"), with a client span in another service ("client"), or as *)
(* a proxy that forwards the request and copies the response ("forward").   *)
(* X-Trace metadata is the trace and the id of an event; NoMD is no header. *)
(* Every service takes the same decision to sample.                         *)
(****************************************************************************)
EXTENDS Integers, Sequences, FiniteSetsExt

CONSTANTS
  Hops,      \* how many handlers there are
  Statuses,  \* HTTP statuses
  MaxWrites, \* bound: calls of WriteHeader for one response
  MaxRefused \* bound: error and exit events that the channel refuses

ASSUME HandlersAssumption ==
  Hops \in Nat \ {0} /\ MaxWrites \in Nat /\ MaxRefused \in Nat /\ Statuses \subseteq Nat \ {0}

VARIABLES
  sampling,             \* the decision of the services
  link,                 \* per handler: how it is called
  called, depth,        \* the last handler that was called, and the one that runs
  mode,                 \* of the latter: "run", "panic", or "answer": it gets a response
  live,                 \* per handler: its Trace is not a nullTrace and has not ended
  ctx,                  \* per handler: metadata of its latest event
  reqMD,                \* per handler: X-Trace of the request
  rspMD,                \* per process: X-Trace of the response
  exitEvent, endEdges, status,
  client,               \* per handler: metadata of the latest event of the client span that called it
  sent, writes,         \* per process: the response that went out; calls of WriteHeader
  events, dropped,      \* history: events the channel took; metadata of error and exit events it did not
  measured,             \* history: handlers measured, with their status
  joined,               \* history: handlers whose written response the caller has used
  failed,               \* history: handlers that panicked
  ids

traceVars == <<live, ctx, exitEvent, endEdges, status>>
headerVars == <<reqMD, rspMD, client, sent, writes>>
historyVars == <<events, dropped, measured, joined, failed>>
handlerVars == <<sampling, link, called, depth, mode, traceVars, headerVars, historyVars, ids>>

HopSet == 1..Hops
NoMD == [trace |-> 0, id |-> 0]
NotSent == [md |-> NoMD, status |-> 0]

HandlersInit ==
  /\ sampling \in BOOLEAN
  /\ link \in [HopSet -> {"wrap", "client", "forward"}] /\ link[1] = "forward"
  /\ called = 0 /\ depth = 0 /\ mode = "run"
  /\ live = [h \in HopSet |-> FALSE]
  /\ ctx = [h \in HopSet |-> NoMD] /\ exitEvent = ctx /\ reqMD = ctx /\ rspMD = ctx
  /\ client = ctx
  /\ endEdges = [h \in HopSet |-> {}]
  /\ status = [h \in HopSet |-> 200]
  /\ sent = [h \in HopSet |-> NotSent] /\ writes = [h \in HopSet |-> 0]
  /\ events = <<>> /\ dropped = {} /\ measured = <<>> /\ joined = {} /\ failed = {}
  /\ ids = 0

\* The handler that got the response writer of handler h from the server.
Base(h) == Max({b \in 1..h : link[b] # "wrap"})

NewMD(trace, n) == [trace |-> trace, id |-> ids + n]

\* Only a sampled trace sends events, and a full channel takes none (reportEvent); by then
\* prepareEvent has given the context the event's id.  AddEdgeFromMetadataString leaves out
\* edges to other traces.
Reported(log, md, edges, lost) ==
  IF sampling /\ md \notin lost
  THEN Append(log, [md |-> md, edges |-> {e \in edges : e.trace = md.trace}])
  ELSE log

\* Which of the events with metadata in mds the channel refuses; End and Err ignore that.
Losses(mds) ==
  IF sampling THEN {lost \in SUBSET mds : Cardinality(dropped \cup lost) <= MaxRefused} ELSE {{}}

-----------------------------------------------------------------------------
(* A request comes in. *)

\* traceFromHTTPRequest: the trace in the header goes on, or a new one starts.  An entry event
\* that is refused makes a nullTrace, and the request has no metadata from then on.
\* newResponseWriter announces the exit event in the response.
Enter(h, log, md, accepted) ==
  LET trace == IF md = NoMD THEN h ELSE md.trace
      entry == IF accepted THEN NewMD(trace, 2) ELSE NoMD
  IN /\ called' = h /\ depth' = h
     /\ ids' = ids + 3
     /\ live' = [live EXCEPT ![h] = accepted]
     /\ ctx' = [ctx EXCEPT ![h] = entry]
     /\ reqMD' = [reqMD EXCEPT ![h] = entry]
     /\ exitEvent' = [exitEvent EXCEPT ![h] = IF accepted THEN NewMD(trace, 3) ELSE NoMD]
     /\ rspMD' = IF accepted THEN [rspMD EXCEPT ![Base(h)] = NewMD(trace, 3)] ELSE rspMD
     /\ events' = IF accepted THEN Reported(log, entry, {md}, {}) ELSE log
     /\ UNCHANGED <<sampling, link, mode, endEdges, status, sent, writes, dropped, measured,
                    joined, failed>>

Accepted == IF sampling THEN BOOLEAN ELSE {TRUE}

FirstRequest ==
  /\ called = 0
  /\ \E accepted \in Accepted : Enter(1, events, NoMD, accepted)
  /\ UNCHANGED client

\* The client span of a traced handler: its entry event, and no span if that is refused.
ClientSpans(h) ==
  IF link[h + 1] = "client" /\ live[h]
  THEN {NewMD(ctx[h].trace, 1)} \cup {md \in {NoMD} : sampling} ELSE {NoMD}

\* A client span takes its metadata along; a proxy or wrapped handler gets the same request.
Call(h) ==
  LET n == h + 1
  IN /\ mode = "run" /\ depth = h /\ called = h /\ h \in 1..Hops - 1
     /\ \E span \in ClientSpans(h), accepted \in Accepted :
          /\ client' = [client EXCEPT ![n] = span]
          /\ Enter(n, IF span = NoMD THEN events ELSE Reported(events, span, {ctx[h]}, {}),
                   IF link[n] = "client" THEN span ELSE reqMD[h], accepted)

-----------------------------------------------------------------------------
(* The response. *)

\* Mutation: the header is replaced before it is read.
SeenTooLate(k, h) == exitEvent[k]

\* What WriteHeader of handler k finds in the header if handler h, inside of it, calls it.
Seen(k, h) ==
  LET inner == {j \in k + 1..h : live[j]}
  IN IF inner = {} THEN rspMD[Base(h)] ELSE exitEvent[Min(inner)]

\* WriteHeader goes through the writers that wrap each other; all observe the status, and
\* those of a live trace replace the metadata.  What was sent cannot be taken back.
WriteHeader(h, s) ==
  LET b == Base(h)
      tracing == {k \in b..h : live[k]}
      md == IF tracing = {} THEN rspMD[b] ELSE exitEvent[Min(tracing)]
  IN /\ mode = "run" /\ depth = h /\ h > 0
     /\ writes[b] < MaxWrites
     /\ writes' = [writes EXCEPT ![b] = @ + 1]
     /\ status' = [k \in HopSet |-> IF k \in b..h THEN s ELSE status[k]]
     /\ endEdges' = [k \in HopSet |->
                       IF k \in tracing THEN endEdges[k] \cup ({Seen(k, h)} \ {NoMD, exitEvent[k]})
                       ELSE endEdges[k]]
     /\ rspMD' = [rspMD EXCEPT ![b] = md]
     /\ sent' = IF sent[b] = NotSent THEN [sent EXCEPT ![b] = [md |-> md, status |-> s]] ELSE sent
     /\ joined' = joined \cup (b + 1..h)
                  \cup {n \in {h + 1} : /\ n <= called /\ link[n] = "forward"
                                        /\ writes[n] > 0 /\ n \notin failed}
     /\ UNCHANGED <<sampling, link, called, depth, mode, live, ctx, exitEvent, reqMD, client,
                    events, dropped, measured, failed, ids>>

\* Only a trace with a start time is measured: traceFromHTTPRequest clears the one of a
\* handler inside another.
Measured(h) == live[h] /\ link[h] # "wrap"

\* The handler returns or panics; HTTPHandler reports the panic, ends the trace, and panics on.
\* The server recovers, or sends the header that nobody has sent.
Leave(h, panics) ==
  LET error == NewMD(ctx[h].trace, 1)
      last == IF panics THEN error ELSE ctx[h]
      served == link[h] # "wrap"
  IN /\ h > 0 /\ depth = h
     /\ mode = "run" \/ (mode = "panic" /\ panics)
     /\ \E lost \in IF live[h] THEN Losses({exitEvent[h]} \cup {e \in {error} : panics}) ELSE {{}} :
          LET log == IF panics THEN Reported(events, error, {ctx[h]}, lost) ELSE events
          IN /\ dropped' = dropped \cup lost
             /\ events' = IF live[h] THEN Reported(log, exitEvent[h], endEdges[h] \cup {last}, lost)
                          ELSE events
     /\ measured' = IF Measured(h)
                    THEN Append(measured, [hop |-> h, status |-> status[h]]) ELSE measured
     /\ live' = [live EXCEPT ![h] = FALSE]
     /\ sent' = IF served /\ ~panics /\ sent[h] = NotSent
                THEN [sent EXCEPT ![h] = [md |-> rspMD[h], status |-> 200]] ELSE sent
     /\ failed' = IF panics THEN failed \cup {h} ELSE failed
     /\ depth' = h - 1
     /\ mode' = IF ~served THEN IF panics THEN "panic" ELSE "run"
                ELSE IF h = 1 THEN "run" ELSE "answer"
     /\ ids' = ids + 1
     /\ UNCHANGED <<sampling, link, called, ctx, exitEvent, endEdges, status, reqMD, rspMD,
                    client, writes, joined>>

\* The caller gets the response, or an error if the handler has panicked.  AddHTTPResponse and
\* End of the client span; a proxy copies the header.
TakeResponse(h) ==
  LET n == h + 1
      md == IF n \in failed THEN NoMD ELSE sent[n].md
      error == NewMD(ctx[h].trace, 1)
      exit == NewMD(ctx[h].trace, 2)
      last == IF n \in failed THEN error ELSE client[n]
  IN /\ mode = "answer" /\ depth = h
     /\ mode' = "run"
     /\ ids' = ids + 2
     /\ \/ /\ link[n] = "client" /\ client[n] # NoMD
           /\ \E lost \in Losses({exit} \cup {e \in {error} : n \in failed}) :
                LET log == IF n \in failed THEN Reported(events, error, {client[n]}, lost) ELSE events
                IN /\ dropped' = dropped \cup lost
                   /\ events' = Reported(log, exit, {last, md}, lost)
           /\ client' = [client EXCEPT ![n] = exit]
           /\ endEdges' = [endEdges EXCEPT ![h] = @ \cup {exit}]
           /\ joined' = IF n \in failed \/ writes[n] = 0 THEN joined ELSE joined \cup {n}
           /\ UNCHANGED rspMD
        \/ /\ link[n] = "client" /\ client[n] = NoMD
           /\ UNCHANGED <<events, dropped, client, endEdges, joined, rspMD>>
        \/ /\ link[n] = "forward"
           /\ rspMD' = IF md = NoMD THEN rspMD ELSE [rspMD EXCEPT ![Base(h)] = md]
           /\ UNCHANGED <<events, dropped, client, endEdges, joined>>
     /\ UNCHANGED <<sampling, link, called, depth, live, ctx, exitEvent, status, reqMD, sent,
                    writes, measured, failed>>

HandlersNext ==
  \/ FirstRequest
  \/ \E h \in HopSet : \/ Call(h) \/ TakeResponse(h)
                        \/ \E s \in Statuses : WriteHeader(h, s)
                        \/ \E panics \in BOOLEAN : Leave(h, panics)

HandlersSpec == HandlersInit /\ [][HandlersNext]_handlerVars

-----------------------------------------------------------------------------
(* Correctness. *)

HandlersTypeOK ==
  /\ called \in 0..Hops /\ depth \in 0..called /\ mode \in {"run", "panic", "answer"}
  /\ \A h \in HopSet : live[h] => h \in 1..depth /\ exitEvent[h] # NoMD
  /\ \A h \in HopSet : writes[h] \in 0..MaxWrites

Ended(h) == h <= called /\ h > depth /\ exitEvent[h] # NoMD

\* The events that can be reached from the i-th one along the edges.
reach[i \in 1..Len(events)] ==
  {events[i].md} \cup UNION {reach[j] : j \in {k \in 1..i - 1 : events[k].md \in events[i].edges}}

\* The exit events of handler k and of the client span that called it were not refused.
Arrived(k) == dropped \cap {exitEvent[k], client[k]} = {}

\* A client that gets a response written by a handler learns the exit event of the outermost
\* trace, whether or not there is room for it in the end.  If there is, every exit event of the
\* same trace whose response was used can be reached from it, unless an exit event on the way,
\* of a handler or a client span, was refused: no error event matters.
HopsConnected ==
  \A b \in HopSet : Ended(b) /\ link[b] # "wrap" =>
    /\ writes[b] > 0 => sent[b].md = exitEvent[b]
    /\ sampling /\ exitEvent[b] \notin dropped => \E i \in 1..Len(events) :
         /\ events[i].md = exitEvent[b]
         /\ \A h \in b + 1..called :
              /\ Ended(h) /\ exitEvent[h].trace = exitEvent[b].trace
              /\ b + 1..h \subseteq joined /\ \A k \in b + 1..h : Arrived(k)
              => exitEvent[h] \in reach[i]

\* A request to a process is measured once however many handlers wrap each other, and with
\* the status that went out, unless the handler has written several.
MeasuredOnce ==
  /\ \A i, j \in 1..Len(measured) : measured[i].hop = measured[j].hop => i = j
  /\ \A i \in 1..Len(measured) :
       LET h == measured[i].hop
       IN /\ link[h] # "wrap"
          /\ sent[h] # NotSent /\ writes[h] <= 1 => measured[i].status = sent[h].status
  /\ \A h \in HopSet :
       Ended(h) /\ link[h] # "wrap" => \E i \in 1..Len(measured) : measured[i].hop = h

\* What the handlers of a request leave behind: one graph of its events, and one measurement for
\* each process it went through (http_instrumentation.go:60-68, :120-137, :140-215).
RequestAccounted == HopsConnected /\ MeasuredOnce
=============================================================================
