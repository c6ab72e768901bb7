-------------------------------- MODULE Metadata --------------------------------
(***************************************************************************)
(* X-Trace metadata, byte by byte (internal/reporter/context.go): what a    *)
(* service makes of the header of a request, and what the events it reports *)
(* and the spans it begins make of that (event.go).                         *)
(***************************************************************************)
EXTENDS Integers, Sequences, SequencesExt

CONSTANTS
  Headers,             \* X-Trace of requests: text, its defects, and the bytes it stands for
  ResponseHeaders,     \* X-Trace of responses
  NoHeader,
  TaskDraws, OpDraws,  \* what the random reader yields
  ReadError,           \* an error of the reader
  MaxEvents            \* bound: events

Byte == 0..255
TaskLen == 20
OpLen == 8

\* A header as text: of an odd length, hexadecimal or not, and the bytes it stands for.
Text == [odd : BOOLEAN, hex : BOOLEAN, bytes : Seq(Byte)]

\* The random reader fills what it is given or fails.
ASSUME MetadataAssumption ==
  /\ MaxEvents \in Nat
  /\ NoHeader \notin Text
  /\ \A h \in Headers \cup ResponseHeaders : h = NoHeader \/ h \in Text
  /\ \A t \in TaskDraws : t = ReadError \/ (t \in Seq(Byte) /\ Len(t) = TaskLen)
  /\ \A o \in OpDraws : o = ReadError \/ (o \in Seq(Byte) /\ Len(o) = OpLen)

VARIABLES
  read,      \* the header of the request
  contexts,  \* the context NewContext returns, and copies of it, in a sequence
  responses, \* history: headers of responses that events were to have an edge to
  reports    \* history: events reported: their X-Trace and edges

mdVars == <<read, contexts, responses, reports>>

MaxPackLen == 512
Version == 2

Fit(s, n) == [i \in 1..n |-> IF i <= Len(s) THEN s[i] ELSE 0]
Zeros(n) == Fit(<<>>, n)

\* oboeMetadata.Init, and SetRandom for a new trace.
NewMetadata(task, op, flags) ==
  [version |-> Version, taskLen |-> TaskLen, opLen |-> OpLen,
   task |-> task, op |-> op, flags |-> flags]

IsSampled(md) == md.flags % 2 = 1

\* Setting the flag is one thing, clearing it another: it is toggled.
SetSampled(md, trace) ==
  [md EXCEPT !.flags = 2 * (@ \div 2) + IF trace \/ ~IsSampled(md) THEN 1 ELSE 0]

-----------------------------------------------------------------------------
(* Text. *)

\* Two bits for the length of the task id, where 3 stands for 20; one for that of the op id.
Pack(md) ==
  LET taskBits == md.taskLen \div 4 - 1
  IN <<md.version * 16 + (md.opLen \div 4 - 1) * 8 + (IF taskBits = 4 THEN 3 ELSE taskBits)>>
     \o Fit(md.task, md.taskLen) \o Fit(md.op, md.opLen) \o <<md.flags>>

TaskLenOf(b) == IF b[1] % 4 = 3 THEN 20 ELSE 4 * ((b[1] % 4) + 1)
OpLenOf(b) == 4 * (((b[1] \div 8) % 2) + 1)
PackedLen(b) == TaskLenOf(b) + OpLenOf(b) + 2

\* The option bit and whatever follows the flags are ignored.
Unpack(b) ==
  LET t == TaskLenOf(b) o == OpLenOf(b)
  IN [version |-> b[1] \div 16, taskLen |-> t, opLen |-> o, task |-> SubSeq(b, 2, t + 1),
      op |-> SubSeq(b, t + 2, t + o + 1), flags |-> b[t + o + 2]]

Unpackable(b) == b # <<>> /\ b[1] \div 16 = Version /\ PackedLen(b) <= Len(b)

\* FromString: does it return without an error?  Only an all-zero id of full length is invalid.
Readable(h) ==
  /\ h # NoHeader
  /\ ~h.odd /\ h.hex
  /\ Len(h.bytes) <= MaxPackLen
  /\ Unpackable(h.bytes)
  /\ Unpack(h.bytes).task # Zeros(TaskLen)

\* opString.
OpString(md) == SubSeq(md.op, 1, md.opLen)

-----------------------------------------------------------------------------
(* Contexts and events. *)

MetadataInit ==
  /\ read \in Headers \cup {NoHeader}
  /\ contexts = <<>> /\ responses = {} /\ reports = <<>>

ContinueTrace ==
  /\ contexts = <<>>
  /\ Readable(read)
  /\ contexts' = <<Unpack(read.bytes)>>
  /\ UNCHANGED <<read, responses, reports>>

\* SetRandomTaskID tries twice for an id that is not zero.
Drawn(first, second) == IF first = Zeros(TaskLen) THEN second ELSE first

\* newContext, for a sampled trace, instead of a header that cannot be read.  If no ids can
\* be drawn there is no context.
NewTrace ==
  /\ contexts = <<>>
  /\ ~Readable(read)
  /\ \E first, second \in TaskDraws, op \in OpDraws :
       /\ Drawn(first, second) \notin {ReadError, Zeros(TaskLen)}
       /\ op # ReadError
       /\ contexts' = <<SetSampled(NewMetadata(Drawn(first, second), op, 0), TRUE)>>
  /\ UNCHANGED <<read, responses, reports>>

\* NewContext decides against a sampled trace.
DecideNot ==
  /\ Len(contexts) = 1 /\ reports = <<>>
  /\ IsSampled(contexts[1])
  /\ contexts' = <<SetSampled(contexts[1], FALSE)>>
  /\ UNCHANGED <<read, responses, reports>>

\* Copy makes ids of full length.  NewContext does not return a sampled context that has not
\* reported its entry.
CopyContext ==
  /\ Len(contexts) = 1
  /\ ~IsSampled(contexts[1]) \/ reports # <<>>
  /\ LET md == contexts[1]
         copy == NewMetadata(Fit(md.task, TaskLen), Fit(md.op, OpLen), md.flags)
     IN contexts' = Append(contexts, copy)
  /\ UNCHANGED <<read, responses, reports>>

\* oboeEventInit: the lengths are those of the context, the ids have full length.
EventMetadata(md, op) == [md EXCEPT !.task = Fit(md.task, TaskLen), !.op = op, !.version = Version]

\* Mutation: an event takes an edge to any trace.
EdgeAnywhere(md, rsp) == IF Readable(rsp) THEN {OpString(Unpack(rsp.bytes))} ELSE {}

\* AddEdgeFromMetadataString wants the same trace.
ResponseEdge(md, rsp) ==
  IF Readable(rsp) /\ Unpack(rsp.bytes).task = Fit(md.task, TaskLen)
  THEN {OpString(Unpack(rsp.bytes))} ELSE {}

\* AddEdge: only the entry event of a new trace does without.
ContextEdge(md) == IF reports = <<>> /\ ~Readable(read) THEN {} ELSE {OpString(md)}

\* An event is reported if prepareEvent finds the task id of the context and another op id.
ReportEvent(c, op, rsp) ==
  LET md == contexts[c]
      event == EventMetadata(md, op)
  IN /\ c \in DOMAIN contexts
     /\ Len(reports) < MaxEvents
     /\ IsSampled(event)
     /\ md.task = event.task /\ md.op # event.op
     /\ reports' = Append(reports, [xtrace |-> Pack(event),
                                    edges |-> ContextEdge(md) \cup ResponseEdge(md, rsp)])
     /\ contexts' = [contexts EXCEPT ![c].op = Fit(event.op, Len(md.op))]
     /\ responses' = responses \cup {rsp}
     /\ UNCHANGED read

MetadataNext ==
  \/ ContinueTrace \/ NewTrace \/ DecideNot \/ CopyContext
  \/ \E c \in DOMAIN contexts, op \in OpDraws \ {ReadError}, rsp \in ResponseHeaders :
       ReportEvent(c, op, rsp)

MetadataSpec == MetadataInit /\ [][MetadataNext]_mdVars

-----------------------------------------------------------------------------
(* Correctness. *)

Xtrace(b) == [odd |-> FALSE, hex |-> TRUE, bytes |-> b]

OpOf(b) == Fit(OpString(Unpack(b)), OpLen)
TaskOf(b) == Unpack(b).task

\* Ops of events before the i-th, of the request, and of responses of the same trace.
EventOps(n) == {OpOf(reports[j].xtrace) : j \in 1..n}
RequestOps == IF Readable(read) THEN {OpOf(read.bytes)} ELSE {}
ResponseOps(i) ==
  {OpOf(r.bytes) : r \in {x \in responses :
                             Readable(x) /\ TaskOf(x.bytes) = TaskOf(reports[i].xtrace)}}

HeaderKept ==
  reports = <<>> /\ Len(contexts) = 1 /\ Readable(read) =>
    LET b == Pack(contexts[1])
    IN /\ \A i \in 2..Len(b) - 1 : b[i] = read.bytes[i]
       /\ read.bytes[1] - b[1] \in {0, 4}
       /\ read.bytes[Len(b)] - b[Len(b)] \in {0, 1}

ReportFaithful(i) ==
  /\ Readable(Xtrace(reports[i].xtrace)) /\ IsSampled(Unpack(reports[i].xtrace))
  /\ Readable(read) => TaskOf(reports[i].xtrace) = Fit(TaskOf(read.bytes), TaskLen)
  /\ \A e \in reports[i].edges : Fit(e, OpLen) \in EventOps(i - 1) \cup RequestOps \cup ResponseOps(i)

\* What a context says of itself is the header it was read from, up to the option bit and what
\* follows the flags.  Every event reported can be read by the next service, which sees a
\* sampled trace with the id of the request's; and every edge is the op id of an event before
\* it, of the request, or of a response of the same trace; short ids are filled up
\* (context.go:170-314, event.go:156-189, reporter.go:169-180).
MetadataFaithful == HeaderKept /\ \A i \in 1..Len(reports) : ReportFaithful(i)
=============================================================================
