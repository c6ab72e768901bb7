----------------------------- MODULE Serverless -----------------------------
(***************************************************************************)
(* The reporter for AWS Lambda (internal/reporter/reporter_serverless.go)   *)
(* and the writer it uses (log_writer.go): messages are gathered in chunks  *)
(* of limited size, one line of the log each.  The writer has a lock; Flush *)
(* of the reporter is several calls of it, between which events of other    *)
(* goroutines arrive.                                                      *)
(***************************************************************************)
EXTENDS Integers, Sequences, Batches

CONSTANTS
  MaxChunkSize,
  Sizes,       \* sizes of encoded messages; none is empty
  MaxMessages  \* bound: messages written

ASSUME ServerlessAssumption ==
  /\ MaxChunkSize \in Nat /\ Sizes \subseteq Nat \ {0} /\ MaxMessages \in Nat

VARIABLES
  syncWrite,  \* every message is flushed at once
  msg,        \* the chunk: events and metrics
  chunkSize,
  written,    \* what the destination was given, one chunk after the other, written or lost
  accepted,   \* history: the messages Write has accepted
  messages,   \* how many so far
  flushing    \* Flush of the reporter: "idle", "setting", "inbound", "custom" or "flush"

serverlessVars == <<syncWrite, msg, chunkSize, written, accepted, messages, flushing>>

NoData == [events |-> <<>>, metrics |-> <<>>]

ServerlessInit ==
  /\ syncWrite \in BOOLEAN
  /\ msg = NoData /\ chunkSize = 0
  /\ written = <<>>
  /\ accepted = NoData /\ messages = 0
  /\ flushing = "idle"

-----------------------------------------------------------------------------
(* The writer.  A chunk whose write fails is lost. *)

\* Mutation: only the message itself is measured.
FitsAlone(size, encoded) == encoded <= MaxChunkSize

Fits(size, encoded) == size + encoded <= MaxChunkSize

Flushed(chunk, size, chunks) == IF size = 0 THEN chunks ELSE Append(chunks, chunk)

\* Write: an oversize message is refused; one that does not fit starts a new chunk; with
\* syncWrite every message makes a chunk of its own.
Write(kind, encoded) ==
  LET first == ~syncWrite /\ ~Fits(chunkSize, encoded)
      chunks == IF first THEN Flushed(msg, chunkSize, written) ELSE written
      chunk == [(IF first /\ chunkSize # 0 THEN NoData ELSE msg)
                  EXCEPT ![kind] = Append(@, [number |-> messages + 1, size |-> encoded])]
      size == (IF first THEN 0 ELSE chunkSize) + encoded
  IN /\ messages < MaxMessages
     /\ messages' = messages + 1
     /\ \/ /\ encoded > MaxChunkSize
           /\ UNCHANGED <<msg, chunkSize, written, accepted>>
        \/ /\ encoded <= MaxChunkSize
           /\ msg' = IF syncWrite THEN NoData ELSE chunk
           /\ chunkSize' = IF syncWrite THEN 0 ELSE size
           /\ written' = IF syncWrite THEN Flushed(chunk, size, chunks) ELSE chunks
           /\ accepted' = [accepted EXCEPT ![kind] = Append(@, [number |-> messages + 1, size |-> encoded])]
     /\ UNCHANGED syncWrite

FlushWriter ==
  /\ written' = Flushed(msg, chunkSize, written)
  /\ msg' = IF chunkSize = 0 THEN msg ELSE NoData
  /\ chunkSize' = 0
  /\ UNCHANGED <<syncWrite, accepted, messages>>

-----------------------------------------------------------------------------
(* The reporter.  An event that cannot be prepared changes nothing. *)

ReportEvent(encoded) == Write("events", encoded) /\ UNCHANGED flushing

StartFlush ==
  /\ flushing = "idle"
  /\ flushing' = "setting"
  /\ UNCHANGED <<syncWrite, msg, chunkSize, written, accepted, messages>>

\* Without a setting there are no metrics.
CheckSetting ==
  /\ flushing = "setting"
  /\ flushing' \in {"inbound", "flush"}
  /\ UNCHANGED <<syncWrite, msg, chunkSize, written, accepted, messages>>

SendInbound(encoded) ==
  /\ flushing = "inbound"
  /\ Write("metrics", encoded)
  /\ flushing' = "custom"

\* There may be no custom metrics.
SendCustom(encoded) ==
  /\ flushing = "custom"
  /\ flushing' = "flush"
  /\ \/ Write("metrics", encoded)
     \/ UNCHANGED <<syncWrite, msg, chunkSize, written, accepted, messages>>

FinishFlush ==
  /\ flushing = "flush"
  /\ FlushWriter
  /\ flushing' = "idle"

ServerlessNext ==
  \/ \E encoded \in Sizes : ReportEvent(encoded) \/ SendInbound(encoded) \/ SendCustom(encoded)
  \/ StartFlush \/ CheckSetting \/ FinishFlush

ServerlessSpec == ServerlessInit /\ [][ServerlessNext]_serverlessVars

-----------------------------------------------------------------------------
(* Correctness. *)

Message == [number : 1..MaxMessages, size : Sizes]
Chunk == [events : Seq(Message), metrics : Seq(Message)]

ServerlessTypeOK ==
  /\ syncWrite \in BOOLEAN /\ chunkSize \in Nat /\ messages \in 0..MaxMessages
  /\ flushing \in {"idle", "setting", "inbound", "custom", "flush"}
  /\ msg \in Chunk /\ accepted \in Chunk /\ written \in Seq(Chunk)

SizeOf(chunk) == BytesIn(chunk.events) + BytesIn(chunk.metrics)

\* The messages of one kind, chunk by chunk.
OfKind(chunks, kind) == [i \in 1..Len(chunks) |-> chunks[i][kind]]

\* Every accepted message is in exactly one chunk, in the order of its kind, and no chunk is
\* larger than the limit or empty, although chunks are cut by Write as well as by Flush and
\* events arrive in the middle of a Flush (log_writer.go:66-126).
ChunksFaithful ==
  /\ \A kind \in {"events", "metrics"} :
       CutUp(Append(OfKind(written, kind), msg[kind]), accepted[kind])
  /\ \A i \in 1..Len(written) : SizeOf(written[i]) \in 1..MaxChunkSize
  /\ SizeOf(msg) = chunkSize /\ chunkSize <= MaxChunkSize
=============================================================================
