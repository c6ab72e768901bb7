----------------------------- MODULE TokenBucket -----------------------------
(***************************************************************************)
(* tokenBucket of internal/reporter/oboe.go, with the RateCounts it embeds  *)
(* (internal/metrics/metrics.go).  Requests ask count whether they may be   *)
(* traced; getSettings sets rate and capacity; collectMetrics flushes the   *)
(* counters, one after the other; the clock goes on.                        *)
(*                                                                         *)
(* Tokens are counted in units, so that a rate may be less than a token per *)
(* tick of the clock: `Token' is the number of units one request takes.     *)
(***************************************************************************)
EXTENDS Integers, Sequences

CONSTANTS
  Requests,      \* goroutines that ask for a decision
  Token,         \* units of one token
  Rates,         \* rates the collector may send, in units per tick
  Capacities,    \* capacities the collector may send, in units
  Epoch,         \* ticks between time.Time{} and the start of the program
  MaxTicks,      \* bound: how long the clock runs
  MaxRequests,   \* bound: how many decisions are asked for
  MaxChanges     \* bound: how often the collector sends rate and capacity

ASSUME TokenAssumption ==
  /\ Token \in Nat \ {0}
  /\ Rates \subseteq Nat
  /\ Capacities \subseteq Nat
  /\ Epoch \in Nat
  /\ MaxTicks \in Nat /\ MaxRequests \in Nat /\ MaxChanges \in Nat

\* RateCounts, in the order in which they are flushed.
FlushOrder == <<"requested", "sampled", "limited", "traced", "through">>
Counters == {"requested", "sampled", "limited", "traced", "through"}

VARIABLES
  ratePerSec, capacity, available, last,
  counts,    \* the embedded counters
  pc,        \* per request: "idle", "consume", or the counter it increments next
  args,      \* per request: the arguments of count
  flushed,   \* how many counters the flush under way has read
  now,       \* the clock
  changes,   \* how many times rate and capacity were set
  admitted,  \* history: when tokens were taken, since rate or capacity changed
  reported,  \* history: the sum of all flushes
  asked,     \* history: the calls of count, by hasMetadata
  granted,   \* history: those that returned TRUE, by hasMetadata
  refused    \* history: those that found no token

tokenVars == <<ratePerSec, capacity, available, last>>
requestVars == <<pc, args>>
histVars == <<admitted, reported, asked, granted, refused>>
vars == <<tokenVars, counts, requestVars, flushed, now, changes, histVars>>

\* What oboeSampleRequest passes to count: a request that continues a trace has metadata
\* and is not limited; a new one is limited if it is sampled, a triggered one always.
Args == {a \in [sampled : BOOLEAN, hasMetadata : BOOLEAN, rateLimit : BOOLEAN] :
           /\ a.hasMetadata => ~a.rateLimit
           /\ ~a.hasMetadata /\ a.sampled => a.rateLimit}

\* What is left of the arguments when count has returned.
NoArgs == [sampled |-> FALSE, hasMetadata |-> FALSE, rateLimit |-> TRUE]

NoCalls == [b \in BOOLEAN |-> 0]

Init ==
  /\ ratePerSec = 0 /\ capacity = 0 /\ available = 0 /\ last = 0
  /\ counts = [c \in Counters |-> 0]
  /\ pc = [r \in Requests |-> "idle"]
  /\ args = [r \in Requests |-> NoArgs]
  /\ flushed = 0
  /\ now = Epoch
  /\ changes = 0
  /\ admitted = <<>>
  /\ reported = [c \in Counters |-> 0]
  /\ asked = NoCalls /\ granted = NoCalls /\ refused = 0

-----------------------------------------------------------------------------
(* The clock and the collector. *)

Tick ==
  /\ now < Epoch + MaxTicks
  /\ now' = now + 1
  /\ UNCHANGED <<tokenVars, counts, requestVars, flushed, changes, histVars>>

\* Mutation: the tokens that do not fit any more are kept.
SetKeepsTokens(rate, cap) ==
  /\ changes < MaxChanges
  /\ changes' = changes + 1
  /\ ratePerSec' = rate
  /\ capacity' = cap
  /\ admitted' = IF rate = ratePerSec /\ cap = capacity THEN admitted ELSE <<>>
  /\ UNCHANGED <<available, last, counts, requestVars, flushed, now,
                 reported, asked, granted, refused>>

\* setRateCap: what exceeds the new capacity is lost; `last' stays as it is.
SetRateCap(rate, cap) ==
  /\ changes < MaxChanges
  /\ changes' = changes + 1
  /\ ratePerSec' = rate
  /\ capacity' = cap
  /\ available' = IF available > cap THEN cap ELSE available
  /\ admitted' = IF rate = ratePerSec /\ cap = capacity THEN admitted ELSE <<>>
  /\ UNCHANGED <<last, counts, requestVars, flushed, now, reported, asked, granted, refused>>

-----------------------------------------------------------------------------
(* count. *)

\* Where count goes on when the request was counted.
AfterSampled(a) ==
  IF ~a.sampled THEN "idle"
  ELSE IF a.rateLimit THEN "consume"
  ELSE IF a.hasMetadata THEN "through" ELSE "traced"

\* The arguments live as long as the call.
Goto(r, l) ==
  /\ pc' = [pc EXCEPT ![r] = l]
  /\ args' = IF l = "idle" THEN [args EXCEPT ![r] = NoArgs] ELSE args

Count(r, a) ==
  /\ pc[r] = "idle"
  /\ asked[TRUE] + asked[FALSE] < MaxRequests
  /\ asked' = [asked EXCEPT ![a.hasMetadata] = @ + 1]
  /\ args' = [args EXCEPT ![r] = a]
  /\ pc' = [pc EXCEPT ![r] = "requested"]
  /\ UNCHANGED <<tokenVars, counts, flushed, now, changes, admitted, reported, granted, refused>>

\* r increments counter c, atomically.
Increment(r, c) ==
  /\ pc[r] = c
  /\ counts' = [counts EXCEPT ![c] = @ + 1]
  /\ UNCHANGED <<tokenVars, flushed, now, changes, admitted, reported, asked>>

CountRequested(r) ==
  /\ Increment(r, "requested")
  /\ Goto(r, IF args[r].hasMetadata THEN AfterSampled(args[r]) ELSE "sampled")
  /\ UNCHANGED <<granted, refused>>

CountSampled(r) ==
  /\ Increment(r, "sampled")
  /\ Goto(r, AfterSampled(args[r]))
  /\ UNCHANGED <<granted, refused>>

CountLimited(r) ==
  /\ Increment(r, "limited")
  /\ Goto(r, "idle")
  /\ UNCHANGED <<granted, refused>>

CountThrough(r) ==
  /\ Increment(r, "through")
  /\ Goto(r, "traced")
  /\ UNCHANGED <<granted, refused>>

CountTraced(r) ==
  /\ Increment(r, "traced")
  /\ Goto(r, "idle")
  /\ granted' = [granted EXCEPT ![args[r].hasMetadata] = @ + 1]
  /\ UNCHANGED refused

-----------------------------------------------------------------------------
(* consume and update, under the bucket's lock. *)

\* The tokens in the bucket after update.  A full bucket takes no notice of the time.
Refilled ==
  LET newTokens == ratePerSec * (now - last)
  IN IF available < capacity /\ now > last
       THEN IF available + newTokens < capacity THEN available + newTokens ELSE capacity
       ELSE available

\* Mutation: the time of the last refill is not kept.
LastForgotten == last

LastUpdate == IF available < capacity THEN now ELSE last

Consume(r) ==
  /\ pc[r] = "consume"
  /\ last' = LastUpdate
  /\ \/ /\ Refilled >= Token
        /\ available' = Refilled - Token
        /\ admitted' = Append(admitted, now)
        /\ Goto(r, IF args[r].hasMetadata THEN "through" ELSE "traced")
        /\ UNCHANGED refused
     \/ /\ Refilled < Token
        /\ available' = Refilled
        /\ Goto(r, "limited")
        /\ refused' = refused + 1
        /\ UNCHANGED admitted
  /\ UNCHANGED <<ratePerSec, capacity, counts, flushed, now, changes,
                 reported, asked, granted>>

-----------------------------------------------------------------------------
(* FlushRateCounts: each counter is swapped for zero, atomically, one after the other. *)

\* Mutation: the counters are read one after the other and reset at the end.
FlushThenReset ==
  LET c == FlushOrder[flushed + 1] IN
  /\ reported' = [reported EXCEPT ![c] = @ + counts[c]]
  /\ counts' = IF flushed = 4 THEN [d \in Counters |-> 0] ELSE counts
  /\ flushed' = (flushed + 1) % 5
  /\ UNCHANGED <<tokenVars, requestVars, now, changes, admitted, asked, granted, refused>>

Flush ==
  LET c == FlushOrder[flushed + 1] IN
  /\ reported' = [reported EXCEPT ![c] = @ + counts[c]]
  /\ counts' = [counts EXCEPT ![c] = 0]
  /\ flushed' = (flushed + 1) % 5
  /\ UNCHANGED <<tokenVars, requestVars, now, changes, admitted, asked, granted, refused>>

-----------------------------------------------------------------------------
Request(r) ==
  \/ \E a \in Args : Count(r, a)
  \/ CountRequested(r) \/ CountSampled(r) \/ CountLimited(r)
  \/ CountThrough(r) \/ CountTraced(r)
  \/ Consume(r)

Next ==
  \/ Tick
  \/ \E rate \in Rates, cap \in Capacities : SetRateCap(rate, cap)
  \/ \E r \in Requests : Request(r)
  \/ Flush

Spec == Init /\ [][Next]_vars

-----------------------------------------------------------------------------
(* Correctness. *)

TypeOK ==
  /\ ratePerSec \in Nat /\ capacity \in Nat
  /\ available \in 0..capacity
  /\ last \in 0..now
  /\ counts \in [Counters -> Nat]
  /\ pc \in [Requests -> Counters \cup {"idle", "consume"}]
  /\ args \in [Requests -> Args]
  /\ flushed \in 0..4
  /\ now \in Nat /\ changes \in Nat
  /\ admitted \in Seq(Nat)
  /\ reported \in [Counters -> Nat]
  /\ asked \in [BOOLEAN -> Nat] /\ granted \in [BOOLEAN -> Nat] /\ refused \in Nat

\* In every interval in which rate and capacity stay the same, however the requests
\* interleave and however long the bucket stood idle before, the bucket admits no more
\* than its capacity, what the rate yields in the interval, and one more token.  That one
\* is the price of update leaving `last' alone while the bucket is full (oboe.go:200): a
\* bucket setRateCap left full is refilled, after its first token, for the time before.
BurstBounded ==
  \A j \in 1..Len(admitted) : \A i \in 1..j :
    (j - i + 1) * Token <= capacity + Token + ratePerSec * (admitted[j] - admitted[i])

Total(c) == counts[c] + reported[c]

\* When no request is being counted, the reports sent so far and what is left for the
\* next one give exactly the decisions made: flushing the counters one by one beside
\* running requests loses none and counts none twice (oboe.go:163-186, metrics.go:161).
CountsMatchDecisions ==
  (\A r \in Requests : pc[r] = "idle") =>
    /\ Total("requested") = asked[TRUE] + asked[FALSE]
    /\ Total("sampled") = asked[FALSE]
    /\ Total("limited") = refused
    /\ Total("traced") = granted[TRUE] + granted[FALSE]
    /\ Total("through") = granted[TRUE]
=============================================================================
