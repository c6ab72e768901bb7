----------------------------- MODULE Histogram -----------------------------
(***************************************************************************)
(* The histogram of response times (internal/hdrhist), as the metrics use   *)
(* it (internal/metrics/metrics.go): values are recorded until the next     *)
(* report, for which the counts are encoded.  A bucket holds values of one  *)
(* order of magnitude (base 2), with a fixed number of sub-buckets; bucket 0 *)
(* has twice as many.                                                      *)
(***************************************************************************)
EXTENDS Integers, Sequences, FiniteSetsExt

CONSTANTS
  LowestDiscernible, HighestTrackable, SigFigs,
  Inputs,     \* values that are recorded
  MaxRecords  \* bound: values recorded

ASSUME HistogramAssumption ==
  /\ LowestDiscernible \in Nat \ {0} /\ SigFigs \in 0..5
  /\ HighestTrackable \in Nat /\ HighestTrackable >= 2 * LowestDiscernible
  /\ Inputs \subseteq Nat /\ MaxRecords \in Nat

VARIABLES
  exists,     \* there is a histogram: something was recorded, or too large, since the last report
  counts, totalCount,
  recorded,   \* history: how often every input was recorded since the last report
  records,    \* how many so far
  sent        \* the last report: the encoded counts, and what had been recorded

histogramVars == <<exists, counts, totalCount, recorded, records, sent>>

-----------------------------------------------------------------------------
(* Dimensions (Init). *)

Log2(v) == CHOOSE k \in 0..v : 2^k <= v /\ v < 2^(k + 1)

UnitMag == Log2(LowestDiscernible)
SubCountMag == CHOOSE k \in 1..20 : 2^k >= 2 * 10^SigFigs /\ 2^(k - 1) < 2 * 10^SigFigs
SubHalfCountMag == SubCountMag - 1
SubHalfCount == 2^SubHalfCountMag
SubCount == 2 * SubHalfCount

\* numBucketsToCoverVal
BucketCount ==
  IF SubCount * 2^UnitMag >= HighestTrackable THEN 1
  ELSE CHOOSE r \in 2..31 : /\ SubCount * 2^(UnitMag + r - 1) >= HighestTrackable
                            /\ SubCount * 2^(UnitMag + r - 2) < HighestTrackable

CountsLen == (BucketCount + 1) * SubHalfCount
Indices == 0..CountsLen - 1
NoCounts == [i \in Indices |-> 0]

-----------------------------------------------------------------------------
(* Values and indices. *)

BucketIndex(v) ==
  IF v < SubCount * 2^UnitMag THEN 0 ELSE Log2(v) - SubHalfCountMag - UnitMag

SubBucketIndex(v, bucket) == v \div 2^(bucket + UnitMag)

CountsIndex(v) ==
  LET bucket == BucketIndex(v)
  IN (bucket + 1) * SubHalfCount + SubBucketIndex(v, bucket) - SubHalfCount

ValueFor(i) ==
  LET bucket == i \div SubHalfCount - 1
      sub == i % SubHalfCount
  IN IF bucket < 0 THEN sub * 2^UnitMag ELSE (sub + SubHalfCount) * 2^(bucket + UnitMag)

SizeOfEquivalentValueRange(v) == 2^(UnitMag + BucketIndex(v))

LowestEquiv(v) == SubBucketIndex(v, BucketIndex(v)) * 2^(BucketIndex(v) + UnitMag)

HighestEquiv(v) == LowestEquiv(v) + SizeOfEquivalentValueRange(v) - 1

\* The value below which p percent of the values are.
PercentileVal(cs, total, p) ==
  LET wanted == (p * total + 50) \div 100
      desired == IF wanted < 1 THEN 1 ELSE wanted
      UpTo(i) == MapThenSumSet(LAMBDA j : cs[j], {j \in 0..i : cs[j] > 0})
      enough == {i \in Indices : UpTo(i) >= desired}
  IN IF enough = {} THEN 0
     ELSE IF p = 0 THEN LowestEquiv(ValueFor(Min(enough))) ELSE HighestEquiv(ValueFor(Min(enough)))

-----------------------------------------------------------------------------
(* The encoding: counts up to the largest value, a run of zeros as a negative number, as   *)
(* numbers to the base 128.                                                                 *)

ZigZag(n) == IF n >= 0 THEN 2 * n ELSE -(2 * n) - 1
UnZigZag(n) == IF n % 2 = 0 THEN n \div 2 ELSE -(n \div 2) - 1

Bytes[n \in Nat] == IF n < 128 THEN <<n>> ELSE <<128 + (n % 128)>> \o Bytes[n \div 128]

\* Mutation: the length is the index of the largest value.
LastIndex(cs, total) == CountsIndex(PercentileVal(cs, total, 100))

ImportantLen(cs, total) == CountsIndex(PercentileVal(cs, total, 100)) + 1

FillBuffer(cs, n) ==
  LET RunAt(i) == Max({k \in 0..n - i : \A j \in i..i + k - 1 : cs[j] = 0})
      From[i \in 0..n] ==
        IF i = n THEN <<>>
        ELSE IF RunAt(i) > 1 THEN Bytes[ZigZag(-RunAt(i))] \o From[i + RunAt(i)]
        ELSE Bytes[ZigZag(cs[i])] \o From[i + 1]
  IN From[0]

Encode(cs, total) == FillBuffer(cs, ImportantLen(cs, total))

\* What the collector makes of it (decode.go).
Decode(bytes) ==
  LET LengthAt(pos) == Min({k \in 1..Len(bytes) - pos + 1 : bytes[pos + k - 1] < 128})
      NumberAt(pos) == UnZigZag(MapThenSumSet(LAMBDA k : (bytes[pos + k] % 128) * 128^k,
                                              0..LengthAt(pos) - 1))
      From[pos \in 1..Len(bytes) + 1] ==
        IF pos > Len(bytes) THEN <<>>
        ELSE (IF NumberAt(pos) < 0 THEN [k \in 1..-NumberAt(pos) |-> 0] ELSE <<NumberAt(pos)>>)
             \o From[pos + LengthAt(pos)]
      cs == From[1]
  IN [i \in Indices |-> IF i < Len(cs) THEN cs[i + 1] ELSE 0]

-----------------------------------------------------------------------------
NothingRecorded == [v \in Inputs |-> 0]

HistogramInit ==
  /\ exists = FALSE
  /\ counts = NoCounts /\ totalCount = 0
  /\ recorded = NothingRecorded /\ records = 0
  /\ sent = [bytes |-> <<>>, recorded |-> NothingRecorded]

\* A value that is too large panics; recordHistogram recovers, and the value is lost.
RecordValue(v) ==
  /\ records < MaxRecords
  /\ records' = records + 1 /\ exists' = TRUE
  /\ \/ /\ CountsIndex(v) \in Indices
        /\ counts' = [counts EXCEPT ![CountsIndex(v)] = @ + 1]
        /\ totalCount' = totalCount + 1
        /\ recorded' = [recorded EXCEPT ![v] = @ + 1]
     \/ /\ CountsIndex(v) \notin Indices
        /\ UNCHANGED <<counts, totalCount, recorded>>
  /\ UNCHANGED sent

\* A report encodes the histogram, if there is one, and starts anew.
ReportHistogram ==
  /\ exists /\ exists' = FALSE
  /\ sent' = [bytes |-> Encode(counts, totalCount), recorded |-> recorded]
  /\ counts' = NoCounts /\ totalCount' = 0
  /\ recorded' = NothingRecorded
  /\ UNCHANGED records

HistogramNext == (\E v \in Inputs : RecordValue(v)) \/ ReportHistogram

HistogramSpec == HistogramInit /\ [][HistogramNext]_histogramVars

-----------------------------------------------------------------------------
(* Correctness. *)

\* The counts of what was recorded, by equivalence of values.
CountsOf(history) ==
  [i \in Indices |-> MapThenSumSet(LAMBDA v : history[v], {v \in Inputs : CountsIndex(v) = i})]

\* What the collector decodes is what was recorded, up to the precision, which holds for every
\* value that is tracked, and the median and the extremes, from the buckets, are those of the
\* values (hist.go:151-215, :392-426, encode.go:41-96, decode.go:137-179).
HistogramFaithful ==
  /\ ~exists /\ sent.bytes # <<>> => Decode(sent.bytes) = CountsOf(sent.recorded)
  /\ exists => \A v \in {w \in Inputs : w <= HighestTrackable} :
       /\ CountsIndex(v) \in Indices
       /\ ValueFor(CountsIndex(v)) = LowestEquiv(v) /\ v \in LowestEquiv(v)..HighestEquiv(v)
       /\ (SizeOfEquivalentValueRange(v) - 1) * 10^SigFigs <= v \/ v < SubCount * 2^UnitMag
  /\ totalCount > 0 =>
       LET values == {v \in Inputs : recorded[v] > 0}
           UpTo(v) == MapThenSumSet(LAMBDA w : recorded[w], {w \in values : w <= v})
           median == Min({v \in values : 2 * UpTo(v) >= totalCount})
       IN /\ PercentileVal(counts, totalCount, 0) = LowestEquiv(Min(values))
          /\ PercentileVal(counts, totalCount, 100) = HighestEquiv(Max(values))
          /\ PercentileVal(counts, totalCount, 50) = HighestEquiv(median)
=============================================================================
