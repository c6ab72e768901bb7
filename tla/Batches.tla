-------------------------------- MODULE Batches --------------------------------
(***************************************************************************)
(* What it means that events were counted in bytes, and that they were cut  *)
(* into batches.  There is no fold: a sum is the size of a set, so that it   *)
(* can be reasoned about as well as evaluated.                              *)
(***************************************************************************)
EXTENDS Integers, Sequences, FiniteSets

\* The sum of f[1], ..., f[n].
SumTo(f, n) == Cardinality(UNION {{i} \X (1..f[i]) : i \in 1..n})

\* The sizes of the events, together.
BytesIn(events) == SumTo([i \in 1..Len(events) |-> events[i].size], Len(events))

\* How many events are in the first n batches.
Cut(batches, n) == SumTo([i \in 1..Len(batches) |-> Len(batches[i])], n)

\* The batches are consecutive pieces of the events, from the first event on.
CutOff(batches, events) ==
  \A i \in 1..Len(batches) :
    /\ Cut(batches, i) <= Len(events)
    /\ batches[i] = SubSeq(events, Cut(batches, i - 1) + 1, Cut(batches, i))

\* The batches are all of the events.
CutUp(batches, events) ==
  CutOff(batches, events) /\ Cut(batches, Len(batches)) = Len(events)
=============================================================================
