----------------------------- MODULE BatchesProofs -----------------------------
(* What one more event does to a sum, and one more batch to the cuts.      *)
EXTENDS Batches, SequenceTheorems, FiniteSetTheorems, TLAPS

-----------------------------------------------------------------------------
(* Sums. *)

LEMMA SumOfNothing == \A f : SumTo(f, 0) = 0
  <1> TAKE f
  <1>1. UNION {{i} \X (1..f[i]) : i \in 1..0} = {}
    OBVIOUS
  <1> QED
    BY <1>1, FS_EmptySet DEF SumTo

\* The sum depends on the numbers added up only.
LEMMA SameSum ==
  ASSUME NEW n \in Nat, NEW f, NEW g, \A i \in 1..n : f[i] = g[i]
  PROVE  SumTo(f, n) = SumTo(g, n)
  <1>1. {{i} \X (1..f[i]) : i \in 1..n} = {{i} \X (1..g[i]) : i \in 1..n}
    OBVIOUS
  <1> QED
    BY <1>1 DEF SumTo

LEMMA UnitsFinite ==
  ASSUME NEW n \in Nat, NEW f, \A i \in 1..n : f[i] \in Nat
  PROVE  IsFiniteSet(UNION {{i} \X (1..f[i]) : i \in 1..n})
  <1> DEFINE units == [i \in 1..n |-> {i} \X (1..f[i])]
             parts == {{i} \X (1..f[i]) : i \in 1..n}
  <1>1. units \in Surjection(1..n, parts)
    BY DEF Surjection
  <1>2. IsFiniteSet(1..n)
    BY FS_Interval
  <1>3. IsFiniteSet(parts)
    BY <1>1, <1>2, FS_Surjection
  <1>4. \A part \in parts : IsFiniteSet(part)
    <2>1. ASSUME NEW i \in 1..n PROVE IsFiniteSet({i} \X (1..f[i]))
      <3>1. 1 \in Int /\ f[i] \in Int
        OBVIOUS
      <3>2. IsFiniteSet({i}) /\ IsFiniteSet(1..f[i])
        BY <3>1, FS_Singleton, FS_Interval
      <3> QED
        BY <3>2, FS_Product
    <2> QED
      BY <2>1
  <1> QED
    BY <1>3, <1>4, FS_UNION

LEMMA SumIsNat ==
  ASSUME NEW n \in Nat, NEW f, \A i \in 1..n : f[i] \in Nat
  PROVE  SumTo(f, n) \in Nat
  BY UnitsFinite, FS_CardinalityType DEF SumTo

LEMMA NextSum ==
  ASSUME NEW n \in Nat, NEW f, \A i \in 1..(n + 1) : f[i] \in Nat
  PROVE  SumTo(f, n + 1) = SumTo(f, n) + f[n + 1]
  <1> DEFINE before == UNION {{i} \X (1..f[i]) : i \in 1..n}
             last == {n + 1} \X (1..f[n + 1])
             all == UNION {{i} \X (1..f[i]) : i \in 1..(n + 1)}
  <1>1. f[n + 1] \in Nat /\ \A i \in 1..n : f[i] \in Nat
    OBVIOUS
  <1>2. 1..(n + 1) = (1..n) \cup {n + 1} /\ n + 1 \notin 1..n
    OBVIOUS
  <1>3. all = before \cup last
    BY <1>2
  <1>4. before \cap last = {}
    BY <1>2
  <1>5. IsFiniteSet(before)
    BY <1>1, UnitsFinite
  <1>6. IsFiniteSet(last) /\ Cardinality(last) = f[n + 1]
    <2>1. IsFiniteSet({n + 1}) /\ Cardinality({n + 1}) = 1
      BY FS_Singleton
    <2>2. IsFiniteSet(1..f[n + 1]) /\ Cardinality(1..f[n + 1]) = f[n + 1]
      <3>1. 1 \in Int /\ f[n + 1] \in Int
        BY <1>1
      <3>2. /\ IsFiniteSet(1..f[n + 1])
            /\ Cardinality(1..f[n + 1]) = IF 1 > f[n + 1] THEN 0 ELSE f[n + 1] - 1 + 1
        BY <3>1, FS_Interval
      <3> QED
        BY <1>1, <3>2
    <2>3. IsFiniteSet(last) /\ Cardinality(last) = 1 * f[n + 1]
      BY <2>1, <2>2, FS_Product
    <2> QED
      BY <1>1, <2>3
  <1>7. Cardinality(before) \in Nat
    BY <1>5, FS_CardinalityType
  <1>8. Cardinality(all) = Cardinality(before) + Cardinality(last) - 0
    <2>1. Cardinality(before \cup last) = Cardinality(before) + Cardinality(last) - Cardinality(before \cap last)
      BY <1>5, <1>6, FS_Union
    <2> QED
      BY <1>3, <1>4, <2>1, FS_EmptySet
  <1>9. SumTo(f, n + 1) = Cardinality(all) /\ SumTo(f, n) = Cardinality(before)
    BY DEF SumTo
  <1> HIDE DEF before, last, all
  <1> QED
    BY <1>1, <1>6, <1>7, <1>8, <1>9

LEMMA NoBytes == BytesIn(<<>>) = 0
  <1>1. Len(<<>>) = 0
    OBVIOUS
  <1> QED
    BY <1>1, SumOfNothing DEF BytesIn

LEMMA BytesIsNat ==
  ASSUME NEW S, NEW events \in Seq(S), \A e \in S : e.size \in Nat
  PROVE  BytesIn(events) \in Nat
  <1> DEFINE f == [i \in 1..Len(events) |-> events[i].size]
  <1>1. Len(events) \in Nat /\ \A i \in 1..Len(events) : events[i] \in S
    BY LenProperties
  <1>2. \A i \in 1..Len(events) : f[i] \in Nat
    BY <1>1
  <1> HIDE DEF f
  <1> QED
    BY <1>1, <1>2, SumIsNat DEF BytesIn, f

LEMMA MoreBytes ==
  ASSUME NEW S, NEW events \in Seq(S), NEW event \in S, \A e \in S : e.size \in Nat
  PROVE  /\ BytesIn(events) \in Nat
         /\ BytesIn(Append(events, event)) = BytesIn(events) + event.size
  <1> DEFINE len == Len(events)
             longer == Append(events, event)
             f == [i \in 1..len |-> events[i].size]
             g == [i \in 1..Len(longer) |-> longer[i].size]
  <1>1. /\ len \in Nat /\ Len(longer) = len + 1
        /\ \A i \in 1..len : longer[i] = events[i] /\ events[i] \in S
        /\ longer[len + 1] = event
    BY AppendProperties, LenProperties
  <1>2. /\ \A i \in 1..len : f[i] = g[i]
        /\ \A i \in 1..len : f[i] \in Nat
        /\ g[len + 1] = event.size
    <2>1. \A i \in 1..len : i \in 1..Len(longer)
      BY <1>1
    <2>2. len + 1 \in 1..Len(longer)
      BY <1>1
    <2> QED
      BY <1>1, <2>1, <2>2
  <1> HIDE DEF len, longer, f, g
  <1>3. \A i \in 1..(len + 1) : g[i] \in Nat
    <2>1. \A i \in 1..(len + 1) : i \in 1..len \/ i = len + 1
      BY <1>1
    <2> QED
      BY <1>2, <2>1
  <1>4. SumTo(g, len + 1) = SumTo(g, len) + g[len + 1] /\ SumTo(f, len) = SumTo(g, len)
    BY <1>1, <1>2, <1>3, NextSum, SameSum
  <1>5. SumTo(f, len) \in Nat
    BY <1>1, <1>2, SumIsNat
  <1>6. BytesIn(events) = SumTo(f, len) /\ BytesIn(longer) = SumTo(g, len + 1)
    BY <1>1 DEF BytesIn, f, g, len
  <1> QED
    BY <1>2, <1>4, <1>5, <1>6 DEF longer

-----------------------------------------------------------------------------
(* Cuts. *)

LEMMA FirstCut == \A batches : Cut(batches, 0) = 0
  BY SumOfNothing DEF Cut

LEMMA CutIsNat ==
  ASSUME NEW S, NEW batches \in Seq(Seq(S)), NEW n \in 0..Len(batches)
  PROVE  Cut(batches, n) \in Nat
  <1> DEFINE f == [i \in 1..Len(batches) |-> Len(batches[i])]
  <1>1. Len(batches) \in Nat /\ \A i \in 1..Len(batches) : batches[i] \in Seq(S)
    BY LenProperties
  <1>2. n \in Nat /\ \A i \in 1..n : i \in 1..Len(batches)
    BY <1>1
  <1>3. \A i \in 1..n : f[i] \in Nat
    BY <1>1, <1>2, LenProperties
  <1> HIDE DEF f
  <1>4. SumTo(f, n) \in Nat
    BY <1>2, <1>3, SumIsNat
  <1> QED
    BY <1>4 DEF Cut, f

LEMMA CutsGrow ==
  ASSUME NEW S, NEW batches \in Seq(Seq(S)), NEW i \in 1..Len(batches)
  PROVE  Cut(batches, i) = Cut(batches, i - 1) + Len(batches[i])
  <1> DEFINE f == [j \in 1..Len(batches) |-> Len(batches[j])]
             n == i - 1
  <1>1. Len(batches) \in Nat /\ \A j \in 1..Len(batches) : batches[j] \in Seq(S)
    BY LenProperties
  <1>2. n \in Nat /\ i = n + 1 /\ \A j \in 1..i : j \in 1..Len(batches)
    BY <1>1
  <1>3. \A j \in 1..i : f[j] \in Nat
    BY <1>1, <1>2, LenProperties
  <1>4. f[i] = Len(batches[i])
    OBVIOUS
  <1> HIDE DEF f, n
  <1>5. SumTo(f, n + 1) = SumTo(f, n) + f[n + 1]
    BY <1>2, <1>3, NextSum
  <1>6. SumTo(f, i) = SumTo(f, i - 1) + f[i]
    BY <1>2, <1>5 DEF n
  <1> QED
    BY <1>4, <1>6 DEF Cut, f

\* The cuts of the first batches do not depend on the later ones.
LEMMA SameCuts ==
  ASSUME NEW S, NEW batches \in Seq(Seq(S)), NEW later \in Seq(Seq(S)), NEW n \in 0..Len(batches)
  PROVE  Cut(batches \o later, n) = Cut(batches, n)
  <1> DEFINE all == batches \o later
             f == [i \in 1..Len(batches) |-> Len(batches[i])]
             g == [i \in 1..Len(all) |-> Len(all[i])]
  <1>1. /\ Len(batches) \in Nat /\ Len(later) \in Nat /\ Len(all) = Len(batches) + Len(later)
        /\ \A i \in 1..Len(batches) : all[i] = batches[i]
    BY ConcatProperties, LenProperties
  <1>2. n \in Nat /\ \A i \in 1..n : i \in 1..Len(batches) /\ i \in 1..Len(all)
    BY <1>1
  <1>3. \A i \in 1..n : f[i] = g[i]
    BY <1>1, <1>2
  <1> HIDE DEF f, g
  <1>4. SumTo(f, n) = SumTo(g, n)
    BY <1>2, <1>3, SameSum
  <1> QED
    BY <1>4 DEF Cut, f, g

\* One more batch.
LEMMA AppendedBatches ==
  ASSUME NEW S, NEW batches \in Seq(Seq(S)), NEW batch \in Seq(S)
  PROVE  /\ Len(batches) \in Nat /\ Len(Append(batches, batch)) = Len(batches) + 1
         /\ \A i \in 1..Len(batches) : Append(batches, batch)[i] = batches[i]
         /\ Append(batches, batch)[Len(batches) + 1] = batch
         /\ Append(batches, batch) \in Seq(Seq(S)) /\ <<batch>> \in Seq(Seq(S))
         /\ Append(batches, batch) = batches \o <<batch>>
  <1> DEFINE B == Seq(S)
  <1>1. batches \in Seq(B) /\ batch \in B
    OBVIOUS
  <1> HIDE DEF B
  <1>2. <<batch>> \in Seq(B)
    BY <1>1
  <1>3. Len(batches) \in Nat /\ Append(batches, batch) = batches \o <<batch>>
    BY <1>1, LenProperties, AppendIsConcat
  <1>4. /\ Len(Append(batches, batch)) = Len(batches) + 1
        /\ \A i \in 1..Len(batches) : Append(batches, batch)[i] = batches[i]
        /\ Append(batches, batch)[Len(batches) + 1] = batch
        /\ Append(batches, batch) \in Seq(B)
    BY <1>1, AppendProperties
  <1> QED
    BY <1>2, <1>3, <1>4 DEF B

LEMMA CutsOfAppended ==
  ASSUME NEW S, NEW batches \in Seq(Seq(S)), NEW batch \in Seq(S), NEW n \in 0..Len(batches)
  PROVE  Cut(Append(batches, batch), n) = Cut(batches, n)
  <1>1. Append(batches, batch) = batches \o <<batch>> /\ <<batch>> \in Seq(Seq(S))
    BY AppendedBatches
  <1> QED
    BY <1>1, SameCuts

\* A piece of a sequence is a piece of any longer one.
LEMMA PieceStays ==
  ASSUME NEW S, NEW s \in Seq(S), NEW t \in Seq(S),
         NEW m \in 0..Len(s), NEW n \in 0..Len(s), m <= n
  PROVE  SubSeq(s \o t, m + 1, n) = SubSeq(s, m + 1, n)
  <1>1. Len(s) \in Nat
    BY LenProperties
  <1>2. CASE m = n
    BY <1>1, <1>2, SubSeqEmpty
  <1>3. CASE m # n
    <2>1. m + 1 \in 1..Len(s) /\ n \in 1..Len(s)
      BY <1>1, <1>3
    <2> QED
      BY <2>1, SubSeqOfConcat1
  <1> QED
    BY <1>2, <1>3

\* What is appended is the last piece.
LEMMA LastPiece ==
  ASSUME NEW S, NEW s \in Seq(S), NEW t \in Seq(S)
  PROVE  SubSeq(s \o t, Len(s) + 1, Len(s) + Len(t)) = t
  <1>1. Len(s) \in Nat /\ Len(t) \in Nat
    BY LenProperties
  <1>2. CASE t = <<>>
    <2>1. Len(t) = 0
      BY <1>2
    <2> QED
      BY <1>1, <1>2, <2>1, SubSeqEmpty
  <1>3. CASE t # <<>>
    <2>1. Len(t) # 0
      BY <1>3, EmptySeq
    <2>2. /\ Len(s) + 1 \in Len(s) + 1 .. Len(s) + Len(t)
          /\ Len(s) + Len(t) \in Len(s) + 1 .. Len(s) + Len(t)
      BY <1>1, <2>1
    <2>3. SubSeq(s \o t, Len(s) + 1, Len(s) + Len(t))
            = SubSeq(t, (Len(s) + 1) - Len(s), (Len(s) + Len(t)) - Len(s))
      BY <2>2, SubSeqOfConcat2
    <2>4. (Len(s) + 1) - Len(s) = 1 /\ (Len(s) + Len(t)) - Len(s) = Len(t)
      BY <1>1
    <2> QED
      BY <1>1, <2>3, <2>4, SubSeqFull
  <1> QED
    BY <1>2, <1>3

LEMMA NothingIsCutUp == CutUp(<<>>, <<>>)
  <1>1. Len(<<>>) = 0
    OBVIOUS
  <1> QED
    BY <1>1, FirstCut DEF CutUp, CutOff

LEMMA CutUpIsCutOff ==
  ASSUME NEW batches, NEW events, CutUp(batches, events)
  PROVE  CutOff(batches, events)
  BY DEF CutUp

\* Batches cut off the events stay so when events are appended.
LEMMA MoreEvents ==
  ASSUME NEW S, NEW batches \in Seq(Seq(S)), NEW events \in Seq(S), NEW others \in Seq(S),
         CutOff(batches, events)
  PROVE  CutOff(batches, events \o others)
  <1> SUFFICES ASSUME NEW i \in 1..Len(batches)
               PROVE  /\ Cut(batches, i) <= Len(events \o others)
                      /\ batches[i] = SubSeq(events \o others, Cut(batches, i - 1) + 1, Cut(batches, i))
    BY DEF CutOff
  <1> DEFINE m == Cut(batches, i - 1)
             n == Cut(batches, i)
  <1>1. n <= Len(events) /\ batches[i] = SubSeq(events, m + 1, n)
    BY DEF CutOff
  <1>2. Len(batches) \in Nat /\ i - 1 \in 0..Len(batches) /\ i \in 0..Len(batches)
    BY LenProperties
  <1>3. m \in Nat /\ n \in Nat
    BY <1>2, CutIsNat
  <1>4. batches[i] \in Seq(S) /\ n = m + Len(batches[i])
    BY CutsGrow, LenProperties
  <1>5. Len(batches[i]) \in Nat
    BY <1>4, LenProperties
  <1>6. Len(events) \in Nat /\ Len(others) \in Nat /\ Len(events \o others) = Len(events) + Len(others)
    BY ConcatProperties, LenProperties
  <1> HIDE DEF m, n
  <1>7. m \in 0..Len(events) /\ n \in 0..Len(events) /\ m <= n /\ n <= Len(events \o others)
    BY <1>1, <1>3, <1>4, <1>5, <1>6
  <1>8. SubSeq(events \o others, m + 1, n) = SubSeq(events, m + 1, n)
    BY <1>7, PieceStays
  <1> QED
    BY <1>1, <1>7, <1>8 DEF m, n

\* The events that are appended make one more batch.
LEMMA OneMoreBatch ==
  ASSUME NEW S, NEW batches \in Seq(Seq(S)), NEW events \in Seq(S), NEW batch \in Seq(S),
         CutUp(batches, events)
  PROVE  CutUp(Append(batches, batch), events \o batch)
  <1> DEFINE len == Len(batches)
             more == Append(batches, batch)
             all == events \o batch
  <1>1. /\ len \in Nat
        /\ Len(more) = len + 1
        /\ \A i \in 1..len : more[i] = batches[i]
        /\ more[len + 1] = batch
        /\ more \in Seq(Seq(S))
    BY AppendedBatches
  <1>2. /\ all \in Seq(S) /\ Len(events) \in Nat /\ Len(batch) \in Nat
        /\ Len(all) = Len(events) + Len(batch)
    BY ConcatProperties, LenProperties
  <1>3. \A n \in 0..len : Cut(more, n) = Cut(batches, n)
    BY CutsOfAppended
  <1>4. Cut(more, len) = Len(events)
    <2>1. len \in 0..len
      BY <1>1
    <2>2. Cut(batches, len) = Len(events)
      BY DEF CutUp
    <2> QED
      BY <1>3, <2>1, <2>2
  <1>5. Cut(more, len + 1) = Len(all)
    <2>1. len + 1 \in 1..Len(more) /\ (len + 1) - 1 = len
      BY <1>1
    <2>2. Cut(more, len + 1) = Cut(more, (len + 1) - 1) + Len(more[len + 1])
      BY <1>1, <2>1, CutsGrow
    <2> QED
      BY <1>1, <1>2, <1>4, <2>1, <2>2
  <1>6. CutOff(batches, all)
    BY MoreEvents DEF CutUp
  <1>7. SubSeq(all, Len(events) + 1, Len(all)) = batch
    BY <1>2, LastPiece
  <1>8. ASSUME NEW i \in 1..Len(more)
        PROVE  /\ Cut(more, i) <= Len(all)
               /\ more[i] = SubSeq(all, Cut(more, i - 1) + 1, Cut(more, i))
    <2>1. CASE i = len + 1
      <3>1. i - 1 = len
        BY <1>1, <2>1
      <3> QED
        BY <1>1, <1>2, <1>4, <1>5, <1>7, <2>1, <3>1
    <2>2. CASE i # len + 1
      <3>1. i \in 1..len /\ i \in 0..len /\ i - 1 \in 0..len
        BY <1>1, <2>2
      <3>2. Cut(more, i) = Cut(batches, i) /\ Cut(more, i - 1) = Cut(batches, i - 1)
        BY <1>3, <3>1
      <3>3. Cut(batches, i) <= Len(all) /\ batches[i] = SubSeq(all, Cut(batches, i - 1) + 1, Cut(batches, i))
        BY <1>6, <3>1 DEF CutOff
      <3> QED
        BY <1>1, <3>1, <3>2, <3>3
    <2> QED
      BY <2>1, <2>2
  <1> QED
    BY <1>1, <1>5, <1>8 DEF CutUp, CutOff

\* The first of some batches cut off the events are cut off them, too.
LEMMA FirstBatches ==
  ASSUME NEW S, NEW batches \in Seq(Seq(S)), NEW later \in Seq(Seq(S)), NEW events \in Seq(S),
         CutOff(batches \o later, events)
  PROVE  CutOff(batches, events)
  <1> DEFINE all == batches \o later
  <1>1. /\ Len(batches) \in Nat /\ Len(all) \in Nat /\ Len(batches) <= Len(all)
        /\ \A i \in 1..Len(batches) : all[i] = batches[i]
    BY ConcatProperties, LenProperties
  <1> SUFFICES ASSUME NEW i \in 1..Len(batches)
               PROVE  /\ Cut(batches, i) <= Len(events)
                      /\ batches[i] = SubSeq(events, Cut(batches, i - 1) + 1, Cut(batches, i))
    BY DEF CutOff
  <1>2. i \in 0..Len(batches) /\ i - 1 \in 0..Len(batches) /\ i \in 1..Len(all)
    BY <1>1
  <1>3. Cut(all, i) = Cut(batches, i) /\ Cut(all, i - 1) = Cut(batches, i - 1)
    BY <1>2, SameCuts
  <1>4. Cut(all, i) <= Len(events) /\ all[i] = SubSeq(events, Cut(all, i - 1) + 1, Cut(all, i))
    BY <1>2 DEF CutOff
  <1> QED
    BY <1>1, <1>3, <1>4

\* An event that is appended to the events makes the last batch longer.
LEMMA LastBatchGrows ==
  ASSUME NEW S, NEW batches \in Seq(Seq(S)), NEW batch \in Seq(S), NEW events \in Seq(S), NEW e \in S,
         CutUp(Append(batches, batch), events)
  PROVE  CutUp(Append(batches, Append(batch, e)), Append(events, e))
  <1> DEFINE len == Len(batches)
             old == Append(batches, batch)
             new == Append(batches, Append(batch, e))
             all == Append(events, e)
             m == Cut(batches, len)
  <1>1. Append(batch, e) \in Seq(S) /\ <<e>> \in Seq(S)
    BY AppendProperties
  <1>2. /\ len \in Nat /\ len \in 0..len
        /\ Len(old) = len + 1 /\ old[len + 1] = batch
        /\ Len(new) = len + 1 /\ new[len + 1] = Append(batch, e)
        /\ \A i \in 1..len : new[i] = batches[i]
    BY <1>1, AppendedBatches
  <1>3. /\ old \in Seq(Seq(S)) /\ new \in Seq(Seq(S))
        /\ <<batch>> \in Seq(Seq(S)) /\ old = batches \o <<batch>>
    BY <1>1, AppendedBatches
  <1>4. \A n \in 0..len : Cut(old, n) = Cut(batches, n) /\ Cut(new, n) = Cut(batches, n)
    BY <1>1, CutsOfAppended
  <1>5. /\ Len(events) \in Nat /\ Len(batch) \in Nat /\ Len(Append(batch, e)) = Len(batch) + 1
        /\ all \in Seq(S) /\ Len(all) = Len(events) + 1 /\ all[Len(events) + 1] = e
        /\ all = events \o <<e>>
    BY AppendProperties, AppendIsConcat, LenProperties
  <1>6. m \in Nat
    BY <1>2, CutIsNat
  <1>7. len + 1 \in 1..Len(old) /\ len + 1 \in 1..Len(new) /\ (len + 1) - 1 = len
    BY <1>2
  <1>8. Cut(old, len + 1) = m + Len(batch) /\ Cut(new, len + 1) = m + (Len(batch) + 1)
    <2>1. Cut(old, len + 1) = Cut(old, (len + 1) - 1) + Len(old[len + 1])
      BY <1>3, <1>7, CutsGrow
    <2>2. Cut(new, len + 1) = Cut(new, (len + 1) - 1) + Len(new[len + 1])
      BY <1>3, <1>7, CutsGrow
    <2> QED
      BY <1>2, <1>4, <1>5, <1>7, <2>1, <2>2
  <1>9. m + Len(batch) = Len(events) /\ batch = SubSeq(events, m + 1, Len(events))
    <2>1. Cut(old, len + 1) = Len(events)
      BY <1>2 DEF CutUp
    <2>2. old[len + 1] = SubSeq(events, Cut(old, (len + 1) - 1) + 1, Cut(old, len + 1))
      BY <1>7 DEF CutUp, CutOff
    <2> QED
      BY <1>2, <1>4, <1>7, <1>8, <2>1, <2>2
  <1>10. Append(batch, e) = SubSeq(all, m + 1, Len(events) + 1)
    <2>1. m \in 0..Len(events) /\ Len(events) \in 0..Len(events) /\ m <= Len(events)
      BY <1>5, <1>6, <1>9
    <2> HIDE DEF m
    <2>2. SubSeq(events \o <<e>>, m + 1, Len(events)) = SubSeq(events, m + 1, Len(events))
      BY <1>1, <2>1, PieceStays
    <2>3. m + 1 \in 1..Len(all) /\ Len(events) + 1 \in (m + 1)..Len(all) /\ (Len(events) + 1) - 1 = Len(events)
      BY <1>5, <2>1
    <2>4. SubSeq(all, m + 1, Len(events) + 1)
            = SubSeq(all, m + 1, (Len(events) + 1) - 1) \o <<all[Len(events) + 1]>>
      BY <1>5, <2>3, SubSeqRecursiveSecond
    <2>5. Append(batch, e) = batch \o <<e>>
      BY AppendIsConcat
    <2> QED
      BY <1>5, <1>9, <2>2, <2>3, <2>4, <2>5
  <1>11. CutOff(batches, all)
    <2>1. CutOff(batches, events)
      BY <1>3, FirstBatches DEF CutUp
    <2> QED
      BY <1>1, <1>5, <2>1, MoreEvents
  <1>12. Cut(new, len + 1) = Len(all)
    BY <1>5, <1>6, <1>8, <1>9
  <1>13. ASSUME NEW i \in 1..Len(new)
         PROVE  /\ Cut(new, i) <= Len(all)
                /\ new[i] = SubSeq(all, Cut(new, i - 1) + 1, Cut(new, i))
    <2>1. CASE i = len + 1
      <3>1. Cut(new, i - 1) = m /\ Cut(new, i) = Len(all) /\ new[i] = Append(batch, e) /\ Len(all) <= Len(all)
        BY <1>2, <1>4, <1>5, <1>7, <1>12, <2>1
      <3> QED
        BY <1>5, <1>10, <3>1
    <2>2. CASE i # len + 1
      <3>1. i \in 1..len /\ i \in 0..len /\ i - 1 \in 0..len
        BY <1>2, <2>2
      <3>2. Cut(new, i) = Cut(batches, i) /\ Cut(new, i - 1) = Cut(batches, i - 1)
        BY <1>4, <3>1
      <3>3. Cut(batches, i) <= Len(all) /\ batches[i] = SubSeq(all, Cut(batches, i - 1) + 1, Cut(batches, i))
        BY <1>11, <3>1 DEF CutOff
      <3> QED
        BY <1>2, <3>1, <3>2, <3>3
    <2> QED
      BY <2>1, <2>2
  <1> QED
    BY <1>2, <1>12, <1>13 DEF CutUp, CutOff
=============================================================================
