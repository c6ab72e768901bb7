-------------------------- MODULE TokenBucketProofs --------------------------
(***************************************************************************)
(* Proofs about TokenBucket, for any number of requests and all rates,      *)
(* capacities and bounds.                                                   *)
(***************************************************************************)
EXTENDS TokenBucket, FiniteSets, FiniteSetTheorems, TLAPS

-----------------------------------------------------------------------------
(* The inductive invariant. *)

\* The tokens taken since the i-th and those still in the bucket are paid for by a full
\* bucket, one token, and what the rate yielded up to the last refill.  If there was no
\* refill since the i-th token was taken, it is the last one.
PaidFor(i) ==
  /\ admitted[i] <= now
  /\ last >= admitted[i] =>
       (Len(admitted) - i + 1) * Token + available
         <= capacity + Token + ratePerSec * (last - admitted[i])
  /\ last < admitted[i] => i = Len(admitted) /\ available + Token <= capacity

Credit == \A i \in 1..Len(admitted) : PaidFor(i)

TokenInv == TypeOK /\ Credit /\ BurstBounded

-----------------------------------------------------------------------------
(* Arithmetic. *)

LEMMA Yield ==
  ASSUME NEW rate \in Nat, NEW x \in Nat, NEW y \in Nat
  PROVE  /\ rate * x \in Nat
         /\ rate * (x + y) = rate * x + rate * y
  OBVIOUS

LEMMA YieldNat == ASSUME NEW rate \in Nat, NEW x \in Nat PROVE rate * x \in Nat
  OBVIOUS

\* The rate yields no less in a longer time.
LEMMA YieldMonotone ==
  ASSUME NEW rate \in Nat, NEW x \in Nat, NEW y \in Nat, x <= y
  PROVE  rate * x <= rate * y
  <1>1. y - x \in Nat /\ y = x + (y - x)
    OBVIOUS
  <1>2. rate * y = rate * x + rate * (y - x) /\ rate * (y - x) \in Nat /\ rate * x \in Nat
    BY <1>1, Yield
  <1> QED
    BY <1>2

LEMMA OneMore ==
  ASSUME NEW n \in Nat
  PROVE  (n + 1) * Token = n * Token + Token /\ n * Token \in Nat
  BY TokenAssumption

LEMMA TokenNat == Token \in Nat /\ Token # 0
  BY TokenAssumption

-----------------------------------------------------------------------------
(* Types. *)

LEMMA NoArgsType == NoArgs \in Args
  BY DEF NoArgs, Args

LEMMA InitTypes == Init => TypeOK
  <1> SUFFICES ASSUME Init PROVE TypeOK
    OBVIOUS
  <1>1. /\ ratePerSec \in Nat /\ capacity \in Nat /\ available \in 0..capacity
        /\ now \in Nat /\ last \in 0..now /\ changes \in Nat /\ flushed \in 0..4
        /\ admitted \in Seq(Nat) /\ refused \in Nat
    BY TokenAssumption DEF Init
  <1>2. /\ counts \in [Counters -> Nat] /\ reported \in [Counters -> Nat]
        /\ asked \in [BOOLEAN -> Nat] /\ granted \in [BOOLEAN -> Nat]
    BY DEF Init, NoCalls
  <1>3. pc \in [Requests -> Counters \cup {"idle", "consume"}] /\ args \in [Requests -> Args]
    BY NoArgsType DEF Init
  <1> QED
    BY <1>1, <1>2, <1>3 DEF TypeOK

\* What update leaves in the bucket.
LEMMA RefilledType ==
  ASSUME TypeOK
  PROVE  /\ Refilled \in 0..capacity
         /\ LastUpdate \in 0..now
         /\ Refilled <= available + ratePerSec * (now - last)
         /\ ratePerSec * (now - last) \in Nat
  <1>1. now - last \in Nat /\ ratePerSec \in Nat /\ capacity \in Nat /\ available \in 0..capacity
    BY DEF TypeOK
  <1>2. ratePerSec * (now - last) \in Nat
    BY <1>1, Yield
  <1> DEFINE yield == ratePerSec * (now - last)
  <1>3. Refilled = IF available < capacity /\ now > last
                     THEN IF available + yield < capacity THEN available + yield ELSE capacity
                     ELSE available
    BY DEF Refilled
  <1>4. yield \in Nat
    BY <1>2
  <1>5. LastUpdate \in 0..now
    BY DEF TypeOK, LastUpdate
  <1> HIDE DEF yield
  <1>6. Refilled \in 0..capacity /\ Refilled <= available + yield
    BY <1>1, <1>3, <1>4
  <1> QED
    BY <1>2, <1>5, <1>6 DEF yield

LEMMA TypeStep == TypeOK /\ [Next]_vars => TypeOK'
  <1> SUFFICES ASSUME TypeOK, [Next]_vars PROVE TypeOK'
    OBVIOUS
  <1> USE DEF tokenVars, requestVars, histVars
  <1>1. CASE UNCHANGED vars
    BY <1>1 DEF TypeOK, vars
  <1>2. CASE Tick
    BY <1>2 DEF TypeOK, Tick
  <1>3. ASSUME NEW rate \in Rates, NEW cap \in Capacities, SetRateCap(rate, cap)
        PROVE  TypeOK'
    <2>1. rate \in Nat /\ cap \in Nat
      BY TokenAssumption
    <2>2. ratePerSec' \in Nat /\ capacity' \in Nat /\ available' \in 0..capacity' /\ changes' \in Nat
      BY <1>3, <2>1 DEF TypeOK, SetRateCap
    <2>3. admitted' \in Seq(Nat)
      BY <1>3 DEF TypeOK, SetRateCap
    <2> QED
      BY <1>3, <2>2, <2>3 DEF TypeOK, SetRateCap
  <1>4. ASSUME NEW r \in Requests, NEW a \in Args, Count(r, a)
        PROVE  TypeOK'
    <2>1. pc' \in [Requests -> Counters \cup {"idle", "consume"}] /\ args' \in [Requests -> Args]
      BY <1>4 DEF TypeOK, Count, Goto, Counters
    <2>2. asked' \in [BOOLEAN -> Nat]
      BY <1>4 DEF TypeOK, Count, Args
    <2> QED
      BY <1>4, <2>1, <2>2 DEF TypeOK, Count
  <1>5. ASSUME NEW r \in Requests, NEW c \in Counters, Increment(r, c),
               pc' \in [Requests -> Counters \cup {"idle", "consume"}], args' \in [Requests -> Args],
               granted' \in [BOOLEAN -> Nat], refused' = refused
        PROVE  TypeOK'
    BY <1>5 DEF TypeOK, Increment
  <1>6. ASSUME NEW a \in Args PROVE AfterSampled(a) \in Counters \cup {"idle", "consume"}
    BY DEF AfterSampled, Counters
  <1>7. ASSUME NEW r \in Requests, NEW l \in Counters \cup {"idle", "consume"}, Goto(r, l)
        PROVE  pc' \in [Requests -> Counters \cup {"idle", "consume"}] /\ args' \in [Requests -> Args]
    BY <1>7, NoArgsType DEF TypeOK, Goto
  <1>8. ASSUME NEW r \in Requests PROVE args[r] \in Args /\ args[r].hasMetadata \in BOOLEAN
    BY DEF TypeOK, Args
  <1>9. granted \in [BOOLEAN -> Nat]
    BY DEF TypeOK
  <1>10. ASSUME NEW r \in Requests, CountRequested(r) PROVE TypeOK'
    <2>1. (IF args[r].hasMetadata THEN AfterSampled(args[r]) ELSE "sampled")
            \in Counters \cup {"idle", "consume"}
      BY <1>6, <1>8 DEF Counters
    <2> QED
      BY <1>5, <1>7, <1>9, <1>10, <2>1 DEF CountRequested, Counters
  <1>11. ASSUME NEW r \in Requests, CountSampled(r) PROVE TypeOK'
    BY <1>5, <1>6, <1>7, <1>8, <1>9, <1>11 DEF CountSampled, Counters
  <1>12. ASSUME NEW r \in Requests, CountLimited(r) PROVE TypeOK'
    BY <1>5, <1>7, <1>9, <1>12 DEF CountLimited, Counters
  <1>13. ASSUME NEW r \in Requests, CountThrough(r) PROVE TypeOK'
    BY <1>5, <1>7, <1>9, <1>13 DEF CountThrough, Counters
  <1>14. ASSUME NEW r \in Requests, CountTraced(r) PROVE TypeOK'
    <2>1. granted' \in [BOOLEAN -> Nat]
      BY <1>8, <1>9, <1>14 DEF CountTraced
    <2> QED
      BY <1>5, <1>7, <1>14, <2>1 DEF CountTraced, Counters
  <1>15. ASSUME NEW r \in Requests, Consume(r) PROVE TypeOK'
    <2>1. available' \in 0..capacity /\ last' \in 0..now
      BY <1>15, RefilledType, TokenNat DEF Consume, TypeOK
    <2>2. pc' \in [Requests -> Counters \cup {"idle", "consume"}] /\ args' \in [Requests -> Args]
      BY <1>15, <1>7 DEF Consume, Counters
    <2>3. admitted' \in Seq(Nat)
      <3>1. admitted \in Seq(Nat) /\ now \in Nat
        BY DEF TypeOK
      <3>2. admitted' = admitted \/ admitted' = Append(admitted, now)
        BY <1>15 DEF Consume
      <3> QED
        BY <3>1, <3>2
    <2>4. refused' \in Nat
      BY <1>15 DEF Consume, TypeOK
    <2> QED
      BY <1>15, <2>1, <2>2, <2>3, <2>4 DEF Consume, TypeOK
  <1>16. CASE Flush
    <2>1. FlushOrder[flushed + 1] \in Counters
      BY DEF TypeOK, FlushOrder, Counters
    <2>2. /\ counts' \in [Counters -> Nat] /\ reported' \in [Counters -> Nat]
          /\ flushed' \in 0..4
      BY <1>16, <2>1 DEF Flush, TypeOK
    <2> QED
      BY <1>16, <2>2 DEF Flush, TypeOK
  <1> QED
    BY <1>1, <1>2, <1>3, <1>4, <1>10, <1>11, <1>12, <1>13, <1>14, <1>15, <1>16 DEF Next, Request

-----------------------------------------------------------------------------
(* Credit. *)

\* An action that leaves the bucket and its history alone, and at most lets time pass,
\* keeps the credit.
LEMMA CreditFrame ==
  ASSUME TypeOK, Credit, BurstBounded, now' \in Nat, now' >= now,
         UNCHANGED <<ratePerSec, capacity, available, last, admitted>>
  PROVE  Credit' /\ BurstBounded'
  <1>1. BurstBounded'
    BY DEF BurstBounded
  <1>2. ASSUME NEW i \in 1..Len(admitted) PROVE PaidFor(i)'
    <2>1. PaidFor(i) /\ admitted[i] \in Nat
      BY DEF Credit, TypeOK
    <2> QED
      BY <2>1 DEF PaidFor, TypeOK
  <1> QED
    BY <1>1, <1>2 DEF Credit

\* A new rate or capacity begins a new interval; the same ones again change nothing.
LEMMA CreditSetRateCap ==
  ASSUME TypeOK, Credit, BurstBounded,
         NEW rate \in Rates, NEW cap \in Capacities, SetRateCap(rate, cap)
  PROVE  Credit' /\ BurstBounded'
  <1>1. CASE admitted' = <<>>
    BY <1>1 DEF Credit, BurstBounded
  <1>2. CASE rate = ratePerSec /\ cap = capacity
    <2>1. UNCHANGED <<ratePerSec, capacity, available, last, admitted, now>>
      BY <1>2 DEF SetRateCap, TypeOK
    <2>2. now' \in Nat /\ now' >= now
      BY <2>1 DEF TypeOK
    <2> QED
      BY <2>1, <2>2, CreditFrame
  <1> QED
    BY <1>1, <1>2 DEF SetRateCap

\* After update, the tokens taken since the i-th are paid for up to the last refill.
LEMMA RefillCredit ==
  ASSUME TypeOK, Credit, NEW i \in 1..Len(admitted)
  PROVE  /\ LastUpdate >= admitted[i]
         /\ (Len(admitted) - i + 1) * Token + Refilled
              <= capacity + Token + ratePerSec * (LastUpdate - admitted[i])
  <1> DEFINE a == admitted[i]
             taken == (Len(admitted) - i + 1) * Token
  <1>1. /\ a \in Nat /\ last \in 0..now /\ now \in Nat /\ a <= now
        /\ capacity \in Nat /\ available \in 0..capacity /\ ratePerSec \in Nat
    BY DEF TypeOK, Credit, PaidFor
  <1>2. taken \in Nat
    BY OneMore, Len(admitted) - i + 1 \in Nat
  <1>3. /\ last >= a => taken + available <= capacity + Token + ratePerSec * (last - a)
        /\ last < a => i = Len(admitted) /\ available + Token <= capacity
    BY DEF Credit, PaidFor
  <1>4. CASE last >= a /\ available < capacity
    <2> DEFINE before == ratePerSec * (last - a)
               since == ratePerSec * (now - last)
               all == ratePerSec * (now - a)
    <2>1. last - a \in Nat /\ now - last \in Nat /\ now - a = (last - a) + (now - last)
      BY <1>1, <1>4
    <2>2. all = before + since /\ before \in Nat /\ since \in Nat
      <3>1. ratePerSec \in Nat
        BY <1>1
      <3> HIDE DEF taken
      <3> QED
        BY <2>1, <3>1, Yield
    <2>3. Refilled \in Nat /\ Refilled <= available + since
      BY <1>1, RefilledType
    <2>4. taken + available <= capacity + Token + before
      BY <1>3, <1>4
    <2>5. LastUpdate = now
      BY <1>4 DEF LastUpdate
    <2> HIDE DEF before, since, all, taken
    <2>6. taken + Refilled <= capacity + Token + all
      BY <1>1, <1>2, <2>2, <2>3, <2>4, TokenNat
    <2> QED
      BY <1>1, <2>5, <2>6 DEF all, taken
  <1>5. CASE last >= a /\ ~(available < capacity)
    <2>1. LastUpdate = last /\ Refilled = available
      BY <1>5 DEF LastUpdate, Refilled
    <2> QED
      BY <1>3, <1>5, <2>1
  <1>6. CASE last < a
    <2>1. i = Len(admitted) /\ LastUpdate = now
      BY <1>1, <1>3, <1>6, TokenNat DEF LastUpdate
    <2>2. taken = Token
      BY <1>6, <2>1, TokenNat
    <2>3. Refilled \in 0..capacity
      BY RefilledType
    <2>4. ratePerSec * (now - a) \in Nat
      <3>1. now - a \in Nat /\ ratePerSec \in Nat
        BY <1>1
      <3> QED
        BY <3>1, YieldNat
    <2> HIDE DEF taken
    <2>5. taken + Refilled <= capacity + Token + ratePerSec * (now - a)
      BY <1>1, <2>2, <2>3, <2>4, TokenNat
    <2> QED
      BY <1>1, <2>1, <2>5 DEF taken
  <1> QED
    BY <1>1, <1>4, <1>5, <1>6

LEMMA CreditRefused ==
  ASSUME TypeOK, TypeOK', Credit, BurstBounded,
         last' = LastUpdate, available' = Refilled,
         UNCHANGED <<ratePerSec, capacity, admitted, now>>
  PROVE  Credit' /\ BurstBounded'
  <1>1. BurstBounded'
    BY DEF BurstBounded
  <1>2. ASSUME NEW i \in 1..Len(admitted) PROVE PaidFor(i)'
    <2>1. admitted[i] <= now
      BY DEF Credit, PaidFor
    <2>2. admitted[i] \in Nat /\ LastUpdate \in Nat
      BY RefilledType DEF TypeOK
    <2> QED
      BY <2>1, <2>2, RefillCredit DEF PaidFor
  <1> QED
    BY <1>1, <1>2 DEF Credit

LEMMA CreditAdmitted ==
  ASSUME TypeOK, TypeOK', Credit, BurstBounded, Refilled >= Token,
         last' = LastUpdate, available' = Refilled - Token, admitted' = Append(admitted, now),
         UNCHANGED <<ratePerSec, capacity, now>>
  PROVE  Credit' /\ BurstBounded'
  <1> PICK N \in Nat : N = Len(admitted)
    BY DEF TypeOK
  <1>1. /\ admitted \in Seq(Nat) /\ now \in Nat /\ N \in Nat
        /\ capacity \in Nat /\ ratePerSec \in Nat /\ Refilled \in 0..capacity
        /\ LastUpdate \in 0..now
    BY RefilledType DEF TypeOK
  <1>2. /\ Len(admitted') = N + 1 /\ admitted'[N + 1] = now
        /\ \A i \in 1..N : admitted'[i] = admitted[i] /\ admitted[i] \in Nat
    BY <1>1
  <1>3. ASSUME NEW i \in 1..N PROVE PaidFor(i)'
    <2> DEFINE taken == (N - i + 1) * Token
               yield == ratePerSec * (LastUpdate - admitted[i])
    <2>1. (N + 1 - i + 1) * Token = taken + Token /\ taken \in Nat
      <3>1. N - i + 1 \in Nat /\ N + 1 - i + 1 = (N - i + 1) + 1
        BY <1>1
      <3> QED
        BY <3>1, OneMore
    <2>2. LastUpdate >= admitted[i] /\ taken + Refilled <= capacity + Token + yield
      BY RefillCredit
    <2>3. yield \in Nat
      <3>1. LastUpdate \in Nat /\ admitted[i] \in Nat /\ ratePerSec \in Nat
        BY <1>1, <1>2
      <3>2. LastUpdate >= admitted[i]
        BY <2>2
      <3>3. LastUpdate - admitted[i] \in Nat
        BY <3>1, <3>2
      <3> QED
        BY <3>1, <3>3, YieldNat
    <2>4. admitted[i] <= now
      BY DEF Credit, PaidFor
    <2> HIDE DEF taken, yield
    <2>5. (taken + Token) + (Refilled - Token) <= capacity + Token + yield
      BY <1>1, <2>1, <2>2, <2>3, TokenNat
    <2>6. (N + 1 - i + 1) * Token + available' <= capacity + Token + yield
      BY <2>1, <2>5
    <2> QED
      BY <1>1, <1>2, <2>2, <2>4, <2>6 DEF PaidFor, yield
  <1>4. PaidFor(N + 1)'
    <2>1. admitted'[N + 1] <= now'
      BY <1>1, <1>2
    <2>2. CASE LastUpdate = now
      <3>1. (N + 1 - (N + 1) + 1) * Token = Token /\ ratePerSec * (now - now) = 0
        BY <1>1, TokenNat
      <3>2. Token + available' <= capacity + Token + 0
        BY <1>1, TokenNat
      <3> QED
        BY <1>1, <1>2, <2>1, <2>2, <3>1, <3>2 DEF PaidFor
    <2>3. CASE LastUpdate # now
      <3>1. available' + Token <= capacity
        BY <1>1, TokenNat
      <3>2. last' < now
        BY <1>1, <2>3
      <3> QED
        BY <1>1, <1>2, <2>1, <3>1, <3>2 DEF PaidFor
    <2> QED
      BY <2>2, <2>3
  <1>5. Credit'
    <2>1. ASSUME NEW i \in 1..Len(admitted') PROVE i \in 1..N \/ i = N + 1
      BY <1>1, <1>2
    <2> QED
      BY <1>3, <1>4, <2>1 DEF Credit
  <1>6. ASSUME NEW i \in 1..(N + 1)
        PROVE  (N + 1 - i + 1) * Token <= capacity + Token + ratePerSec * (now - admitted'[i])
    <2> DEFINE a == admitted'[i]
               taken == (N + 1 - i + 1) * Token
    <2>1. a \in Nat /\ a <= now /\ PaidFor(i)'
      BY <1>1, <1>2, <1>5 DEF Credit, PaidFor
    <2>2. taken \in Nat /\ available' \in Nat
      <3>1. N + 1 - i + 1 \in Nat
        BY <1>1
      <3> QED
        BY <1>1, <3>1, OneMore, TokenNat
    <2>3. ratePerSec * (now - a) \in Nat
      <3>1. now - a \in Nat /\ ratePerSec \in Nat
        BY <1>1, <2>1
      <3> QED
        BY <3>1, YieldNat
    <2>4. CASE LastUpdate >= a
      <3> DEFINE upTo == ratePerSec * (LastUpdate - a)
                 all == ratePerSec * (now - a)
      <3>1. taken + available' <= capacity + Token + upTo
        BY <1>2, <2>1, <2>4 DEF PaidFor
      <3>2. upTo <= all /\ upTo \in Nat /\ all \in Nat
        <4>1. LastUpdate - a \in Nat /\ now - a \in Nat /\ LastUpdate - a <= now - a
          BY <1>1, <2>1, <2>4
        <4> QED
          BY <1>1, <4>1, Yield, YieldMonotone
      <3> HIDE DEF taken, upTo, all
      <3>3. taken <= capacity + Token + all
        BY <1>1, <2>2, <3>1, <3>2, TokenNat
      <3> QED
        BY <3>3 DEF taken, all
    <2>5. CASE LastUpdate < a
      <3>1. i = N + 1
        BY <1>2, <2>1, <2>5 DEF PaidFor
      <3>2. taken = Token
        BY <1>1, <3>1, TokenNat
      <3> QED
        BY <1>1, <2>3, <3>2, TokenNat
    <2>6. LastUpdate >= a \/ LastUpdate < a
      BY <1>1, <2>1
    <2> QED
      BY <2>4, <2>5, <2>6
  <1>7. BurstBounded'
    <2> SUFFICES ASSUME NEW j \in 1..(N + 1), NEW i \in 1..j
                 PROVE  (j - i + 1) * Token
                          <= capacity + Token + ratePerSec * (admitted'[j] - admitted'[i])
      BY <1>2 DEF BurstBounded
    <2>1. CASE j = N + 1
      BY <1>2, <1>6, <2>1
    <2>2. CASE j # N + 1
      <3>1. j \in 1..Len(admitted) /\ i \in 1..Len(admitted)
        BY <1>1, <2>2
      <3> QED
        BY <1>2, <3>1 DEF BurstBounded
    <2> QED
      BY <2>1, <2>2
  <1> QED
    BY <1>5, <1>7

-----------------------------------------------------------------------------
(* The invariant holds. *)

LEMMA TokenInvInit == Init => TokenInv
  <1> SUFFICES ASSUME Init PROVE TokenInv
    OBVIOUS
  <1>1. Credit /\ BurstBounded
    BY DEF Init, Credit, BurstBounded
  <1> QED
    BY <1>1, InitTypes DEF TokenInv

LEMMA TokenInvNext == TokenInv /\ [Next]_vars => TokenInv'
  <1> SUFFICES ASSUME TokenInv, [Next]_vars PROVE TokenInv'
    OBVIOUS
  <1> USE DEF tokenVars, requestVars, histVars
  <1>1. TypeOK /\ TypeOK' /\ Credit /\ BurstBounded /\ now \in Nat
    BY TypeStep DEF TokenInv, TypeOK
  <1>2. CASE UNCHANGED <<tokenVars, admitted>> /\ now' \in Nat /\ now' >= now
    BY <1>1, <1>2, CreditFrame DEF TokenInv
  <1>3. CASE UNCHANGED vars
    BY <1>1, <1>2, <1>3 DEF vars
  <1>4. CASE Tick
    BY <1>1, <1>2, <1>4 DEF Tick
  <1>5. ASSUME NEW rate \in Rates, NEW cap \in Capacities, SetRateCap(rate, cap)
        PROVE  TokenInv'
    BY <1>1, <1>5, CreditSetRateCap DEF TokenInv
  <1>6. ASSUME NEW r \in Requests, NEW a \in Args, Count(r, a)
        PROVE  TokenInv'
    BY <1>1, <1>2, <1>6 DEF Count
  <1>7. ASSUME NEW r \in Requests,
               \/ CountRequested(r) \/ CountSampled(r) \/ CountLimited(r)
               \/ CountThrough(r) \/ CountTraced(r)
        PROVE  TokenInv'
    BY <1>1, <1>2, <1>7
       DEF CountRequested, CountSampled, CountLimited, CountThrough, CountTraced, Increment
  <1>8. ASSUME NEW r \in Requests, Consume(r)
        PROVE  TokenInv'
    <2>1. last' = LastUpdate /\ UNCHANGED <<ratePerSec, capacity, now>>
      BY <1>8 DEF Consume
    <2>2. CASE /\ Refilled >= Token /\ available' = Refilled - Token
               /\ admitted' = Append(admitted, now)
      BY <1>1, <2>1, <2>2, CreditAdmitted DEF TokenInv
    <2>3. CASE available' = Refilled /\ UNCHANGED admitted
      BY <1>1, <2>1, <2>3, CreditRefused DEF TokenInv
    <2> QED
      BY <1>8, <2>2, <2>3 DEF Consume
  <1>9. CASE Flush
    BY <1>1, <1>2, <1>9 DEF Flush
  <1> QED
    BY <1>3, <1>4, <1>5, <1>6, <1>7, <1>8, <1>9 DEF Next, Request

-----------------------------------------------------------------------------
(* The ledger: what requests under way still have to count. *)

At(l) == {r \in Requests : pc[r] = l}
Busy == {r \in Requests : pc[r] # "idle"}

\* Requests that will count themselves as sampled, and those that continue a trace, were
\* counted as such, and are not yet counted as traced.
ToBeSampled == {r \in Requests : pc[r] \in {"requested", "sampled"} /\ ~args[r].hasMetadata}
Continuing == {r \in At("traced") : args[r].hasMetadata}

\* Only a request that continues a trace is counted as such, and only a new one is sampled.
Paths ==
  \A r \in Requests : /\ pc[r] = "through" => args[r].hasMetadata
                      /\ pc[r] = "sampled" => ~args[r].hasMetadata

\* What was asked and what was granted, for traces that go on and for new ones.
AskedOn == asked[TRUE]
AskedNew == asked[FALSE]
GrantedOn == granted[TRUE]
GrantedNew == granted[FALSE]

Owed ==
  /\ Total("requested") + Cardinality(At("requested")) = AskedOn + AskedNew
  /\ Total("sampled") + Cardinality(ToBeSampled) = AskedNew
  /\ Total("limited") + Cardinality(At("limited")) = refused
  /\ Total("traced") = GrantedOn + GrantedNew
  /\ Total("through") = GrantedOn + Cardinality(Continuing)

\* However many goroutines there may be, only so many of them ever asked.
Ledger == IsFiniteSet(Busy) /\ Paths /\ Owed

LEMMA BusyFinite ==
  ASSUME IsFiniteSet(Busy), NEW S, S \subseteq Busy
  PROVE  IsFiniteSet(S) /\ Cardinality(S) \in Nat
  BY FS_Subset, FS_CardinalityType

LEMMA OwingFinite ==
  ASSUME IsFiniteSet(Busy)
  PROVE  \A S \in {At("requested"), At("limited"), ToBeSampled, Continuing} :
           IsFiniteSet(S) /\ Cardinality(S) \in Nat
  <1>1. \A S \in {At("requested"), At("limited"), ToBeSampled, Continuing} : S \subseteq Busy
    BY DEF At, Busy, ToBeSampled, Continuing
  <1> QED
    BY <1>1, BusyFinite

LEMMA Enters ==
  ASSUME NEW S, IsFiniteSet(S), NEW x, x \notin S
  PROVE  Cardinality(S \cup {x}) = Cardinality(S) + 1
  BY FS_AddElement

LEMMA Leaves ==
  ASSUME NEW S, IsFiniteSet(S), NEW x \in S
  PROVE  Cardinality(S \ {x}) + 1 = Cardinality(S)
  <1>1. Cardinality(S) \in Nat
    BY FS_CardinalityType
  <1>2. Cardinality(S \ {x}) = Cardinality(S) - 1
    BY FS_RemoveElement
  <1> QED
    BY <1>1, <1>2

\* A step of r that takes it from one place to another, neither of them idle.
LEMMA BusyFrame ==
  ASSUME TypeOK, IsFiniteSet(Busy), NEW r \in Requests, NEW l, pc' = [pc EXCEPT ![r] = l],
         pc[r] # "idle"
  PROVE  IsFiniteSet(Busy')
  <1>1. Busy' \subseteq Busy
    BY DEF Busy, TypeOK
  <1> QED
    BY <1>1, FS_Subset

LEMMA TotalsNat ==
  ASSUME TypeOK
  PROVE  /\ \A c \in Counters : Total(c) \in Nat
         /\ AskedOn \in Nat /\ AskedNew \in Nat /\ GrantedOn \in Nat /\ GrantedNew \in Nat
         /\ refused \in Nat
  <1>1. asked \in [BOOLEAN -> Nat] /\ granted \in [BOOLEAN -> Nat]
    BY DEF TypeOK
  <1>2. AskedOn \in Nat /\ AskedNew \in Nat /\ GrantedOn \in Nat /\ GrantedNew \in Nat
    BY <1>1, Zenon DEF AskedOn, AskedNew, GrantedOn, GrantedNew
  <1>3. \A c \in Counters : Total(c) \in Nat
    BY DEF TypeOK, Total
  <1> QED
    BY <1>2, <1>3 DEF TypeOK

\* An increment adds one to the total of its counter, and to no other.
LEMMA TotalsIncrement ==
  ASSUME TypeOK, NEW r \in Requests, NEW c \in Counters, Increment(r, c)
  PROVE  /\ Total(c)' = Total(c) + 1
         /\ \A d \in Counters \ {c} : Total(d)' = Total(d)
  BY DEF TypeOK, Total, Increment

\* A flush moves counts from the counters to the report.
LEMMA TotalsFlush ==
  ASSUME TypeOK, Flush
  PROVE  \A c \in Counters : Total(c)' = Total(c)
  <1>1. FlushOrder[flushed + 1] \in Counters
    BY DEF TypeOK, FlushOrder, Counters
  <1> QED
    BY <1>1 DEF TypeOK, Total, Flush

\* Who is owed does not change, and no total does.
LEMMA LedgerFrame ==
  ASSUME TypeOK, Ledger, \A c \in Counters : Total(c)' = Total(c),
         UNCHANGED <<requestVars, asked, granted, refused>>
  PROVE  Ledger'
  BY DEF Ledger, Owed, Paths, At, Busy, ToBeSampled, Continuing, requestVars, Counters,
         AskedOn, AskedNew, GrantedOn, GrantedNew

LEMMA LedgerInit == Init => Ledger
  <1> SUFFICES ASSUME Init PROVE Ledger
    OBVIOUS
  <1>1. Busy = {} /\ At("requested") = {} /\ At("limited") = {} /\ ToBeSampled = {} /\ Continuing = {}
    BY DEF Init, Busy, At, ToBeSampled, Continuing
  <1>2. Paths
    BY DEF Init, Paths
  <1>3. \A c \in Counters : Total(c) = 0
    BY DEF Init, Total
  <1>4. AskedOn = 0 /\ AskedNew = 0 /\ GrantedOn = 0 /\ GrantedNew = 0 /\ refused = 0
    BY DEF Init, NoCalls, AskedOn, AskedNew, GrantedOn, GrantedNew
  <1>5. Owed
    BY <1>1, <1>3, <1>4, FS_EmptySet DEF Owed, Counters
  <1> QED
    BY <1>1, <1>2, <1>5, FS_EmptySet DEF Ledger

\* A request asks: it is owed a count as requested, and as sampled if it begins a trace.
LEMMA LedgerCount ==
  ASSUME TypeOK, Ledger, NEW r \in Requests, NEW a \in Args, Count(r, a)
  PROVE  Ledger'
  <1>1. \A c \in Counters : Total(c)' = Total(c)
    BY DEF Count, Total
  <1>2. Busy' = Busy \cup {r}
    BY DEF Count, Goto, Busy, TypeOK
  <1>3. /\ r \notin At("requested") /\ At("requested")' = At("requested") \cup {r}
        /\ r \notin ToBeSampled
        /\ ToBeSampled' = IF a.hasMetadata THEN ToBeSampled ELSE ToBeSampled \cup {r}
        /\ At("limited")' = At("limited") /\ Continuing' = Continuing
    BY DEF Count, Goto, At, ToBeSampled, Continuing, TypeOK
  <1>4. Paths'
    BY DEF Ledger, Paths, Count, Goto, TypeOK
  <1>5. a.hasMetadata \in BOOLEAN
    BY DEF Args
  <1>6. /\ AskedOn' = IF a.hasMetadata THEN AskedOn + 1 ELSE AskedOn
        /\ AskedNew' = IF a.hasMetadata THEN AskedNew ELSE AskedNew + 1
        /\ UNCHANGED <<GrantedOn, GrantedNew, refused>>
    <2>1. asked' = [asked EXCEPT ![a.hasMetadata] = @ + 1] /\ UNCHANGED <<granted, refused>>
      BY DEF Count
    <2>2. asked \in [BOOLEAN -> Nat]
      BY DEF TypeOK
    <2>3. CASE a.hasMetadata = TRUE
      BY <2>1, <2>2, <2>3, Zenon DEF AskedOn, AskedNew, GrantedOn, GrantedNew
    <2>4. CASE a.hasMetadata = FALSE
      BY <2>1, <2>2, <2>4, Zenon DEF AskedOn, AskedNew, GrantedOn, GrantedNew
    <2> QED
      BY <1>5, <2>3, <2>4
  <1>7. Cardinality(At("requested")') = Cardinality(At("requested")) + 1
    BY <1>3, OwingFinite, Enters DEF Ledger
  <1>8. Cardinality(ToBeSampled') = IF a.hasMetadata THEN Cardinality(ToBeSampled)
                                                     ELSE Cardinality(ToBeSampled) + 1
    BY <1>3, OwingFinite, Enters DEF Ledger
  <1>9. Owed'
    <2>1. Owed
      BY DEF Ledger
    <2>2. /\ Cardinality(At("requested")) \in Nat /\ Cardinality(ToBeSampled) \in Nat
          /\ Total("requested") \in Nat /\ Total("sampled") \in Nat
          /\ AskedOn \in Nat /\ AskedNew \in Nat
      BY OwingFinite, TotalsNat DEF Ledger, Counters
    <2>3. CASE a.hasMetadata
      BY <1>1, <1>3, <1>6, <1>7, <1>8, <2>1, <2>2, <2>3 DEF Owed, Counters
    <2>4. CASE ~a.hasMetadata
      BY <1>1, <1>3, <1>6, <1>7, <1>8, <2>1, <2>2, <2>4 DEF Owed, Counters
    <2> QED
      BY <2>3, <2>4
  <1> QED
    BY <1>2, <1>4, <1>9, FS_AddElement DEF Ledger

\* Where a request goes on: it owes only what lies ahead of it.
LEMMA LedgerCountRequested ==
  ASSUME TypeOK, Ledger, NEW r \in Requests, CountRequested(r)
  PROVE  Ledger'
  <1> DEFINE l == IF args[r].hasMetadata THEN AfterSampled(args[r]) ELSE "sampled"
  <1>1. args[r] \in Args /\ args[r].hasMetadata \in BOOLEAN
    BY DEF TypeOK, Args
  <1>2. /\ l # "requested" /\ l # "limited"
        /\ args[r].hasMetadata => l \in {"idle", "consume", "through"}
        /\ ~args[r].hasMetadata => l = "sampled"
    BY <1>1 DEF AfterSampled
  <1>3. /\ pc' = [pc EXCEPT ![r] = l] /\ pc[r] = "requested"
        /\ \A q \in Requests : args'[q] = IF q = r /\ l = "idle" THEN NoArgs ELSE args[q]
    BY DEF CountRequested, Goto, Increment, TypeOK
  <1> HIDE DEF l
  <1>4. /\ At("requested")' = At("requested") \ {r} /\ r \in At("requested")
        /\ ToBeSampled' = ToBeSampled
        /\ At("limited")' = At("limited") /\ Continuing' = Continuing
    BY <1>1, <1>2, <1>3 DEF At, ToBeSampled, Continuing, TypeOK
  <1>5. Paths'
    BY <1>2, <1>3 DEF Ledger, Paths, TypeOK
  <1>6. IsFiniteSet(Busy')
    BY <1>3, BusyFrame DEF Ledger
  <1>7. Cardinality(At("requested")') + 1 = Cardinality(At("requested"))
    BY <1>4, OwingFinite, Leaves DEF Ledger
  <1>8. /\ Total("requested")' = Total("requested") + 1
        /\ \A d \in Counters \ {"requested"} : Total(d)' = Total(d)
    BY TotalsIncrement DEF CountRequested, Counters
  <1>9. Owed'
    <2>1. Owed /\ UNCHANGED <<AskedOn, AskedNew, GrantedOn, GrantedNew, refused>>
      BY DEF AskedOn, AskedNew, GrantedOn, GrantedNew, Ledger, CountRequested, Increment
    <2>2. Cardinality(At("requested")') \in Nat /\ Total("requested") \in Nat
      <3>1. At("requested")' \subseteq Busy
        BY <1>4 DEF At, Busy
      <3> QED
        BY <3>1, BusyFinite, TotalsNat DEF Ledger, Counters
    <2> QED
      BY <1>4, <1>7, <1>8, <2>1, <2>2 DEF Owed, Counters
  <1> QED
    BY <1>5, <1>6, <1>9 DEF Ledger

LEMMA LedgerCountSampled ==
  ASSUME TypeOK, Ledger, NEW r \in Requests, CountSampled(r)
  PROVE  Ledger'
  <1> DEFINE l == AfterSampled(args[r])
  <1>1. args[r] \in Args /\ ~args[r].hasMetadata
    BY DEF TypeOK, Ledger, Paths, CountSampled, Increment
  <1>2. l \in {"idle", "consume", "traced"}
    BY <1>1 DEF AfterSampled
  <1>3. /\ pc' = [pc EXCEPT ![r] = l] /\ pc[r] = "sampled"
        /\ \A q \in Requests : args'[q] = IF q = r /\ l = "idle" THEN NoArgs ELSE args[q]
    BY DEF CountSampled, Goto, Increment, TypeOK
  <1> HIDE DEF l
  <1>4. /\ ToBeSampled' = ToBeSampled \ {r} /\ r \in ToBeSampled
        /\ At("requested")' = At("requested")
        /\ At("limited")' = At("limited") /\ Continuing' = Continuing
    BY <1>1, <1>2, <1>3 DEF At, ToBeSampled, Continuing, TypeOK
  <1>5. Paths'
    BY <1>2, <1>3 DEF Ledger, Paths, TypeOK
  <1>6. IsFiniteSet(Busy')
    BY <1>3, BusyFrame DEF Ledger
  <1>7. Cardinality(ToBeSampled') + 1 = Cardinality(ToBeSampled)
    BY <1>4, OwingFinite, Leaves DEF Ledger
  <1>8. /\ Total("sampled")' = Total("sampled") + 1
        /\ \A d \in Counters \ {"sampled"} : Total(d)' = Total(d)
    BY TotalsIncrement DEF CountSampled, Counters
  <1>9. Owed'
    <2>1. Owed /\ UNCHANGED <<AskedOn, AskedNew, GrantedOn, GrantedNew, refused>>
      BY DEF AskedOn, AskedNew, GrantedOn, GrantedNew, Ledger, CountSampled, Increment
    <2>2. Cardinality(ToBeSampled') \in Nat /\ Total("sampled") \in Nat
      <3>1. ToBeSampled' \subseteq Busy
        BY <1>4 DEF ToBeSampled, Busy
      <3> QED
        BY <3>1, BusyFinite, TotalsNat DEF Ledger, Counters
    <2> QED
      BY <1>4, <1>7, <1>8, <2>1, <2>2 DEF Owed, Counters
  <1> QED
    BY <1>5, <1>6, <1>9 DEF Ledger

LEMMA LedgerCountLimited ==
  ASSUME TypeOK, Ledger, NEW r \in Requests, CountLimited(r)
  PROVE  Ledger'
  <1>1. /\ pc' = [pc EXCEPT ![r] = "idle"] /\ pc[r] = "limited"
        /\ \A q \in Requests : args'[q] = IF q = r THEN NoArgs ELSE args[q]
    BY DEF CountLimited, Goto, Increment, TypeOK
  <1>2. /\ At("limited")' = At("limited") \ {r} /\ r \in At("limited")
        /\ At("requested")' = At("requested")
        /\ ToBeSampled' = ToBeSampled /\ Continuing' = Continuing
    BY <1>1 DEF At, ToBeSampled, Continuing, TypeOK
  <1>3. Paths' /\ IsFiniteSet(Busy')
    BY <1>1, BusyFrame DEF Ledger, Paths, TypeOK
  <1>4. Cardinality(At("limited")') + 1 = Cardinality(At("limited"))
    BY <1>2, OwingFinite, Leaves DEF Ledger
  <1>5. /\ Total("limited")' = Total("limited") + 1
        /\ \A d \in Counters \ {"limited"} : Total(d)' = Total(d)
    BY TotalsIncrement DEF CountLimited, Counters
  <1>6. Owed'
    <2>1. Owed /\ UNCHANGED <<AskedOn, AskedNew, GrantedOn, GrantedNew, refused>>
      BY DEF AskedOn, AskedNew, GrantedOn, GrantedNew, Ledger, CountLimited, Increment
    <2>2. Cardinality(At("limited")') \in Nat /\ Total("limited") \in Nat
      <3>1. At("limited")' \subseteq Busy
        BY <1>2 DEF At, Busy
      <3> QED
        BY <3>1, BusyFinite, TotalsNat DEF Ledger, Counters
    <2> QED
      BY <1>2, <1>4, <1>5, <2>1, <2>2 DEF Owed, Counters
  <1> QED
    BY <1>3, <1>6 DEF Ledger

LEMMA LedgerCountThrough ==
  ASSUME TypeOK, Ledger, NEW r \in Requests, CountThrough(r)
  PROVE  Ledger'
  <1>1. /\ pc' = [pc EXCEPT ![r] = "traced"] /\ pc[r] = "through"
        /\ \A q \in Requests : args'[q] = args[q]
    BY DEF CountThrough, Goto, Increment, TypeOK
  <1>2. args[r].hasMetadata
    BY <1>1 DEF Ledger, Paths
  <1>3. /\ Continuing' = Continuing \cup {r} /\ r \notin Continuing
        /\ At("requested")' = At("requested") /\ At("limited")' = At("limited")
        /\ ToBeSampled' = ToBeSampled
    BY <1>1, <1>2 DEF At, ToBeSampled, Continuing, TypeOK
  <1>4. Paths' /\ IsFiniteSet(Busy')
    BY <1>1, BusyFrame DEF Ledger, Paths, TypeOK
  <1>5. Cardinality(Continuing') = Cardinality(Continuing) + 1
    BY <1>3, OwingFinite, Enters DEF Ledger
  <1>6. /\ Total("through")' = Total("through") + 1
        /\ \A d \in Counters \ {"through"} : Total(d)' = Total(d)
    BY TotalsIncrement DEF CountThrough, Counters
  <1>7. Owed'
    <2>1. Owed /\ UNCHANGED <<AskedOn, AskedNew, GrantedOn, GrantedNew, refused>>
      BY DEF AskedOn, AskedNew, GrantedOn, GrantedNew, Ledger, CountThrough, Increment
    <2>2. Cardinality(Continuing) \in Nat /\ Total("through") \in Nat /\ GrantedOn \in Nat
      BY OwingFinite, TotalsNat DEF Ledger, Counters
    <2> QED
      BY <1>3, <1>5, <1>6, <2>1, <2>2 DEF Owed, Counters
  <1> QED
    BY <1>4, <1>7 DEF Ledger

\* The decision is made: it is granted and counted as traced in one step.
LEMMA LedgerCountTraced ==
  ASSUME TypeOK, Ledger, NEW r \in Requests, CountTraced(r)
  PROVE  Ledger'
  <1> DEFINE on == args[r].hasMetadata
  <1>1. /\ pc' = [pc EXCEPT ![r] = "idle"] /\ pc[r] = "traced"
        /\ \A q \in Requests : args'[q] = IF q = r THEN NoArgs ELSE args[q]
    BY DEF CountTraced, Goto, Increment, TypeOK
  <1>2. on \in BOOLEAN
    BY DEF TypeOK, Args
  <1>3. /\ Continuing' = IF on THEN Continuing \ {r} ELSE Continuing
        /\ on => r \in Continuing
        /\ At("requested")' = At("requested") /\ At("limited")' = At("limited")
        /\ ToBeSampled' = ToBeSampled
    BY <1>1 DEF At, ToBeSampled, Continuing, TypeOK
  <1>4. Paths' /\ IsFiniteSet(Busy')
    BY <1>1, BusyFrame DEF Ledger, Paths, TypeOK
  <1>5. /\ Total("traced")' = Total("traced") + 1
        /\ \A d \in Counters \ {"traced"} : Total(d)' = Total(d)
    BY TotalsIncrement DEF CountTraced, Counters
  <1>6. /\ GrantedOn' = IF on THEN GrantedOn + 1 ELSE GrantedOn
        /\ GrantedNew' = IF on THEN GrantedNew ELSE GrantedNew + 1
        /\ UNCHANGED <<AskedOn, AskedNew, refused>>
    <2>1. granted' = [granted EXCEPT ![on] = @ + 1] /\ UNCHANGED <<asked, refused>>
      BY DEF CountTraced, Increment
    <2>2. granted \in [BOOLEAN -> Nat]
      BY DEF TypeOK
    <2> HIDE DEF on
    <2>3. CASE on = TRUE
      BY <2>1, <2>2, <2>3, Zenon DEF AskedOn, AskedNew, GrantedOn, GrantedNew
    <2>4. CASE on = FALSE
      BY <2>1, <2>2, <2>4, Zenon DEF AskedOn, AskedNew, GrantedOn, GrantedNew
    <2> QED
      BY <1>2, <2>3, <2>4
  <1>7. Owed'
    <2>1. Owed
      BY DEF Ledger
    <2>2. /\ Cardinality(Continuing) \in Nat /\ Total("traced") \in Nat
          /\ GrantedOn \in Nat /\ GrantedNew \in Nat
      BY OwingFinite, TotalsNat DEF Ledger, Counters
    <2>3. on => Cardinality(Continuing') + 1 = Cardinality(Continuing)
      BY <1>3, OwingFinite, Leaves DEF Ledger
    <2>4. Cardinality(Continuing') \in Nat
      <3>1. Continuing' \subseteq Busy
        BY <1>3 DEF Continuing, At, Busy
      <3> QED
        BY <3>1, BusyFinite DEF Ledger
    <2> HIDE DEF on
    <2>5. CASE on
      BY <1>3, <1>5, <1>6, <2>1, <2>2, <2>3, <2>4, <2>5 DEF Owed, Counters
    <2>6. CASE ~on
      BY <1>3, <1>5, <1>6, <2>1, <2>2, <2>6 DEF Owed, Counters
    <2> QED
      BY <2>5, <2>6
  <1> QED
    BY <1>4, <1>7 DEF Ledger

\* A request that finds no token is refused and owed a count as limited.
LEMMA LedgerConsume ==
  ASSUME TypeOK, Ledger, NEW r \in Requests, Consume(r)
  PROVE  Ledger'
  <1>1. \A c \in Counters : Total(c)' = Total(c)
    BY DEF Consume, Total
  <1>2. /\ pc[r] = "consume"
        /\ \A q \in Requests : args'[q] = args[q]
        /\ UNCHANGED <<AskedOn, AskedNew, GrantedOn, GrantedNew>>
    BY DEF Consume, Goto, TypeOK, AskedOn, AskedNew, GrantedOn, GrantedNew
  <1>3. Owed
    BY DEF Ledger
  <1>4. CASE /\ Goto(r, IF args[r].hasMetadata THEN "through" ELSE "traced")
             /\ UNCHANGED refused
    <2> DEFINE l == IF args[r].hasMetadata THEN "through" ELSE "traced"
    <2>1. /\ l \in {"through", "traced"}
          /\ l = "through" <=> args[r].hasMetadata
      OBVIOUS
    <2>2. pc' = [pc EXCEPT ![r] = l]
      BY <1>4 DEF Goto
    <2> HIDE DEF l
    <2>3. /\ At("requested")' = At("requested") /\ At("limited")' = At("limited")
          /\ ToBeSampled' = ToBeSampled /\ Continuing' = Continuing
      BY <1>2, <2>1, <2>2 DEF At, ToBeSampled, Continuing, TypeOK
    <2>4. Paths' /\ IsFiniteSet(Busy')
      BY <1>2, <2>1, <2>2, BusyFrame DEF Ledger, Paths, TypeOK
    <2>5. Owed'
      BY <1>1, <1>2, <1>3, <1>4, <2>3 DEF Owed, Counters
    <2> QED
      BY <2>4, <2>5 DEF Ledger
  <1>5. CASE Goto(r, "limited") /\ refused' = refused + 1
    <2>1. /\ At("limited")' = At("limited") \cup {r} /\ r \notin At("limited")
          /\ At("requested")' = At("requested")
          /\ ToBeSampled' = ToBeSampled /\ Continuing' = Continuing
      BY <1>2, <1>5 DEF At, ToBeSampled, Continuing, TypeOK, Goto
    <2>2. Paths' /\ IsFiniteSet(Busy')
      BY <1>2, <1>5, BusyFrame DEF Ledger, Paths, TypeOK, Goto
    <2>3. Cardinality(At("limited")') = Cardinality(At("limited")) + 1
      BY <2>1, OwingFinite, Enters DEF Ledger
    <2>4. Cardinality(At("limited")) \in Nat /\ Total("limited") \in Nat
      BY OwingFinite, TotalsNat DEF Ledger, Counters
    <2>5. Owed'
      BY <1>1, <1>2, <1>3, <1>5, <2>1, <2>3, <2>4 DEF Owed, Counters
    <2> QED
      BY <2>2, <2>5 DEF Ledger
  <1> QED
    BY <1>4, <1>5 DEF Consume

LEMMA LedgerNext == TypeOK /\ Ledger /\ [Next]_vars => Ledger'
  <1> SUFFICES ASSUME TypeOK, Ledger, [Next]_vars PROVE Ledger'
    OBVIOUS
  <1>1. CASE UNCHANGED vars
    BY <1>1, LedgerFrame DEF vars, histVars, requestVars, Total
  <1>2. CASE Tick
    BY <1>2, LedgerFrame DEF Tick, histVars, requestVars, Total
  <1>3. ASSUME NEW rate \in Rates, NEW cap \in Capacities, SetRateCap(rate, cap)
        PROVE  Ledger'
    BY <1>3, LedgerFrame DEF SetRateCap, requestVars, Total
  <1>4. ASSUME NEW r \in Requests, Request(r) PROVE Ledger'
    BY <1>4, LedgerCount, LedgerCountRequested, LedgerCountSampled, LedgerCountLimited,
       LedgerCountThrough, LedgerCountTraced, LedgerConsume DEF Request
  <1>5. CASE Flush
    BY <1>5, TotalsFlush, LedgerFrame DEF Flush, requestVars
  <1> QED
    BY <1>1, <1>2, <1>3, <1>4, <1>5 DEF Next

-----------------------------------------------------------------------------
(* Theorems. *)

\* What is in the bucket stays between none and its capacity, the time of the last refill
\* is never in the future, and the counters are never negative (oboe.go:163-209).
THEOREM TokenBucketTypeCorrect == Spec => []TypeOK
  <1>1. TokenInv => TypeOK
    BY DEF TokenInv
  <1> QED
    BY <1>1, TokenInvInit, TokenInvNext, PTL DEF Spec

\* Whatever rate and capacity the collector sends, and however many requests compete,
\* update and consume admit in any interval no more than the capacity, the yield of the
\* rate, and one token (oboe.go:188-209).
THEOREM TokenBucketBurstBounded == Spec => []BurstBounded
  <1>1. TokenInv => BurstBounded
    BY DEF TokenInv
  <1> QED
    BY <1>1, TokenInvInit, TokenInvNext, PTL DEF Spec

-----------------------------------------------------------------------------

\* The reports and what is left for the next one give exactly the decisions made, however
\* many requests are counted while the counters are flushed one by one, and whatever the
\* collector changes meanwhile (oboe.go:163-186, metrics.go:161).
THEOREM TokenBucketCountsMatchDecisions == Spec => []CountsMatchDecisions
  <1>1. TypeOK /\ Ledger => CountsMatchDecisions
    <2> SUFFICES ASSUME TypeOK, Ledger, \A r \in Requests : pc[r] = "idle"
                 PROVE  /\ Total("requested") = AskedOn + AskedNew
                        /\ Total("sampled") = AskedNew
                        /\ Total("limited") = refused
                        /\ Total("traced") = GrantedOn + GrantedNew
                        /\ Total("through") = GrantedOn
      BY Zenon DEF CountsMatchDecisions, AskedOn, AskedNew, GrantedOn, GrantedNew
    <2>1. At("requested") = {} /\ At("limited") = {} /\ ToBeSampled = {} /\ Continuing = {}
      BY DEF At, ToBeSampled, Continuing
    <2>2. Owed /\ \A c \in Counters : Total(c) \in Nat
      BY TotalsNat DEF Ledger
    <2> QED
      BY <2>1, <2>2, TotalsNat, FS_EmptySet DEF Owed, Counters
  <1>2. TokenInv => TypeOK
    BY DEF TokenInv
  <1> QED
    BY <1>1, <1>2, TokenInvInit, TokenInvNext, LedgerInit, LedgerNext, PTL DEF Spec

=============================================================================
