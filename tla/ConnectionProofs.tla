--------------------------- MODULE ConnectionProofs ---------------------------
(***************************************************************************)
(* Proofs about Connection, for any number of goroutines and addresses and  *)
(* all limits on redirections and retries.                                  *)
(***************************************************************************)
EXTENDS Connection, TLAPS

-----------------------------------------------------------------------------
(* The inductive invariant. *)

Rounds == RetryMax + 1

\* The calls begun so far are paid for: Rounds of them by each redirection, one by each
\* retry since the last, and one by the round under way.
Budget(p) ==
  /\ loc[p] = "idle" => attempts[p] <= (RedirectMax + 1) * Rounds
  /\ loc[p] # "idle" => redirects[p] <= RedirectMax /\ retriesNum[p] <= RetryMax
  /\ loc[p] \in {"check", "lock"} => attempts[p] <= redirects[p] * Rounds + retriesNum[p]
  /\ loc[p] = "address" => attempts[p] <= redirects[p] * Rounds
  /\ loc[p] \in {"calling", "conn", "dial", "retry"} =>
       attempts[p] <= redirects[p] * Rounds + retriesNum[p] + 1

\* A goroutine that began a late call does not come to another one.
LateOnce(p) ==
  /\ late[p] <= 1
  /\ late[p] = 1 => exit /\ flushed /\ loc[p] # "lock"

\* A goroutine in a call holds the lock.
HoldsLock(p) == loc[p] = "calling" => p \in readers

ConnInv ==
  /\ TypeOK
  /\ OneConnection
  /\ ActiveAtAddress
  /\ \A p \in Invokers : Budget(p) /\ LateOnce(p) /\ HoldsLock(p)

-----------------------------------------------------------------------------
(* Arithmetic. *)

LEMMA RoundsNat == Rounds \in Nat /\ RedirectMax \in Nat /\ RetryMax \in Nat
  BY ConnectionAssumption DEF Rounds

LEMMA NextProduct == ASSUME NEW r \in Nat PROVE (r + 1) * Rounds = r * Rounds + Rounds /\ r * Rounds \in Nat
  BY RoundsNat

LEMMA ProductMonotone ==
  ASSUME NEW r \in Nat, NEW s \in Nat, r <= s
  PROVE  r * Rounds <= s * Rounds
  BY RoundsNat

\* A full budget.
LEMMA BudgetSpent ==
  ASSUME NEW r \in Nat, NEW n \in Nat, NEW a \in Nat,
         r <= RedirectMax, n <= RetryMax, a <= r * Rounds + n + 1
  PROVE  /\ a <= (r + 1) * Rounds
         /\ a <= (RedirectMax + 1) * Rounds
  <1>1. a <= r * Rounds + Rounds
    BY RoundsNat, NextProduct DEF Rounds
  <1>2. a <= (r + 1) * Rounds
    BY <1>1, NextProduct
  <1>3. (r + 1) * Rounds <= (RedirectMax + 1) * Rounds
    BY RoundsNat, ProductMonotone
  <1>4. (r + 1) * Rounds \in Nat /\ (RedirectMax + 1) * Rounds \in Nat
    BY RoundsNat
  <1> QED
    BY <1>2, <1>3, <1>4

-----------------------------------------------------------------------------
(* Types. *)

Locs == {"idle", "check", "lock", "calling", "address", "conn", "dial", "retry"}

LEMMA InitInv == Init => ConnInv
  <1> SUFFICES ASSUME Init PROVE ConnInv
    OBVIOUS
  <1>1. TypeOK
    BY ConnectionAssumption DEF Init, TypeOK, AllMethods
  <1>2. OneConnection /\ ActiveAtAddress
    BY ConnectionAssumption DEF Init, OneConnection, ActiveAtAddress
  <1>3. ASSUME NEW p \in Invokers PROVE Budget(p) /\ LateOnce(p) /\ HoldsLock(p)
    <2>1. 0 <= (RedirectMax + 1) * Rounds
      BY RoundsNat
    <2> QED
      BY <1>3, <2>1 DEF Init, Budget, LateOnce, HoldsLock
  <1> QED
    BY <1>1, <1>2, <1>3 DEF ConnInv

\* The program counter of every step.
LEMMA GotoType ==
  ASSUME TypeOK, NEW p \in Invokers, NEW l \in Locs, Goto(p, l)
  PROVE  /\ loc' \in [Invokers -> Locs]
         /\ loc'[p] = l
         /\ \A q \in Invokers : q # p => loc'[q] = loc[q]
  BY DEF TypeOK, Goto, Locs

LEMMA ReturnType ==
  ASSUME TypeOK, NEW p \in Invokers,
         NEW e \in {"nil", "exiting", "invalidkey", "redirections", "noretry", "giveup"},
         Return(p, e)
  PROVE  result' \in [Invokers -> {"nil", "exiting", "invalidkey", "redirections", "noretry", "giveup"}]
  BY DEF TypeOK, Return

LEMMA EndCallTypes ==
  ASSUME TypeOK, NEW p \in Invokers, NEW e \in {"nil", "stale", "toobig"}, EndCall(p, e)
  PROVE  /\ readers' \subseteq Invokers
         /\ err' \in [Invokers -> {"nil", "stale", "toobig"}]
  BY DEF TypeOK, EndCall

LEMMA TypeStep == TypeOK /\ OneConnection /\ [Next]_vars => TypeOK'
  <1> SUFFICES ASSUME TypeOK, OneConnection, [Next]_vars PROVE TypeOK'
    OBVIOUS
  <1>1. CASE CloseExit \/ SetFlushed
    BY <1>1 DEF CloseExit, SetFlushed, TypeOK, connVars, countVars, histVars, statVars
  <1>2. CASE Close
    <2>1. open' \in Nat
      BY <1>2 DEF Close, TypeOK, OneConnection
    <2> QED
      BY <1>2, <2>1 DEF Close, TypeOK, connVars, countVars, histVars, statVars
  <1>3. ASSUME NEW p \in Invokers, NEW m \in Methods, Invoke(p, m) PROVE TypeOK'
    <2>1. loc' \in [Invokers -> Locs]
      BY <1>3, GotoType DEF Invoke, Locs
    <2>2. method' \in [Invokers -> AllMethods]
      BY <1>3, ConnectionAssumption DEF Invoke, TypeOK
    <2>3. /\ calls' \in [Invokers -> Nat]
          /\ redirects' \in [Invokers -> Nat]
          /\ retriesNum' \in [Invokers -> Nat]
          /\ attempts' \in [Invokers -> Nat]
          /\ late' \in [Invokers -> Nat]
      BY <1>3 DEF Invoke, TypeOK
    <2> QED
      BY <1>3, <2>1, <2>2, <2>3 DEF Invoke, TypeOK, Locs, envVars, connVars, statVars
  <1>4. ASSUME NEW p \in Invokers, Step(p) PROVE TypeOK'
    <2>1. CASE Check(p)
      <3>1. loc' \in [Invokers -> Locs]
        BY <2>1, GotoType DEF Check, Return, Locs
      <3>2. result' \in [Invokers -> {"nil", "exiting", "invalidkey", "redirections", "noretry", "giveup"}]
        BY <2>1, ReturnType DEF Check, TypeOK
      <3> QED
        BY <2>1, <3>1, <3>2 DEF Check, TypeOK, Locs, envVars, connVars, countVars, statVars
    <2>2. CASE BeginCall(p)
      <3>1. loc' \in [Invokers -> Locs]
        BY <2>2, GotoType DEF BeginCall, Locs
      <3>2. readers' \subseteq Invokers
        BY <2>2 DEF BeginCall, TypeOK
      <3>3. attempts' \in [Invokers -> Nat]
        BY <2>2 DEF BeginCall, TypeOK
      <3>4. late' \in [Invokers -> Nat]
        BY <2>2 DEF BeginCall, TypeOK
      <3> QED
        BY <2>2, <3>1, <3>2, <3>3, <3>4 DEF BeginCall, TypeOK, Locs, envVars, connVars, countVars, statVars
    <2>3. CASE FindInactive(p)
      <3>1. loc' \in [Invokers -> Locs]
        BY <2>3, GotoType DEF FindInactive, Locs
      <3> QED
        BY <2>3, <3>1 DEF FindInactive, TypeOK, Locs, envVars, connVars, countVars, histVars, statVars
    <2>4. CASE AnswerOK(p) \/ AnswerLater(p) \/ AnswerInvalidKey(p) \/ AnswerOther(p)
      <3>1. loc' \in [Invokers -> Locs]
        BY <2>4, GotoType DEF AnswerOK, AnswerLater, AnswerInvalidKey, AnswerOther, Return, Locs
      <3>2. result' \in [Invokers -> {"nil", "exiting", "invalidkey", "redirections", "noretry", "giveup"}]
        BY <2>4, ReturnType DEF AnswerOK, AnswerLater, AnswerInvalidKey, AnswerOther, TypeOK
      <3>3. EndCall(p, "nil") /\ UNCHANGED <<active, redirects>>
        BY <2>4 DEF AnswerOK, AnswerLater, AnswerInvalidKey, AnswerOther
      <3>4. readers' \subseteq Invokers /\ err' \in [Invokers -> {"nil", "stale", "toobig"}]
        BY <3>3, EndCallTypes
      <3>5. numSent' \in Nat /\ numFailed' \in Nat
        BY <2>4 DEF AnswerOK, AnswerLater, AnswerInvalidKey, AnswerOther, TypeOK, statVars
      <3> QED
        BY <3>1, <3>2, <3>3, <3>4, <3>5 DEF EndCall, TypeOK, Locs, envVars
    <2>5. CASE AnswerRedirect(p)
      <3>1. loc' \in [Invokers -> Locs]
        BY <2>5, GotoType DEF AnswerRedirect, Return, Locs
      <3>2. result' \in [Invokers -> {"nil", "exiting", "invalidkey", "redirections", "noretry", "giveup"}]
        BY <2>5, ReturnType DEF AnswerRedirect, TypeOK
      <3>3. redirects' \in [Invokers -> Nat]
        BY <2>5 DEF AnswerRedirect, TypeOK
      <3>4. readers' \subseteq Invokers /\ err' \in [Invokers -> {"nil", "stale", "toobig"}]
        BY <2>5, EndCallTypes DEF AnswerRedirect
      <3> QED
        BY <2>5, <3>1, <3>2, <3>3, <3>4 DEF AnswerRedirect, EndCall, TypeOK, Locs, envVars, statVars
    <2>6. CASE Stale(p) \/ TooBig(p)
      <3>1. loc' \in [Invokers -> Locs]
        BY <2>6, GotoType DEF Stale, TooBig, Locs
      <3>2. readers' \subseteq Invokers /\ err' \in [Invokers -> {"nil", "stale", "toobig"}]
        BY <2>6, EndCallTypes DEF Stale, TooBig
      <3> QED
        BY <2>6, <3>1, <3>2 DEF Stale, TooBig, EndCall, TypeOK, Locs, envVars, statVars
    <2>7. ASSUME NEW a \in Addresses, SetAddress(p, a) PROVE TypeOK'
      <3>1. loc' \in [Invokers -> Locs]
        BY <2>7, GotoType DEF SetAddress, Locs
      <3>2. retriesNum' \in [Invokers -> Nat]
        BY <2>7 DEF SetAddress, TypeOK
      <3> QED
        BY <2>7, <3>1, <3>2 DEF SetAddress, TypeOK, Locs, envVars, histVars, statVars
    <2>8. CASE CheckActive(p)
      <3>1. loc' \in [Invokers -> Locs]
        BY <2>8, GotoType DEF CheckActive, Locs
      <3> QED
        BY <2>8, <3>1 DEF CheckActive, TypeOK, Locs, envVars, connVars, countVars, histVars, statVars
    <2>9. CASE ConnectSkip(p) \/ ConnectFails(p) \/ Connect(p)
      <3>1. loc' \in [Invokers -> Locs]
        BY <2>9, GotoType DEF ConnectSkip, ConnectFails, Connect, Locs
      <3>2. /\ active' \in BOOLEAN /\ usable' \in BOOLEAN
            /\ connection' \in Addresses \cup {Nil} /\ client' \in Addresses
        BY <2>9 DEF ConnectSkip, ConnectFails, Connect, TypeOK
      <3>3. open' \in Nat
        BY <2>9 DEF ConnectSkip, ConnectFails, Connect, TypeOK
      <3>4. UNCHANGED connectRest
        BY <2>9 DEF ConnectSkip, ConnectFails, Connect
      <3> QED
        BY <3>1, <3>2, <3>3, <3>4 DEF connectRest, TypeOK, Locs, envVars, countVars, histVars, statVars
    <2>10. CASE Retry(p)
      <3>1. loc' \in [Invokers -> Locs]
        BY <2>10, GotoType DEF Retry, Return, Locs
      <3>2. result' \in [Invokers -> {"nil", "exiting", "invalidkey", "redirections", "noretry", "giveup"}]
        BY <2>10, ReturnType DEF Retry, TypeOK
      <3>3. retriesNum' \in [Invokers -> Nat]
        BY <2>10 DEF Retry, TypeOK
      <3> QED
        BY <2>10, <3>1, <3>2, <3>3 DEF Retry, TypeOK, Locs, envVars, connVars, statVars
    <2> QED
      BY <1>4, <2>1, <2>2, <2>3, <2>4, <2>5, <2>6, <2>7, <2>8, <2>9, <2>10 DEF Step
  <1>5. CASE UNCHANGED vars
    BY <1>5 DEF vars, TypeOK, envVars, connVars, countVars, histVars, statVars
  <1> QED
    BY <1>1, <1>2, <1>3, <1>4, <1>5 DEF Next

-----------------------------------------------------------------------------
(* The connection. *)

LEMMA ConnectionStep ==
  ASSUME TypeOK, OneConnection, ActiveAtAddress, [Next]_vars
  PROVE  OneConnection' /\ ActiveAtAddress'
  <1> USE ConnectionAssumption
  <1>1. ASSUME UNCHANGED <<address, connection, client, open>>, active' => active
        PROVE  OneConnection' /\ ActiveAtAddress'
    BY <1>1 DEF OneConnection, ActiveAtAddress
  <1>2. CASE Close
    BY <1>2 DEF Close, OneConnection, ActiveAtAddress
  <1>3. ASSUME NEW p \in Invokers, Step(p) PROVE OneConnection' /\ ActiveAtAddress'
    <2>1. CASE Check(p) \/ BeginCall(p) \/ FindInactive(p) \/ CheckActive(p) \/ Retry(p)
      BY <1>1, <2>1 DEF Check, BeginCall, FindInactive, CheckActive, Retry, connVars
    <2>2. CASE \/ AnswerOK(p) \/ AnswerLater(p) \/ AnswerInvalidKey(p) \/ AnswerOther(p)
               \/ AnswerRedirect(p) \/ Stale(p) \/ TooBig(p)
      BY <1>1, <2>2 DEF AnswerOK, AnswerLater, AnswerInvalidKey, AnswerOther, AnswerRedirect,
         Stale, TooBig, EndCall
    <2>3. ASSUME NEW a \in Addresses, SetAddress(p, a) PROVE OneConnection' /\ ActiveAtAddress'
      BY <2>3 DEF SetAddress, OneConnection, ActiveAtAddress
    <2>4. CASE ConnectSkip(p) \/ ConnectFails(p)
      BY <1>1, <2>4 DEF ConnectSkip, ConnectFails, connectRest
    <2>5. CASE Connect(p)
      <3>1. connection' # Nil /\ client' = address'
        BY <2>5 DEF Connect, connectRest, TypeOK
      <3>2. open' = 1
        BY <2>5 DEF Connect, OneConnection
      <3> QED
        BY <3>1, <3>2 DEF OneConnection, ActiveAtAddress
    <2> QED
      BY <1>3, <2>1, <2>2, <2>3, <2>4, <2>5 DEF Step
  <1>4. ASSUME NEW p, NEW m, Invoke(p, m) PROVE OneConnection' /\ ActiveAtAddress'
    BY <1>1, <1>4 DEF Invoke, connVars
  <1>5. CASE CloseExit \/ SetFlushed \/ UNCHANGED vars
    BY <1>1, <1>5 DEF CloseExit, SetFlushed, vars, connVars
  <1> QED
    BY <1>2, <1>3, <1>4, <1>5 DEF Next

-----------------------------------------------------------------------------
(* The goroutines. *)

\* What another goroutine does leaves the locals of q alone.
LEMMA OthersUntouched ==
  ASSUME TypeOK, NEW p \in Invokers, NEW q \in Invokers, q # p,
         Step(p) \/ \E m \in Methods : Invoke(p, m)
  PROVE  /\ loc'[q] = loc[q]
         /\ attempts'[q] = attempts[q]
         /\ late'[q] = late[q]
         /\ redirects'[q] = redirects[q]
         /\ retriesNum'[q] = retriesNum[q]
         /\ q \in readers => q \in readers'
         /\ UNCHANGED <<exit, flushed>>
  <1>1. CASE Check(p)
    BY <1>1 DEF Check, Return, Goto, countVars, envVars, TypeOK
  <1>2. CASE BeginCall(p)
    BY <1>2 DEF BeginCall, Goto, countVars, envVars, TypeOK
  <1>3. CASE FindInactive(p) \/ CheckActive(p)
    BY <1>3 DEF FindInactive, CheckActive, Goto, countVars, histVars, envVars, TypeOK
  <1>4. CASE AnswerOK(p) \/ AnswerLater(p) \/ AnswerInvalidKey(p) \/ AnswerOther(p)
    BY <1>4 DEF AnswerOK, AnswerLater, AnswerInvalidKey, AnswerOther, EndCall, Return, Goto,
       envVars, TypeOK
  <1>5. CASE AnswerRedirect(p) \/ Stale(p) \/ TooBig(p)
    BY <1>5 DEF AnswerRedirect, Stale, TooBig, EndCall, Return, Goto, envVars, TypeOK
  <1>6. ASSUME NEW a, SetAddress(p, a)
        PROVE  /\ loc'[q] = loc[q]
               /\ attempts'[q] = attempts[q]
               /\ late'[q] = late[q]
               /\ redirects'[q] = redirects[q]
               /\ retriesNum'[q] = retriesNum[q]
               /\ q \in readers => q \in readers'
               /\ UNCHANGED <<exit, flushed>>
    BY <1>6 DEF SetAddress, Goto, histVars, envVars, TypeOK
  <1>7. CASE ConnectSkip(p) \/ ConnectFails(p) \/ Connect(p)
    BY <1>7 DEF ConnectSkip, ConnectFails, Connect, connectRest, Goto, countVars, histVars,
       envVars, TypeOK
  <1>8. CASE Retry(p)
    BY <1>8 DEF Retry, Return, Goto, envVars, TypeOK
  <1>9. CASE \E m \in Methods : Invoke(p, m)
    BY <1>9 DEF Invoke, Goto, envVars, TypeOK
  <1> QED
    BY <1>1, <1>2, <1>3, <1>4, <1>5, <1>6, <1>7, <1>8, <1>9 DEF Step

\* Exit and flushed stay closed; nothing else of a goroutine changes with them.
LEMMA ReporterUntouched ==
  ASSUME CloseExit \/ SetFlushed \/ Close \/ UNCHANGED vars
  PROVE  /\ UNCHANGED <<loc, attempts, late, redirects, retriesNum, readers>>
         /\ exit => exit'
         /\ flushed => flushed'
  BY DEF CloseExit, SetFlushed, Close, vars, countVars, histVars, envVars

\* A step of p keeps p's budget.
LEMMA OwnBudget ==
  ASSUME TypeOK, NEW p \in Invokers, Budget(p),
         Step(p) \/ \E m \in Methods : Invoke(p, m)
  PROVE  Budget(p)'
  <1> DEFINE r == redirects[p]
             n == retriesNum[p]
             a == attempts[p]
  <1>1. /\ r \in Nat /\ n \in Nat /\ a \in Nat
        /\ loc[p] \in Locs
        /\ r * Rounds \in Nat
        /\ Rounds \in Nat /\ RedirectMax \in Nat /\ RetryMax \in Nat
    BY RoundsNat, NextProduct DEF TypeOK, Locs
  <1>2. loc[p] \in {"calling", "conn", "dial", "retry"} =>
          a <= (r + 1) * Rounds /\ a <= (RedirectMax + 1) * Rounds
    BY <1>1, BudgetSpent DEF Budget
  <1>3. loc[p] \in {"check", "lock"} => a <= (RedirectMax + 1) * Rounds
    <2> SUFFICES ASSUME loc[p] \in {"check", "lock"} PROVE a <= (RedirectMax + 1) * Rounds
      OBVIOUS
    <2>1. a <= r * Rounds + n /\ r <= RedirectMax /\ n <= RetryMax
      BY DEF Budget
    <2>2. a <= r * Rounds + n + 1
      BY <1>1, <2>1
    <2> QED
      BY <1>1, <2>1, <2>2, BudgetSpent
  <1>4. CASE Check(p)
    <2>1. /\ redirects'[p] = r /\ retriesNum'[p] = n /\ attempts'[p] = a
          /\ loc[p] = "check" /\ loc'[p] \in {"idle", "lock"}
      BY <1>4 DEF Check, Return, Goto, countVars, TypeOK
    <2> QED
      BY <1>1, <1>3, <2>1 DEF Budget
  <1>5. CASE BeginCall(p)
    <2>1. /\ redirects'[p] = r /\ retriesNum'[p] = n /\ attempts'[p] = a + 1
          /\ loc[p] = "lock" /\ loc'[p] = "calling"
      BY <1>5 DEF BeginCall, Goto, countVars, TypeOK
    <2> QED
      BY <1>1, <2>1 DEF Budget
  <1>6. CASE \/ FindInactive(p) \/ CheckActive(p) \/ ConnectSkip(p) \/ ConnectFails(p) \/ Connect(p)
    <2>1. /\ redirects'[p] = r /\ retriesNum'[p] = n /\ attempts'[p] = a
          /\ loc[p] \in {"lock", "conn", "dial"} /\ loc'[p] \in {"conn", "dial", "retry"}
      BY <1>6 DEF FindInactive, CheckActive, ConnectSkip, ConnectFails, Connect, connectRest, Goto,
         countVars, histVars, TypeOK
    <2> QED
      BY <1>1, <2>1 DEF Budget
  <1>7. CASE \/ AnswerOK(p) \/ AnswerLater(p) \/ AnswerInvalidKey(p) \/ AnswerOther(p)
             \/ Stale(p) \/ TooBig(p)
    <2>1. /\ redirects'[p] = r /\ retriesNum'[p] = n /\ attempts'[p] = a
          /\ loc[p] = "calling" /\ loc'[p] \in {"idle", "conn"}
      BY <1>7 DEF AnswerOK, AnswerLater, AnswerInvalidKey, AnswerOther, Stale, TooBig, EndCall,
         Return, Goto, TypeOK
    <2> QED
      BY <1>1, <1>2, <2>1 DEF Budget
  <1>8. CASE AnswerRedirect(p)
    <2>1. /\ redirects'[p] = r + 1 /\ retriesNum'[p] = n /\ attempts'[p] = a
          /\ loc[p] = "calling"
          /\ \/ loc'[p] = "idle"
             \/ r + 1 <= RedirectMax /\ loc'[p] \in {"address", "conn"}
      BY <1>8 DEF AnswerRedirect, EndCall, Return, Goto, TypeOK
    <2>2. (r + 1) * Rounds \in Nat
      BY <1>1
    <2>3. a <= (r + 1) * Rounds + n + 1
      BY <1>1, <1>2, <2>1, <2>2
    <2> QED
      BY <1>1, <1>2, <2>1, <2>2, <2>3 DEF Budget
  <1>9. ASSUME NEW x, SetAddress(p, x) PROVE Budget(p)'
    <2>1. /\ redirects'[p] = r /\ retriesNum'[p] = 0 /\ attempts'[p] = a
          /\ loc[p] = "address" /\ loc'[p] = "conn"
      BY <1>9 DEF SetAddress, Goto, histVars, TypeOK
    <2> QED
      BY <1>1, <2>1 DEF Budget
  <1>10. CASE Retry(p)
    <2>1. /\ redirects'[p] = r /\ attempts'[p] = a
          /\ loc[p] = "retry"
          /\ \/ loc'[p] = "idle"
             \/ loc'[p] = "check" /\ retriesNum'[p] = n + 1 /\ n + 1 <= RetryMax
      BY <1>10 DEF Retry, Return, Goto, TypeOK
    <2> QED
      BY <1>1, <1>2, <2>1 DEF Budget
  <1>11. CASE \E m \in Methods : Invoke(p, m)
    <2>1. /\ redirects'[p] = 0 /\ retriesNum'[p] = 0 /\ attempts'[p] = 0
          /\ loc'[p] = "check"
      BY <1>11 DEF Invoke, Goto, TypeOK
    <2> QED
      BY <1>1, <2>1 DEF Budget
  <1> QED
    BY <1>4, <1>5, <1>6, <1>7, <1>8, <1>9, <1>10, <1>11 DEF Step

LEMMA OwnLate ==
  ASSUME TypeOK, NEW p \in Invokers, LateOnce(p), HoldsLock(p),
         Step(p) \/ \E m \in Methods : Invoke(p, m)
  PROVE  LateOnce(p)' /\ HoldsLock(p)'
  <1>0. late[p] \in Nat
    BY DEF TypeOK
  <1>1. CASE Check(p)
    <2>1. /\ late'[p] = late[p] /\ loc'[p] \in {"idle", "lock"}
          /\ UNCHANGED <<exit, flushed>>
          /\ loc'[p] = "lock" => ~(exit /\ flushed)
      BY <1>1 DEF Check, Return, Goto, envVars, TypeOK
    <2> QED
      BY <1>0, <2>1 DEF LateOnce, HoldsLock
  <1>2. CASE BeginCall(p)
    <2>1. /\ late'[p] = IF exit /\ flushed THEN late[p] + 1 ELSE late[p]
          /\ loc[p] = "lock" /\ loc'[p] = "calling" /\ p \in readers'
          /\ UNCHANGED <<exit, flushed>>
      BY <1>2 DEF BeginCall, Goto, envVars, TypeOK
    <2>2. late[p] = 0
      BY <1>0, <2>1 DEF LateOnce
    <2> QED
      BY <2>1, <2>2 DEF LateOnce, HoldsLock
  <1>3. ASSUME late'[p] = late[p], loc'[p] \notin {"lock", "calling"}, UNCHANGED <<exit, flushed>>
        PROVE  LateOnce(p)' /\ HoldsLock(p)'
    BY <1>0, <1>3 DEF LateOnce, HoldsLock
  <1>4. CASE \/ FindInactive(p) \/ CheckActive(p) \/ ConnectSkip(p) \/ ConnectFails(p) \/ Connect(p)
    BY <1>3, <1>4 DEF FindInactive, CheckActive, ConnectSkip, ConnectFails, Connect, connectRest,
       Goto, histVars, envVars, TypeOK
  <1>5. CASE \/ AnswerOK(p) \/ AnswerLater(p) \/ AnswerInvalidKey(p) \/ AnswerOther(p)
             \/ AnswerRedirect(p) \/ Stale(p) \/ TooBig(p)
    BY <1>3, <1>5 DEF AnswerOK, AnswerLater, AnswerInvalidKey, AnswerOther, AnswerRedirect, Stale,
       TooBig, EndCall, Return, Goto, envVars, TypeOK
  <1>6. ASSUME NEW x, SetAddress(p, x) PROVE LateOnce(p)' /\ HoldsLock(p)'
    BY <1>3, <1>6 DEF SetAddress, Goto, histVars, envVars, TypeOK
  <1>7. CASE Retry(p)
    BY <1>3, <1>7 DEF Retry, Return, Goto, envVars, TypeOK
  <1>8. CASE \E m \in Methods : Invoke(p, m)
    <2>1. late'[p] = 0 /\ loc'[p] = "check"
      BY <1>8 DEF Invoke, Goto, TypeOK
    <2> QED
      BY <2>1 DEF LateOnce, HoldsLock
  <1> QED
    BY <1>1, <1>2, <1>4, <1>5, <1>6, <1>7, <1>8 DEF Step

LEMMA ConnInvNext == ConnInv /\ [Next]_vars => ConnInv'
  <1> SUFFICES ASSUME ConnInv, [Next]_vars PROVE ConnInv'
    OBVIOUS
  <1>1. TypeOK' /\ OneConnection' /\ ActiveAtAddress'
    BY TypeStep, ConnectionStep DEF ConnInv
  <1>2. ASSUME NEW q \in Invokers PROVE (Budget(q) /\ LateOnce(q) /\ HoldsLock(q))'
    <2>1. CASE CloseExit \/ SetFlushed \/ Close \/ UNCHANGED vars
      BY <2>1, ReporterUntouched DEF ConnInv, Budget, LateOnce, HoldsLock
    <2>2. ASSUME NEW p \in Invokers, Step(p) \/ \E m \in Methods : Invoke(p, m)
          PROVE  (Budget(q) /\ LateOnce(q) /\ HoldsLock(q))'
      <3>1. CASE q = p
        BY <2>2, <3>1, OwnBudget, OwnLate DEF ConnInv
      <3>2. CASE q # p
        BY <2>2, <3>2, OthersUntouched DEF ConnInv, Budget, LateOnce, HoldsLock
      <3> QED
        BY <3>1, <3>2
    <2> QED
      BY <2>1, <2>2 DEF Next
  <1> QED
    BY <1>1, <1>2 DEF ConnInv

-----------------------------------------------------------------------------
(* The theorems. *)

\* Type correctness of the connection.
THEOREM ConnectionTypeCorrect == Spec => []TypeOK
  <1>1. ConnInv => TypeOK
    BY DEF ConnInv
  <1> QED
    BY <1>1, InitInv, ConnInvNext, PTL DEF Spec

\* Whatever the collector answers, InvokeRPC begins at most (RedirectMax + 1) * (RetryMax + 1)
\* calls, for all limits and any number of goroutines.
THEOREM ConnectionAttemptsBounded == Spec => []AttemptsBounded
  <1>1. ConnInv => AttemptsBounded
    <2> SUFFICES ASSUME ConnInv, NEW p \in Invokers
                 PROVE  attempts[p] <= (RedirectMax + 1) * (RetryMax + 1)
      BY DEF AttemptsBounded
    <2>1. /\ redirects[p] \in Nat /\ retriesNum[p] \in Nat /\ attempts[p] \in Nat
          /\ loc[p] \in Locs /\ redirects[p] * Rounds \in Nat
      BY NextProduct DEF ConnInv, TypeOK, Locs
    <2>2. Budget(p)
      BY DEF ConnInv
    <2>3. CASE loc[p] = "idle"
      BY <2>2, <2>3 DEF Budget, Rounds
    <2>4. CASE loc[p] # "idle"
      <3>1. /\ redirects[p] <= RedirectMax /\ retriesNum[p] <= RetryMax
            /\ attempts[p] <= redirects[p] * Rounds + retriesNum[p] + 1
        BY <2>1, <2>2, <2>4 DEF Budget, Locs
      <3> QED
        BY <2>1, <3>1, BudgetSpent DEF Rounds
    <2> QED
      BY <2>3, <2>4
  <1> QED
    BY <1>1, InitInv, ConnInvNext, PTL DEF Spec

\* No connection object is leaked as long as the connection is not closed behind the back of
\* a caller: the only open object is the current one.
THEOREM ConnectionOne == Spec => []OneConnection
  <1>1. ConnInv => OneConnection
    BY DEF ConnInv
  <1> QED
    BY <1>1, InitInv, ConnInvNext, PTL DEF Spec

\* An active connection leads to the address set last.
THEOREM ConnectionActiveAtAddress == Spec => []ActiveAtAddress
  <1>1. ConnInv => ActiveAtAddress
    BY DEF ConnInv
  <1> QED
    BY <1>1, InitInv, ConnInvNext, PTL DEF Spec

\* At most one call per goroutine begins after the reporter is closed and flushed.
THEOREM ConnectionFailFast == Spec => []FailFast
  <1>1. ConnInv => FailFast
    BY DEF ConnInv, LateOnce, FailFast
  <1> QED
    BY <1>1, InitInv, ConnInvNext, PTL DEF Spec

\* No goroutine changes the client under a call of another one.
THEOREM ConnectionClientStable == Spec => ClientStable
  <1>1. ConnInv /\ [Next]_vars =>
          [\A p \in Invokers : loc[p] = "calling" /\ loc'[p] = "calling" =>
             client' = client /\ usable' = usable]_vars
    <2> SUFFICES ASSUME ConnInv, Next, NEW q \in Invokers, loc[q] = "calling"
                 PROVE  client' = client /\ usable' = usable
      OBVIOUS
    <2>1. readers # {}
      BY DEF ConnInv, HoldsLock
    <2> QED
      BY <2>1 DEF Next, CloseExit, SetFlushed, Close, Invoke, Step, Check, BeginCall, FindInactive,
         AnswerOK, AnswerLater, AnswerInvalidKey, AnswerRedirect, AnswerOther, Stale, TooBig, EndCall,
         SetAddress, CheckActive, ConnectSkip, ConnectFails, Connect, Retry, connVars
  <1> QED
    BY <1>1, InitInv, ConnInvNext, PTL DEF Spec, ClientStable

-----------------------------------------------------------------------------
(* InvokeRPC makes progress. *)

\* The places of one round, in their order.
Rank(l) ==
  CASE l = "check" -> 1 [] l = "lock" -> 2 [] l = "calling" -> 3 [] l = "address" -> 4
    [] l = "conn" -> 5 [] l = "dial" -> 6 [] l = "retry" -> 7 [] OTHER -> 0

\* The retries since the last redirection with an address.
RetriesSince(p) == IF loc[p] = "address" THEN 0 ELSE retriesNum[p]

\* p came further: by a redirection, by a retry, or within its round.
Further(p) ==
  \/ redirects'[p] > redirects[p]
  \/ /\ redirects'[p] = redirects[p]
     /\ \/ RetriesSince(p)' > RetriesSince(p)
        \/ RetriesSince(p)' = RetriesSince(p) /\ Rank(loc'[p]) > Rank(loc[p])

\* What each step does to a goroutine within InvokeRPC.
Progress ==
  \A p \in Invokers :
    loc[p] # "idle" =>
      \/ loc'[p] = "idle"
      \/ Further(p)
      \/ UNCHANGED <<loc[p], redirects[p], retriesNum[p]>> /\ ~Step(p)

\* How far it can come.
WithinLimits ==
  \A p \in Invokers : loc[p] # "idle" => redirects[p] <= RedirectMax /\ retriesNum[p] <= RetryMax

LEMMA StepProgress ==
  ASSUME TypeOK, NEW p \in Invokers, Step(p)
  PROVE  loc'[p] = "idle" \/ Further(p)
  <1>1. /\ redirects[p] \in Nat /\ retriesNum[p] \in Nat /\ RetriesSince(p) \in Nat
    BY DEF TypeOK, RetriesSince
  <1>2. ASSUME redirects'[p] = redirects[p], retriesNum'[p] = retriesNum[p],
               loc[p] # "address", loc'[p] # "address", Rank(loc'[p]) > Rank(loc[p])
        PROVE  Further(p)
    BY <1>2 DEF Further, RetriesSince
  <1>3. CASE Check(p)
    <2>1. /\ redirects'[p] = redirects[p] /\ retriesNum'[p] = retriesNum[p]
          /\ loc[p] = "check" /\ loc'[p] \in {"idle", "lock"}
      BY <1>3 DEF Check, Return, Goto, countVars, TypeOK
    <2> QED
      BY <1>2, <2>1 DEF Rank
  <1>4. CASE BeginCall(p) \/ FindInactive(p)
    <2>1. /\ redirects'[p] = redirects[p] /\ retriesNum'[p] = retriesNum[p]
          /\ loc[p] = "lock" /\ loc'[p] \in {"calling", "conn"}
      BY <1>4 DEF BeginCall, FindInactive, Goto, countVars, TypeOK
    <2> QED
      BY <1>2, <2>1 DEF Rank
  <1>5. CASE \/ AnswerOK(p) \/ AnswerLater(p) \/ AnswerInvalidKey(p) \/ AnswerOther(p)
             \/ Stale(p) \/ TooBig(p)
    <2>1. /\ redirects'[p] = redirects[p] /\ retriesNum'[p] = retriesNum[p]
          /\ loc[p] = "calling" /\ loc'[p] \in {"idle", "conn"}
      BY <1>5 DEF AnswerOK, AnswerLater, AnswerInvalidKey, AnswerOther, Stale, TooBig, EndCall,
         Return, Goto, TypeOK
    <2> QED
      BY <1>2, <2>1 DEF Rank
  <1>6. CASE AnswerRedirect(p)
    <2>1. redirects'[p] = redirects[p] + 1
      BY <1>6 DEF AnswerRedirect, TypeOK
    <2> QED
      BY <1>1, <2>1 DEF Further
  <1>7. ASSUME NEW a, SetAddress(p, a) PROVE Further(p)
    <2>1. /\ redirects'[p] = redirects[p] /\ retriesNum'[p] = 0
          /\ loc[p] = "address" /\ loc'[p] = "conn"
      BY <1>7 DEF SetAddress, Goto, histVars, TypeOK
    <2> QED
      BY <2>1 DEF Further, RetriesSince, Rank
  <1>8. CASE CheckActive(p) \/ ConnectSkip(p) \/ ConnectFails(p) \/ Connect(p)
    <2>1. /\ redirects'[p] = redirects[p] /\ retriesNum'[p] = retriesNum[p]
          /\ \/ loc[p] = "conn" /\ loc'[p] \in {"dial", "retry"}
             \/ loc[p] = "dial" /\ loc'[p] = "retry"
      BY <1>8 DEF CheckActive, ConnectSkip, ConnectFails, Connect, connectRest, Goto, countVars,
         histVars, TypeOK
    <2> QED
      BY <1>2, <2>1 DEF Rank
  <1>9. CASE Retry(p)
    <2>1. /\ redirects'[p] = redirects[p] /\ loc[p] = "retry"
          /\ loc'[p] = "idle" \/ (loc'[p] = "check" /\ retriesNum'[p] = retriesNum[p] + 1)
      BY <1>9 DEF Retry, Return, Goto, TypeOK
    <2> QED
      BY <1>1, <2>1 DEF Further, RetriesSince
  <1> QED
    BY <1>3, <1>4, <1>5, <1>6, <1>7, <1>8, <1>9 DEF Step

\* InvokeRPC runs towards its end: each step of a goroutine within it brings that goroutine
\* further in an order that the limits on redirections and retries bound, and no step of
\* another one throws it back, although every redirection resets the count of retries.  What
\* InvokeReturns needs besides is that the goroutine is scheduled (reporter_grpc.go:1088-1199).
THEOREM ConnectionProgress == Spec => []WithinLimits /\ [][Progress]_vars
  <1>1. ConnInv => WithinLimits
    BY DEF ConnInv, Budget, WithinLimits
  <1>2. ConnInv /\ [Next]_vars => [Progress]_vars
    <2> SUFFICES ASSUME ConnInv, Next, NEW q \in Invokers, loc[q] # "idle",
                        loc'[q] # "idle", ~Further(q)
                 PROVE  UNCHANGED <<loc[q], redirects[q], retriesNum[q]>> /\ ~Step(q)
      BY DEF Progress
    <2>1. ~Step(q)
      BY StepProgress DEF ConnInv
    <2>2. CASE CloseExit \/ SetFlushed \/ Close
      BY <2>1, <2>2, ReporterUntouched
    <2>3. ASSUME NEW p \in Invokers, Step(p) \/ \E m \in Methods : Invoke(p, m)
          PROVE  UNCHANGED <<loc[q], redirects[q], retriesNum[q]>> /\ ~Step(q)
      <3>1. p # q
        BY <2>1, <2>3 DEF Invoke
      <3> QED
        BY <2>1, <2>3, <3>1, OthersUntouched DEF ConnInv
    <2> QED
      BY <2>2, <2>3 DEF Next
  <1> QED
    BY <1>1, <1>2, InitInv, ConnInvNext, PTL DEF Spec

-----------------------------------------------------------------------------
(* InvokeRPC keeps the contract of module RPC. *)

\* The abstract state of a goroutine.
Rpc == [p \in Invokers |->
         IF loc[p] = "idle" THEN "none" ELSE IF loc[p] = "check" THEN "check" ELSE "call"]

\* A step of p moves p's abstract state only.
LEMMA RpcMoves ==
  ASSUME TypeOK, NEW p \in Invokers, NEW l \in Locs, Goto(p, l)
  PROVE  Rpc' = [Rpc EXCEPT ![p] =
                   IF l = "idle" THEN "none" ELSE IF l = "check" THEN "check" ELSE "call"]
  BY GotoType DEF Rpc

LEMMA ContractStep ==
  ASSUME TypeOK, Next
  PROVE  \/ UNCHANGED <<exit, flushed, Rpc>>
         \/ Contract!Next
  <1> USE DEF Locs
  <1>0. \A p \in Invokers : Rpc[p] = IF loc[p] = "idle" THEN "none"
                                    ELSE IF loc[p] = "check" THEN "check" ELSE "call"
    BY DEF Rpc
  <1>1. CASE CloseExit \/ SetFlushed
    BY <1>1 DEF CloseExit, SetFlushed, Rpc, Contract!Next, Contract!Closing
  <1>2. CASE Close
    BY <1>2 DEF Close, Rpc
  <1>3. ASSUME NEW p \in Invokers, NEW m \in Methods, Invoke(p, m) PROVE Contract!Next
    <2>1. Rpc[p] = "none" /\ Rpc' = [Rpc EXCEPT ![p] = "check"] /\ UNCHANGED <<exit, flushed>>
      BY <1>0, <1>3, RpcMoves DEF Invoke, envVars
    <2> QED
      BY <2>1 DEF Contract!Next, Contract!CallerStep, Contract!Invoke, Rpc
  <1>4. ASSUME NEW p \in Invokers, Check(p) PROVE Contract!Next
    <2>1. Rpc[p] = "check" /\ UNCHANGED <<exit, flushed>>
      BY <1>0, <1>4 DEF Check, envVars
    <2>2. \/ exit /\ flushed /\ Rpc' = [Rpc EXCEPT ![p] = "none"]
          \/ ~(exit /\ flushed) /\ Rpc' = [Rpc EXCEPT ![p] = "call"]
      BY <1>4, RpcMoves DEF Check, Return
    <2> QED
      BY <2>1, <2>2 DEF Contract!Next, Contract!CallerStep, Contract!FailFast, Contract!Attempt, Rpc
  <1>5. ASSUME NEW p \in Invokers, NEW l \in Locs, loc[p] \notin {"idle", "check"},
               Goto(p, l), UNCHANGED <<exit, flushed>>
        PROVE  UNCHANGED <<exit, flushed, Rpc>> \/ Contract!Next
    <2>1. Rpc[p] = "call"
      BY <1>0, <1>5
    <2>2. \/ l = "idle" /\ Rpc' = [Rpc EXCEPT ![p] = "none"]
          \/ l = "check" /\ Rpc' = [Rpc EXCEPT ![p] = "check"]
          \/ Rpc' = [Rpc EXCEPT ![p] = "call"]
      BY <1>5, RpcMoves
    <2>3. ASSUME Rpc' = [Rpc EXCEPT ![p] = "call"] PROVE Rpc' = Rpc
      BY <2>1, <2>3 DEF Rpc
    <2> QED
      BY <1>5, <2>1, <2>2, <2>3
         DEF Contract!Next, Contract!CallerStep, Contract!Retry, Contract!Return, Rpc
  <1>6. ASSUME NEW p \in Invokers, Step(p), ~Check(p)
        PROVE  UNCHANGED <<exit, flushed, Rpc>> \/ Contract!Next
    <2>1. loc[p] \notin {"idle", "check"} /\ UNCHANGED <<exit, flushed>>
      BY <1>6 DEF Step, BeginCall, FindInactive, AnswerOK, AnswerLater, AnswerInvalidKey,
         AnswerRedirect, AnswerOther, Stale, TooBig, EndCall, SetAddress, CheckActive, ConnectSkip,
         ConnectFails, Connect, connectRest, Retry, envVars
    <2>2. \E l \in Locs : Goto(p, l)
      BY <1>6 DEF Step, BeginCall, FindInactive, AnswerOK, AnswerLater, AnswerInvalidKey,
         AnswerRedirect, AnswerOther, Stale, TooBig, SetAddress, CheckActive, ConnectSkip,
         ConnectFails, Connect, Retry, Return
    <2> QED
      BY <1>5, <2>1, <2>2
  <1> QED
    BY <1>1, <1>2, <1>3, <1>4, <1>6 DEF Next

\* InvokeRPC keeps its contract: this is what the model of the reporter takes for granted.
THEOREM ConnectionImplementsContract == Spec => ImplementsContract
  <1>1. Init => Contract!Init
    BY DEF Init, Contract!Init
  <1>2. ConnInv /\ [Next]_vars => [Contract!Next]_(Contract!rpcVars)
    <2> SUFFICES ASSUME ConnInv, [Next]_vars PROVE [Contract!Next]_(Contract!rpcVars)
      OBVIOUS
    <2>1. CASE Next
      BY <2>1, ContractStep DEF ConnInv, Rpc, Contract!rpcVars
    <2>2. CASE UNCHANGED vars
      BY <2>2 DEF vars, envVars, Contract!rpcVars
    <2> QED
      BY <2>1, <2>2
  <1> QED
    BY <1>1, <1>2, InitInv, ConnInvNext, PTL DEF Spec, ImplementsContract, Contract!Spec
=============================================================================
