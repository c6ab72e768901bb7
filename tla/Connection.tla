------------------------------ MODULE Connection ------------------------------
(***************************************************************************)
(* grpcConnection of internal/reporter/reporter_grpc.go: InvokeRPC with its *)
(* redirections and retries, connect, setAddress and Close.  All RPC        *)
(* goroutines share one connection; c.lock is a reader-writer lock, held    *)
(* for reading during a call and for writing to replace the connection.     *)
(* The collector and the gRPC library are external: a call may be answered  *)
(* in any way, fail or time out.                                            *)
(***************************************************************************)
EXTENDS Integers, FiniteSets

CONSTANTS
  Invokers,      \* the goroutines that call InvokeRPC
  Methods,       \* the kinds of method they call it with
  Addresses,     \* collector addresses
  Home,          \* the configured one
  RedirectMax,   \* grpcRedirectMax (20)
  RetryMax,      \* grpcMaxRetries (20)
  MaxCalls       \* bound: how often each goroutine calls InvokeRPC

\* "post" stands for the methods that are retried (PostEvents, PostMetrics, PostStatus and
\* GetSettings), "big" for a post larger than maxReqBytes, "nokey" for any method without a
\* service key, which is never issued.
AllMethods == {"post", "big", "nokey", "ping"}

Nil == "nil"

ASSUME ConnectionAssumption ==
  /\ Methods \subseteq AllMethods
  /\ Home \in Addresses
  /\ Nil \notin Addresses
  /\ RedirectMax \in Nat
  /\ RetryMax \in Nat
  /\ MaxCalls \in Nat

VARIABLES
  exit, flushed,   \* the channels of these names are closed
  address, active,
  connection,      \* the address the current connection object leads to, or Nil
  client,          \* the address the client's connection object leads to
  usable,          \* the client's connection object is open
  open,            \* history: how many connection objects are open
  closing,         \* history: Close was called
  readers,         \* the goroutines that hold c.lock for reading
  loc,             \* per goroutine: where it is in InvokeRPC
  method, redirects, retriesNum,
  err,
  calls,           \* how many times the goroutine called InvokeRPC
  attempts,        \* history: the calls begun by the current InvokeRPC
  late,            \* history: those begun after `exit' and `flushed' were closed
  result,          \* what the last InvokeRPC returned
  numSent, numFailed  \* of queueStats

connVars == <<address, active, connection, client, usable, open>>
countVars == <<method, redirects, retriesNum>>
statVars == <<numSent, numFailed>>
histVars == <<calls, attempts, late, result>>
envVars == <<exit, flushed, closing>>
vars == <<envVars, connVars, readers, loc, countVars, err, histVars, statVars>>

\* newGrpcConnection has connected to the configured address.
Init ==
  /\ exit = FALSE /\ flushed = FALSE /\ closing = FALSE
  /\ address = Home /\ active = TRUE
  /\ connection = Home /\ client = Home /\ usable = TRUE /\ open = 1
  /\ readers = {}
  /\ loc = [p \in Invokers |-> "idle"]
  /\ method = [p \in Invokers |-> "ping"]
  /\ redirects = [p \in Invokers |-> 0]
  /\ retriesNum = [p \in Invokers |-> 0]
  /\ err = [p \in Invokers |-> "nil"]
  /\ calls = [p \in Invokers |-> 0]
  /\ attempts = [p \in Invokers |-> 0]
  /\ late = [p \in Invokers |-> 0]
  /\ result = [p \in Invokers |-> "nil"]
  /\ numSent = 0 /\ numFailed = 0

-----------------------------------------------------------------------------
(* The reporter. *)

CloseExit ==
  /\ ~exit
  /\ exit' = TRUE
  /\ UNCHANGED <<flushed, closing, connVars, readers, loc, countVars, err, histVars, statVars>>

SetFlushed ==
  /\ exit /\ ~flushed
  /\ flushed' = TRUE
  /\ UNCHANGED <<exit, closing, connVars, readers, loc, countVars, err, histVars, statVars>>

\* Close leaves `active' and the client alone.
Close ==
  /\ exit /\ ~closing
  /\ readers = {}
  /\ closing' = TRUE
  /\ open' = IF connection # Nil THEN open - 1 ELSE open
  /\ usable' = FALSE
  /\ connection' = Nil
  /\ UNCHANGED <<exit, flushed, address, active, client, readers, loc, countVars, err,
                 histVars, statVars>>

-----------------------------------------------------------------------------
(* InvokeRPC. *)

Goto(p, l) == loc' = [loc EXCEPT ![p] = l]

Return(p, e) == Goto(p, "idle") /\ result' = [result EXCEPT ![p] = e]

\* p calls InvokeRPC.
Invoke(p, m) ==
  /\ loc[p] = "idle"
  /\ calls[p] < MaxCalls
  /\ calls' = [calls EXCEPT ![p] = @ + 1]
  /\ method' = [method EXCEPT ![p] = m]
  /\ redirects' = [redirects EXCEPT ![p] = 0]
  /\ retriesNum' = [retriesNum EXCEPT ![p] = 0]
  /\ attempts' = [attempts EXCEPT ![p] = 0]
  /\ late' = [late EXCEPT ![p] = 0]
  /\ Goto(p, "check")
  /\ UNCHANGED <<envVars, connVars, readers, err, result, statVars>>

\* Mutation: the last flush is not waited for.
CheckExitOnly(p) ==
  /\ loc[p] = "check"
  /\ \/ exit /\ Return(p, "exiting")
     \/ ~exit /\ Goto(p, "lock") /\ UNCHANGED result
  /\ UNCHANGED <<envVars, connVars, readers, countVars, err, calls, attempts, late, statVars>>

Check(p) ==
  /\ loc[p] = "check"
  /\ \/ exit /\ flushed /\ Return(p, "exiting")
     \/ ~(exit /\ flushed) /\ Goto(p, "lock") /\ UNCHANGED result
  /\ UNCHANGED <<envVars, connVars, readers, countVars, err, calls, attempts, late, statVars>>

\* Take the lock for reading and begin the call, if the connection is active.
BeginCall(p) ==
  /\ loc[p] = "lock"
  /\ active
  /\ readers' = readers \cup {p}
  /\ attempts' = [attempts EXCEPT ![p] = @ + 1]
  /\ late' = [late EXCEPT ![p] = IF exit /\ flushed THEN @ + 1 ELSE @]
  /\ Goto(p, "calling")
  /\ UNCHANGED <<envVars, connVars, countVars, err, calls, result, statVars>>

FindInactive(p) ==
  /\ loc[p] = "lock"
  /\ ~active
  /\ err' = [err EXCEPT ![p] = "stale"]
  /\ Goto(p, "conn")
  /\ UNCHANGED <<envVars, connVars, readers, countVars, histVars, statVars>>

\* The call ends with error e.  The lock is released; what follows up to the next look at
\* the connection concerns nobody else.
EndCall(p, e) ==
  /\ loc[p] = "calling"
  /\ readers' = readers \ {p}
  /\ err' = [err EXCEPT ![p] = e]
  /\ UNCHANGED <<envVars, address, connection, client, usable, open, method, retriesNum,
                 calls, attempts, late>>

\* An RPC is issued only for a method that is small enough and has a service key.
Issued(p) == method[p] \notin {"big", "nokey"}

\* On a closed connection object every call ends at once as cancelled.
Answerable(p) == Issued(p) /\ usable

\* The collector answers OK.  The untouched response of a method that was skipped for want
\* of a service key says OK, too.
AnswerOK(p) ==
  /\ EndCall(p, "nil")
  /\ Answerable(p) \/ method[p] = "nokey"
  /\ numSent' = numSent + 1
  /\ Return(p, "nil")
  /\ UNCHANGED <<active, redirects, numFailed>>

\* TRY_LATER or LIMIT_EXCEEDED.
AnswerLater(p) ==
  /\ EndCall(p, "nil")
  /\ Answerable(p)
  /\ numFailed' = numFailed + 1
  /\ Goto(p, "conn")
  /\ UNCHANGED <<active, redirects, numSent, result>>

AnswerInvalidKey(p) ==
  /\ EndCall(p, "nil")
  /\ Answerable(p)
  /\ Return(p, "invalidkey")
  /\ UNCHANGED <<active, redirects, statVars>>

\* Mutation: redirections are not counted.
RedirectUncounted(p) ==
  /\ EndCall(p, "nil")
  /\ Answerable(p)
  /\ \E l \in {"address", "conn"} : Goto(p, l)
  /\ UNCHANGED <<active, redirects, result, statVars>>

\* A redirection, possibly without a target.
AnswerRedirect(p) ==
  /\ EndCall(p, "nil")
  /\ Answerable(p)
  /\ redirects' = [redirects EXCEPT ![p] = @ + 1]
  /\ \/ /\ redirects[p] + 1 > RedirectMax
        /\ Return(p, "redirections")
     \/ /\ redirects[p] + 1 <= RedirectMax
        /\ \E l \in {"address", "conn"} : Goto(p, l)
        /\ UNCHANGED result
  /\ UNCHANGED <<active, statVars>>

\* Another result code, or an error that does not concern the connection: RetryOnErr does
\* not tell them apart.
AnswerOther(p) ==
  /\ EndCall(p, "nil")
  /\ Answerable(p)
  /\ Goto(p, "conn")
  /\ UNCHANGED <<active, redirects, result, statVars>>

\* The call timed out, or was cancelled because the connection object is closed.
Stale(p) ==
  /\ EndCall(p, "stale")
  /\ Issued(p)
  /\ active' = FALSE
  /\ Goto(p, "conn")
  /\ UNCHANGED <<redirects, result, statVars>>

TooBig(p) ==
  /\ EndCall(p, "toobig")
  /\ method[p] = "big"
  /\ Goto(p, "conn")
  /\ UNCHANGED <<active, redirects, result, statVars>>

\* Mutation: an empty target is taken for an address.
SetAddressEmpty(p, a) ==
  /\ loc[p] = "address"
  /\ readers = {}
  /\ address' = Nil
  /\ active' = FALSE
  /\ retriesNum' = [retriesNum EXCEPT ![p] = 0]
  /\ Goto(p, "conn")
  /\ UNCHANGED <<envVars, connection, client, usable, open, readers, method, redirects, err,
                 histVars, statVars>>

\* The address given with the redirection is set under the lock; then retries start anew.
SetAddress(p, a) ==
  /\ loc[p] = "address"
  /\ readers = {}
  /\ address' = a
  /\ active' = FALSE
  /\ retriesNum' = [retriesNum EXCEPT ![p] = 0]
  /\ Goto(p, "conn")
  /\ UNCHANGED <<envVars, connection, client, usable, open, readers, method, redirects, err,
                 histVars, statVars>>

CheckActive(p) ==
  /\ loc[p] = "conn"
  /\ Goto(p, IF active THEN "retry" ELSE "dial")
  /\ UNCHANGED <<envVars, connVars, readers, countVars, err, histVars, statVars>>

connectRest == <<envVars, address, readers, countVars, err, histVars, statVars>>

\* connect: nothing to do if somebody else has connected meanwhile.
ConnectSkip(p) ==
  /\ loc[p] = "dial"
  /\ readers = {}
  /\ active
  /\ Goto(p, "retry")
  /\ UNCHANGED <<active, connection, client, usable, open, connectRest>>

\* Mutation: dial until it succeeds.
ConnectAgain(p) ==
  /\ loc[p] = "dial"
  /\ readers = {}
  /\ ~active
  /\ Goto(p, "conn")
  /\ UNCHANGED <<active, connection, client, usable, open, connectRest>>

ConnectFails(p) ==
  /\ loc[p] = "dial"
  /\ readers = {}
  /\ ~active
  /\ Goto(p, "retry")
  /\ UNCHANGED <<active, connection, client, usable, open, connectRest>>

\* Mutation: the old connection object is not closed.
ConnectLeaks(p) ==
  /\ loc[p] = "dial"
  /\ readers = {}
  /\ ~active
  /\ open' = open + 1
  /\ connection' = address
  /\ client' = address
  /\ usable' = TRUE
  /\ active' = TRUE
  /\ Goto(p, "retry")
  /\ UNCHANGED connectRest

\* Mutation: the lock is not taken.
ConnectUnlocked(p) ==
  /\ loc[p] = "dial"
  /\ ~active
  /\ open' = IF connection # Nil THEN open ELSE open + 1
  /\ connection' = address
  /\ client' = address
  /\ usable' = TRUE
  /\ active' = TRUE
  /\ Goto(p, "retry")
  /\ UNCHANGED connectRest

Connect(p) ==
  /\ loc[p] = "dial"
  /\ readers = {}
  /\ ~active
  /\ open' = IF connection # Nil THEN open ELSE open + 1
  /\ connection' = address
  /\ client' = address
  /\ usable' = TRUE
  /\ active' = TRUE
  /\ Goto(p, "retry")
  /\ UNCHANGED connectRest

\* m.RetryOnErr
RetryOnErr(p) == method[p] # "ping" /\ err[p] # "toobig"

Retry(p) ==
  /\ loc[p] = "retry"
  /\ \/ /\ ~RetryOnErr(p)
        /\ Return(p, "noretry")
        /\ UNCHANGED retriesNum
     \/ /\ RetryOnErr(p)
        /\ retriesNum' = [retriesNum EXCEPT ![p] = @ + 1]
        /\ \/ retriesNum[p] + 1 > RetryMax /\ Return(p, "giveup")
           \/ retriesNum[p] + 1 <= RetryMax /\ Goto(p, "check") /\ UNCHANGED result
  /\ UNCHANGED <<envVars, connVars, readers, method, redirects, err, calls, attempts, late,
                 statVars>>

Step(p) ==
  \/ Check(p) \/ BeginCall(p) \/ FindInactive(p)
  \/ AnswerOK(p) \/ AnswerLater(p) \/ AnswerInvalidKey(p) \/ AnswerRedirect(p)
  \/ AnswerOther(p) \/ Stale(p) \/ TooBig(p)
  \/ \E a \in Addresses : SetAddress(p, a)
  \/ CheckActive(p) \/ ConnectSkip(p) \/ ConnectFails(p) \/ Connect(p)
  \/ Retry(p)

Next ==
  \/ CloseExit \/ SetFlushed \/ Close
  \/ \E p \in Invokers, m \in Methods : Invoke(p, m)
  \/ \E p \in Invokers : Step(p)

Spec == Init /\ [][Next]_vars

\* Every goroutine inside InvokeRPC is scheduled, its call times out after grpcCtxTimeout
\* at the latest, its sleep in backoff ends, and a writer waiting for c.lock gets it: Go's
\* RWMutex lets no new reader pass a waiting writer.
FairSpec ==
  /\ Spec
  /\ \A p \in Invokers : SF_vars(Step(p))

-----------------------------------------------------------------------------
(* Correctness. *)

TypeOK ==
  /\ exit \in BOOLEAN /\ flushed \in BOOLEAN /\ closing \in BOOLEAN
  /\ address \in Addresses
  /\ active \in BOOLEAN
  /\ connection \in Addresses \cup {Nil}
  /\ client \in Addresses
  /\ usable \in BOOLEAN
  /\ open \in Nat
  /\ readers \subseteq Invokers
  /\ loc \in [Invokers -> {"idle", "check", "lock", "calling", "address", "conn", "dial", "retry"}]
  /\ method \in [Invokers -> AllMethods]
  /\ redirects \in [Invokers -> Nat]
  /\ retriesNum \in [Invokers -> Nat]
  /\ err \in [Invokers -> {"nil", "stale", "toobig"}]
  /\ calls \in [Invokers -> Nat]
  /\ attempts \in [Invokers -> Nat]
  /\ late \in [Invokers -> Nat]
  /\ result \in [Invokers -> {"nil", "exiting", "invalidkey", "redirections", "noretry", "giveup"}]
  /\ numSent \in Nat /\ numFailed \in Nat

\* One InvokeRPC issues a limited number of calls, whatever the collector answers, although
\* every redirection resets the count of retries (reporter_grpc.go:1162-1169, :1190-1196).
AttemptsBounded ==
  \A p \in Invokers : attempts[p] <= (RedirectMax + 1) * (RetryMax + 1)

\* No connection object is leaked while goroutines reconnect at the same time: the only
\* open one is the current one (reporter_grpc.go:486-510).
OneConnection == open = IF connection = Nil THEN 0 ELSE 1

\* A redirection takes effect for all goroutines: whenever the connection is marked active
\* the client leads to the address set last (reporter_grpc.go:472-477, :482-514).
ActiveAtAddress == active => client = address

\* A goroutine in a call keeps the connection it began with: the address of the client does
\* not change under it (the lock comment, reporter_grpc.go:1098-1101).
ClientStable ==
  [][\A p \in Invokers : loc[p] = "calling" /\ loc'[p] = "calling" =>
       client' = client /\ usable' = usable]_vars

\* After the reporter is closed and flushed, each goroutine issues at most one more call:
\* the check at the top of the loop stops its retries (reporter_grpc.go:1088-1096).
FailFast == \A p \in Invokers : late[p] <= 1

Contract == INSTANCE RPC
              WITH Caller <- Invokers,
                   rpc <- [p \in Invokers |->
                            IF loc[p] = "idle" THEN "none"
                            ELSE IF loc[p] = "check" THEN "check" ELSE "call"]

\* InvokeRPC keeps the contract that the model of the reporter builds on.
ImplementsContract == Contract!Spec

\* InvokeRPC returns, whatever the collector answers and whatever the other goroutines do.
InvokeReturns == \A p \in Invokers : []<>(loc[p] = "idle")

-----------------------------------------------------------------------------
(* What the comments promise. *)

\* reporter_grpc.go:414: closeConns closes all the gRPC connections of a reporter.
ClosedForGood == closing => open = 0
=============================================================================
