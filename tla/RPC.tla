-------------------------------- MODULE RPC --------------------------------
(***************************************************************************)
(* What InvokeRPC promises to the goroutines that call it, and what module  *)
(* Reporter takes for granted: a call makes attempts of unknown outcome,    *)
(* checks before each of them whether the reporter is done and flushed, and *)
(* in this case ends without a further attempt.                             *)
(***************************************************************************)
CONSTANT Caller

VARIABLES
  exit, flushed,  \* the channels of these names are closed
  rpc             \* per caller: "none", "check", "call"

rpcVars == <<exit, flushed, rpc>>

Init == exit = FALSE /\ flushed = FALSE /\ rpc = [p \in Caller |-> "none"]

Invoke(p) == rpc[p] = "none" /\ rpc' = [rpc EXCEPT ![p] = "check"]

FailFast(p) == rpc[p] = "check" /\ exit /\ flushed /\ rpc' = [rpc EXCEPT ![p] = "none"]

Attempt(p) == rpc[p] = "check" /\ ~(exit /\ flushed) /\ rpc' = [rpc EXCEPT ![p] = "call"]

Retry(p) == rpc[p] = "call" /\ rpc' = [rpc EXCEPT ![p] = "check"]

Return(p) == rpc[p] = "call" /\ rpc' = [rpc EXCEPT ![p] = "none"]

CallerStep(p) == Invoke(p) \/ FailFast(p) \/ Attempt(p) \/ Retry(p) \/ Return(p)

\* The reporter is closed, and flushed afterwards.
Closing ==
  /\ \/ exit' = TRUE /\ UNCHANGED flushed
     \/ exit /\ flushed' = TRUE /\ UNCHANGED exit
  /\ UNCHANGED rpc

Next ==
  \/ \E p \in Caller : CallerStep(p) /\ UNCHANGED <<exit, flushed>>
  \/ Closing

Spec == Init /\ [][Next]_rpcVars
=============================================================================
