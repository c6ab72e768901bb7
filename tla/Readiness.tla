----------------------------- MODULE Readiness -----------------------------
(***************************************************************************)
(* When the agent is ready (internal/reporter/reporter_grpc.go): getSettings *)
(* stores what the collector sends and announces that the reporter is ready, *)
(* checkSettingsTimeout withdraws this when the setting has expired,         *)
(* Shutdown withdraws it for good, and the application waits for it.         *)
(* periodicTasks starts at most one getSettings and one checkSettingsTimeout *)
(* at a time; all of them run concurrently.  The flag `ready' is atomic and  *)
(* read without the lock; the lock of the condition variable is held only    *)
(* within single steps.                                                      *)
(***************************************************************************)
CONSTANT Waiters  \* goroutines of the application that call WaitForReady

VARIABLES
  ready,
  default,   \* the default setting: "none", "fresh", or "old" (its time to live has passed)
  closed,    \* the channel `done' is closed
  getter,    \* getSettings: "idle", "rpc", "ready?", "default?", "set"
  checker,   \* checkSettingsTimeout: "idle", "ready?", "default?", "withdraw"
  stopper,   \* Shutdown: "running", "closing", "stopped"
  waiter,    \* per waiter: "idle", "ready?", "waiting", "true" or "false" (the result)
  helper,    \* the goroutine of its WaitForReady: "none", "awake", "asleep", "gone"
  giveUp     \* per waiter: the flag `exit' that tells the helper that the context is done

waitVars == <<waiter, helper, giveUp>>
readyVars == <<ready, default, closed, getter, checker, stopper, waitVars>>

ReadyInit ==
  /\ ready = FALSE /\ default = "none" /\ closed = FALSE
  /\ getter = "idle" /\ checker = "idle" /\ stopper = "running"
  /\ waiter = [w \in Waiters |-> "idle"]
  /\ helper = [w \in Waiters |-> "none"]
  /\ giveUp = [w \in Waiters |-> FALSE]

HasDefault == default # "none"

-----------------------------------------------------------------------------
(* getSettings and updateSettings. *)

StartGetSettings ==
  /\ getter = "idle" /\ ~closed
  /\ getter' = "rpc"
  /\ UNCHANGED <<ready, default, closed, checker, stopper, waitVars>>

RpcFails ==
  /\ getter = "rpc"
  /\ getter' = "idle"
  /\ UNCHANGED <<ready, default, closed, checker, stopper, waitVars>>

\* The collector answers, perhaps after the reporter was closed, and the default setting is
\* stored.
StoreSettings ==
  /\ getter = "rpc"
  /\ default' = "fresh"
  /\ getter' = "ready?"
  /\ UNCHANGED <<ready, closed, checker, stopper, waitVars>>

\* The answer has no default setting, or no settings at all.
StoreOthers ==
  /\ getter = "rpc"
  /\ getter' = "ready?"
  /\ UNCHANGED <<ready, default, closed, checker, stopper, waitVars>>

GetterReady ==
  /\ getter = "ready?"
  /\ getter' = IF ready THEN "idle" ELSE "default?"
  /\ UNCHANGED <<ready, default, closed, checker, stopper, waitVars>>

GetterDefault ==
  /\ getter = "default?"
  /\ getter' = IF HasDefault THEN "set" ELSE "idle"
  /\ UNCHANGED <<ready, default, closed, checker, stopper, waitVars>>

\* Mutation: Signal, which wakes one goroutine only.
Signal == LET asleep == {w \in Waiters : helper[w] = "asleep"}
          IN IF asleep = {} THEN {} ELSE {CHOOSE w \in asleep : TRUE}

\* The helpers that cond.Broadcast wakes.
Broadcast == {w \in Waiters : helper[w] = "asleep"}

SetReady ==
  /\ getter = "set"
  /\ ready' = TRUE
  /\ helper' = [w \in Waiters |-> IF w \in Broadcast THEN "awake" ELSE helper[w]]
  /\ getter' = "idle"
  /\ UNCHANGED <<default, closed, checker, stopper, waiter, giveUp>>

-----------------------------------------------------------------------------
(* checkSettingsTimeout. *)

TimePasses ==
  /\ default = "fresh"
  /\ default' = "old"
  /\ UNCHANGED <<ready, closed, getter, checker, stopper, waitVars>>

CheckTimeout ==
  /\ checker = "idle" /\ ~closed
  /\ default' = IF default = "old" THEN "none" ELSE default
  /\ checker' = "ready?"
  /\ UNCHANGED <<ready, closed, getter, stopper, waitVars>>

CheckerReady ==
  /\ checker = "ready?"
  /\ checker' = IF ready THEN "default?" ELSE "idle"
  /\ UNCHANGED <<ready, default, closed, getter, stopper, waitVars>>

CheckerDefault ==
  /\ checker = "default?"
  /\ checker' = IF HasDefault THEN "idle" ELSE "withdraw"
  /\ UNCHANGED <<ready, default, closed, getter, stopper, waitVars>>

Withdraw ==
  /\ checker = "withdraw"
  /\ ready' = FALSE
  /\ checker' = "idle"
  /\ UNCHANGED <<default, closed, getter, stopper, waitVars>>

-----------------------------------------------------------------------------
(* Shutdown closes `done' and withdraws readiness when it has flushed, or given up. *)

CloseDone ==
  /\ stopper = "running"
  /\ stopper' = "closing" /\ closed' = TRUE
  /\ UNCHANGED <<ready, default, getter, checker, waitVars>>

StopReady ==
  /\ stopper = "closing"
  /\ stopper' = "stopped" /\ ready' = FALSE
  /\ UNCHANGED <<default, closed, getter, checker, waitVars>>

-----------------------------------------------------------------------------
(* WaitForReady, of the agent and of the reporter. *)

WaitForReady(w) ==
  /\ waiter[w] = "idle"
  /\ waiter' = [waiter EXCEPT ![w] = IF closed THEN "false" ELSE "ready?"]
  /\ UNCHANGED <<ready, default, closed, getter, checker, stopper, helper, giveUp>>

StartHelper(w) ==
  /\ waiter[w] = "ready?"
  /\ waiter' = [waiter EXCEPT ![w] = IF ready THEN "true" ELSE "waiting"]
  /\ helper' = [helper EXCEPT ![w] = IF ready THEN "none" ELSE "awake"]
  /\ UNCHANGED <<ready, default, closed, getter, checker, stopper, giveUp>>

\* The helper looks, and falls asleep under the lock, so that no broadcast passes in between.
HelperLooks(w) ==
  /\ helper[w] = "awake"
  /\ helper' = [helper EXCEPT ![w] = IF ready \/ giveUp[w] THEN "gone" ELSE "asleep"]
  /\ UNCHANGED <<ready, default, closed, getter, checker, stopper, waiter, giveUp>>

WaiterWakes(w) ==
  /\ waiter[w] = "waiting" /\ helper[w] = "gone"
  /\ waiter' = [waiter EXCEPT ![w] = "true"]
  /\ UNCHANGED <<ready, default, closed, getter, checker, stopper, helper, giveUp>>

\* The context is done.  A helper that is asleep is not woken.
WaiterGivesUp(w) ==
  /\ waiter[w] = "waiting"
  /\ waiter' = [waiter EXCEPT ![w] = "false"]
  /\ giveUp' = [giveUp EXCEPT ![w] = TRUE]
  /\ UNCHANGED <<ready, default, closed, getter, checker, stopper, helper>>

-----------------------------------------------------------------------------
GetterStep == RpcFails \/ StoreSettings \/ StoreOthers \/ GetterReady \/ GetterDefault \/ SetReady
CheckerStep == CheckerReady \/ CheckerDefault \/ Withdraw
WaiterStep(w) == StartHelper(w) \/ HelperLooks(w) \/ WaiterWakes(w)

ReadyNext ==
  \/ StartGetSettings \/ GetterStep
  \/ TimePasses \/ CheckTimeout \/ CheckerStep
  \/ CloseDone \/ StopReady
  \/ \E w \in Waiters : WaitForReady(w) \/ WaiterStep(w) \/ WaiterGivesUp(w)

ReadySpec == ReadyInit /\ [][ReadyNext]_readyVars

-----------------------------------------------------------------------------
(* Correctness. *)

\* The types; and a waiter that waits has a helper.
ReadyTypeOK ==
  /\ ready \in BOOLEAN /\ default \in {"none", "fresh", "old"} /\ closed \in BOOLEAN
  /\ getter \in {"idle", "rpc", "ready?", "default?", "set"}
  /\ checker \in {"idle", "ready?", "default?", "withdraw"}
  /\ stopper \in {"running", "closing", "stopped"}
  /\ waiter \in [Waiters -> {"idle", "ready?", "waiting", "true", "false"}]
  /\ helper \in [Waiters -> {"none", "awake", "asleep", "gone"}]
  /\ giveUp \in [Waiters -> BOOLEAN]
  /\ \A w \in Waiters : waiter[w] = "waiting" => helper[w] # "none" /\ ~giveUp[w]

\* No wake-up is lost: who waits while the reporter is ready returns, or the reporter is ready
\* no longer (reporter_grpc.go:455-459, :892-898).
WaitersWake ==
  \A w \in Waiters : waiter[w] = "waiting" /\ ready ~> waiter[w] # "waiting" \/ ~ready

\* checkSettingsTimeout may withdraw readiness because of a setting that has just been
\* replaced; as long as the collector keeps sending default settings, this does not last: a
\* reporter with a valid one becomes ready (reporter_grpc.go:892, :908).
ReadinessHeals ==
  []<><<StoreSettings>>_readyVars =>
    (default = "fresh" /\ ~ready /\ ~closed ~> ready \/ default # "fresh" \/ closed)

\* A goroutine asleep is not forgotten while there is someone to be told: a helper that sleeps
\* through a state of readiness has been, or will be, woken by whoever made it ready.
NobodySleepsReady ==
  \A w \in Waiters : helper[w] = "asleep" => ~ready
=============================================================================
