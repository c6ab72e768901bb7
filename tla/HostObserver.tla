---------------------------- MODULE HostObserver ----------------------------
(***************************************************************************)
(* The observer of the host's metadata (internal/host): a goroutine that    *)
(* starts an updater goroutine every minute, unless the previous one still  *)
(* holds the token.  An updater copies the identification, reads every      *)
(* field from the system, which takes long and may fail, and writes all of  *)
(* them.  getSettings takes whatever is known; other requests wait for the  *)
(* first update.                                                           *)
(***************************************************************************)
EXTENDS Naturals

CONSTANTS
  Fields,    \* the fields of an ID
  MaxUpdates \* bound: updaters started

ASSUME HostAssumption == MaxUpdates \in Nat

Unknown == 0  \* the empty string; any other value is the number of the reading it comes from
Updaters == 1..MaxUpdates

VARIABLES
  observer,    \* "none", "first", "exit?", "sleeping", "loop", "select" or "stopped"
  exitClosed,  \* the channel `exit' is closed
  token,       \* number of tokens in the channel: 1 unless an updater runs
  updates,     \* updaters started so far
  updater,     \* per updater: "none", "copy", "read", "write", "token" or "done"
  values,      \* per updater: the ID it copied, then the ID it has read
  readings,    \* number of readings of the system so far
  id,          \* the locked ID
  idReady,     \* the channel c is closed
  asker        \* CurrentID: "none", "waiting", or "got"

updateVars == <<updater, values, readings, id, idReady>>
hostVars == <<observer, exitClosed, token, updates, updateVars, asker>>

NewID == [f \in Fields |-> Unknown]

HostInit ==
  /\ observer = "none" /\ exitClosed = FALSE
  /\ token = 1 /\ updates = 0
  /\ updater = [u \in Updaters |-> "none"]
  /\ values = [u \in Updaters |-> NewID]
  /\ readings = 0
  /\ id = NewID /\ idReady = FALSE
  /\ asker = "none"

-----------------------------------------------------------------------------
(* The observer.  Start and Stop work once. *)

Start ==
  /\ observer = "none"
  /\ observer' = "first"
  /\ UNCHANGED <<exitClosed, token, updates, updateVars, asker>>

Stop ==
  /\ exitClosed = FALSE
  /\ exitClosed' = TRUE
  /\ UNCHANGED <<observer, token, updates, updateVars, asker>>

\* update: take the token and start an updater, or do nothing.
Update ==
  \/ /\ token > 0 /\ updates < MaxUpdates
     /\ token' = token - 1
     /\ updates' = updates + 1
     /\ updater' = [updater EXCEPT ![updates + 1] = "copy"]
  \/ /\ token = 0
     /\ UNCHANGED <<token, updates, updater>>

FirstUpdate ==
  /\ observer = "first"
  /\ Update
  /\ observer' = "exit?"
  /\ UNCHANGED <<exitClosed, values, readings, id, idReady, asker>>

\* Once more before the long sleep, which nothing interrupts.
CheckExit ==
  /\ observer = "exit?"
  /\ observer' = IF exitClosed THEN "stopped" ELSE "sleeping"
  /\ UNCHANGED <<exitClosed, token, updates, updateVars, asker>>

WakeUp ==
  /\ observer = "sleeping"
  /\ observer' = "loop"
  /\ UNCHANGED <<exitClosed, token, updates, updateVars, asker>>

LoopUpdate ==
  /\ observer = "loop"
  /\ Update
  /\ observer' = "select"
  /\ UNCHANGED <<exitClosed, values, readings, id, idReady, asker>>

\* The ticker or `exit', whichever; either one if both are ready.
Select ==
  /\ observer = "select"
  /\ \/ observer' = "loop"
     \/ exitClosed /\ observer' = "stopped"
  /\ UNCHANGED <<exitClosed, token, updates, updateVars, asker>>

-----------------------------------------------------------------------------
(* An updater. *)

CopyID(u) ==
  /\ updater[u] = "copy"
  /\ values' = [values EXCEPT ![u] = id]
  /\ updater' = [updater EXCEPT ![u] = "read"]
  /\ UNCHANGED <<observer, exitClosed, token, updates, readings, id, idReady, asker>>

GetOrFallback(fresh, old) == IF fresh # Unknown THEN fresh ELSE old

ReadFields(u) ==
  /\ updater[u] = "read"
  /\ \E known \in SUBSET Fields :
       values' = [values EXCEPT ![u] =
                    [f \in Fields |-> GetOrFallback(IF f \in known THEN readings + 1 ELSE Unknown,
                                                    values[u][f])]]
  /\ readings' = readings + 1
  /\ updater' = [updater EXCEPT ![u] = "write"]
  /\ UNCHANGED <<observer, exitClosed, token, updates, id, idReady, asker>>

FullUpdate(u) ==
  /\ updater[u] = "write"
  /\ id' = values[u] /\ idReady' = TRUE
  /\ updater' = [updater EXCEPT ![u] = "token"]
  /\ UNCHANGED <<observer, exitClosed, token, updates, values, readings, asker>>

\* Mutation: the observer's token comes back as soon as the updater runs.
EarlyToken(u) == updater[u] \in {"copy", "read", "write", "token"}

Finished(u) == updater[u] = "token"

ReturnToken(u) ==
  /\ Finished(u) /\ token = 0
  /\ token' = 1
  /\ updater' = [updater EXCEPT ![u] = IF @ = "token" THEN "done" ELSE @]
  /\ UNCHANGED <<observer, exitClosed, updates, values, readings, id, idReady, asker>>

-----------------------------------------------------------------------------
(* CurrentID waits for the first full update; BestEffortCurrentID copies without waiting. *)

CurrentID ==
  /\ asker = "none"
  /\ asker' = "waiting"
  /\ UNCHANGED <<observer, exitClosed, token, updates, updateVars>>

WaitForID ==
  /\ asker = "waiting" /\ idReady
  /\ asker' = "got"
  /\ UNCHANGED <<observer, exitClosed, token, updates, updateVars>>

-----------------------------------------------------------------------------
UpdaterStep == \E u \in Updaters : CopyID(u) \/ ReadFields(u) \/ FullUpdate(u) \/ ReturnToken(u)

HostNext ==
  \/ Start \/ Stop
  \/ FirstUpdate \/ CheckExit \/ WakeUp \/ LoopUpdate \/ Select
  \/ UpdaterStep
  \/ CurrentID \/ WaitForID

HostSpec == HostInit /\ [][HostNext]_hostVars

-----------------------------------------------------------------------------
(* Correctness. *)

HostTypeOK ==
  /\ observer \in {"none", "first", "exit?", "sleeping", "loop", "select", "stopped"}
  /\ exitClosed \in BOOLEAN /\ token \in {0, 1} /\ updates \in 0..MaxUpdates
  /\ updater \in [Updaters -> {"none", "copy", "read", "write", "token", "done"}]
  /\ values \in [Updaters -> [Fields -> Nat]]
  /\ readings \in Nat
  /\ id \in [Fields -> Nat] /\ idReady \in BOOLEAN
  /\ asker \in {"none", "waiting", "got"}

\* Although updaters work for a long time without a lock, what is known of the host never goes
\* back to an earlier reading, nor to nothing (observer.go:48, :93-136).
HostIdCurrent == [][\A f \in Fields : id'[f] >= id[f]]_hostVars
=============================================================================
