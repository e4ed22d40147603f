---------------------------- MODULE System2Worker ----------------------------
(***************************************************************************)
(* The System 2 workers over one database: the daemon goroutine of         *)
(* Engine.StartSystem2 and the loop of `ladym worker` (cli/worker.go), any *)
(* number of replicas of each, and the worker lock they take per cycle:    *)
(* flock(2) on <db>.worker.lock for SQLite, a session-scoped advisory lock *)
(* for Postgres.  The two differ in how they fail only, so one model has   *)
(* the failures of both.                                                   *)
(*                                                                         *)
(* What a cycle does is abstracted to its steps, each of which can fail,   *)
(* and to whether episodes wait for its first step.                        *)
(***************************************************************************)
EXTENDS Integers

CONSTANTS Services,     \* replicas started by StartSystem2
          Loops,        \* `ladym worker` processes
          Onces,        \* `ladym worker --once` processes
          Nobody,       \* no replica
          MaxErrors,    \* config system2.max_consecutive_errors
          FlockErrors,  \* can flock(2) fail for a reason other than contention?
          MaxLosses,    \* bound on lost sessions of an advisory lock; 0 over flock
          MaxFailures,  \* bound on failed calls
          MaxCrashes    \* bound on crashes

Replicas == Services \cup Loops \cup Onces

ASSUME WorkerAssumption ==
  /\ Services \cap Loops = {} /\ Services \cap Onces = {} /\ Loops \cap Onces = {}
  /\ Nobody \notin Replicas
  /\ {MaxErrors, MaxLosses, MaxFailures, MaxCrashes} \subseteq Nat
  /\ FlockErrors \in BOOLEAN

VARIABLES
  lock,     \* the replica whose descriptor or session holds the worker lock
  pc,       \* replica -> where it stands
  stop,     \* replica -> has its stop channel been closed?
  errs,     \* replica -> consecutiveErrs
  pending,  \* do episodes wait for consolidation?
  lost,     \* sessions lost while they held the lock
  failures, \* calls that have failed
  crashes,  \* crashes so far
  begun,    \* history: replica -> cycles begun since its stop was asked for
  streak    \* history: replica -> failures since its last cycle that ran

vars == <<lock, pc, stop, errs, pending, lost, failures, crashes, begun, streak>>

\* RunSystem2Cycle, in the order it calls them; l5 and l6 run only when enough
\* episodes are recent.
Steps  == {"consolidate", "proceduralize", "l5", "l6", "decay", "maintain"}
Points == Steps \cup {"off", "check", "lock", "ran", "failed", "wait"}

InCycle(r) == pc[r] \in Steps \cup {"ran", "failed"}

TypeOK ==
  /\ lock \in Replicas \cup {Nobody}
  /\ pc \in [Replicas -> Points]
  /\ stop \in [Replicas -> BOOLEAN]
  /\ errs \in [Replicas -> Nat]
  /\ pending \in BOOLEAN
  /\ lost \in Nat /\ failures \in Nat /\ crashes \in Nat
  /\ begun \in [Replicas -> Nat]
  /\ streak \in [Replicas -> Nat]

Init ==
  /\ lock = Nobody
  /\ pc = [r \in Replicas |-> "off"]
  /\ stop = [r \in Replicas |-> FALSE]
  /\ errs = [r \in Replicas |-> 0]
  /\ pending = FALSE
  /\ lost = 0 /\ failures = 0 /\ crashes = 0
  /\ begun = [r \in Replicas |-> 0]
  /\ streak = [r \in Replicas |-> 0]

-----------------------------------------------------------------------------

Goto(r, point) == pc' = [pc EXCEPT ![r] = point]

\* Another client records an episode.
Arrive ==
  /\ ~pending
  /\ pending' = TRUE
  /\ UNCHANGED <<lock, pc, stop, errs, failures, crashes, begun, streak, lost>>

\* The replica starts with a store of its own and a count of no errors.
Start(r) ==
  /\ pc[r] = "off" /\ ~stop[r]
  /\ Goto(r, "check")
  /\ errs' = [errs EXCEPT ![r] = 0]
  /\ streak' = [streak EXCEPT ![r] = 0]
  /\ UNCHANGED <<lock, stop, pending, failures, crashes, begun, lost>>

\* The stop channel StartSystem2 returned is closed.
Close(r) ==
  /\ r \in Services /\ pc[r] # "off" /\ ~stop[r]
  /\ stop' = [stop EXCEPT ![r] = TRUE]
  /\ UNCHANGED <<lock, pc, errs, pending, failures, crashes, begun, streak, lost>>

\* The non-blocking look at the stop channel on top of the loop; the loop of
\* the CLI has none to look at.
MutCheck(r) ==
  /\ pc[r] = "check"
  /\ Goto(r, "lock")
  /\ UNCHANGED <<lock, stop, errs, pending, failures, crashes, begun, streak, lost>>

Check(r) ==
  /\ pc[r] = "check"
  /\ Goto(r, IF stop[r] THEN "off" ELSE "lock")
  /\ UNCHANGED <<lock, stop, errs, pending, failures, crashes, begun, streak, lost>>

\* What follows a cycle that did not run, or ran: --once returns, the others
\* sleep; a service gives up at MaxErrors failures in a row.
AfterSkip(r)     == Goto(r, IF r \in Onces THEN "off" ELSE "wait")
AfterFailure(r)  ==
  /\ IF r \in Services
       THEN /\ errs' = [errs EXCEPT ![r] = @ + 1]
            /\ Goto(r, IF errs[r] + 1 >= MaxErrors THEN "off" ELSE "wait")
       ELSE UNCHANGED errs /\ AfterSkip(r)
  /\ streak' = [streak EXCEPT ![r] = @ + 1]

\* TryAcquireWorkerLock.
Acquire(r) ==
  /\ pc[r] = "lock" /\ lock = Nobody
  /\ lock' = r
  /\ Goto(r, "consolidate")
  /\ begun' = [begun EXCEPT ![r] = IF stop[r] THEN @ + 1 ELSE @]
  /\ UNCHANGED <<stop, errs, pending, failures, crashes, streak, lost>>

Held(r) ==
  /\ pc[r] = "lock" /\ lock # Nobody
  /\ AfterSkip(r)
  /\ UNCHANGED <<lock, stop, errs, pending, failures, crashes, begun, streak, lost>>

\* The lock file cannot be opened, or Postgres cannot be asked.
LockFails(r) ==
  /\ pc[r] = "lock" /\ failures < MaxFailures
  /\ failures' = failures + 1
  /\ AfterFailure(r)
  /\ UNCHANGED <<lock, stop, pending, crashes, begun, lost>>

\* flock(2) fails (ENOLCK, say): flockPath answers ErrWorkerLockHeld to any
\* errno, so the replica takes itself for a standby.
FlockFails(r) ==
  /\ FlockErrors
  /\ pc[r] = "lock" /\ failures < MaxFailures
  /\ failures' = failures + 1
  /\ AfterSkip(r)
  /\ UNCHANGED <<lock, stop, errs, pending, lost, crashes, begun, streak>>

-----------------------------------------------------------------------------

After(step) == CASE step = "consolidate"   -> {"proceduralize"}
                 [] step = "proceduralize" -> {"l5", "decay"}
                 [] step = "l5"            -> {"l6"}
                 [] step = "l6"            -> {"decay"}
                 [] step = "decay"         -> {"maintain"}
                 [] step = "maintain"      -> {"ran"}

CycleStep(r) ==
  \E step \in Steps :
    /\ pc[r] = step
    /\ \E point \in After(step) : Goto(r, point)
    /\ pending' = (pending /\ step # "consolidate")
    /\ UNCHANGED <<lock, stop, errs, failures, crashes, begun, streak, lost>>

\* The first error of a step ends the cycle; what it wrote stays written.
StepFails(r) ==
  /\ pc[r] \in Steps /\ failures < MaxFailures
  /\ failures' = failures + 1
  /\ Goto(r, "failed")
  /\ UNCHANGED <<lock, stop, errs, pending, crashes, begun, streak, lost>>

\* The lock is released before the outcome is looked at.  A lost session has
\* released it already.
MutReleased(r) == lock' = Nobody

Released(r) == lock' = IF lock = r THEN Nobody ELSE lock

Ran(r) ==
  /\ pc[r] = "ran"
  /\ Released(r)
  /\ errs' = [errs EXCEPT ![r] = 0]
  /\ streak' = [streak EXCEPT ![r] = 0]
  /\ AfterSkip(r)
  /\ UNCHANGED <<stop, pending, failures, crashes, begun, lost>>

Failed(r) ==
  /\ pc[r] = "failed"
  /\ Released(r)
  /\ AfterFailure(r)
  /\ UNCHANGED <<stop, pending, failures, crashes, begun, lost>>

\* The interval elapses, or the stop channel is closed meanwhile; with both
\* ready the select takes either.
Wake(r) ==
  /\ pc[r] = "wait"
  /\ \/ Goto(r, "check")
     \/ stop[r] /\ Goto(r, "off")
  /\ UNCHANGED <<lock, stop, errs, pending, failures, crashes, begun, streak, lost>>

-----------------------------------------------------------------------------

\* The process dies: the descriptor, or the session, and the lock with it.
MutCrash(r) ==
  /\ pc[r] # "off" /\ crashes < MaxCrashes
  /\ crashes' = crashes + 1
  /\ Goto(r, "off")
  /\ stop' = [stop EXCEPT ![r] = FALSE]
  /\ begun' = [begun EXCEPT ![r] = 0]
  /\ UNCHANGED <<lock, errs, pending, failures, streak, lost>>

Crash(r) ==
  /\ pc[r] # "off" /\ crashes < MaxCrashes
  /\ crashes' = crashes + 1
  /\ Goto(r, "off")
  /\ Released(r)
  /\ stop' = [stop EXCEPT ![r] = FALSE]
  /\ begun' = [begun EXCEPT ![r] = 0]
  /\ UNCHANGED <<errs, pending, failures, streak, lost>>

\* The dedicated connection of an advisory lock breaks; the cycle runs on over
\* the other connections of the pool.
SessionLost(r) ==
  /\ lock = r /\ lost < MaxLosses
  /\ lost' = lost + 1
  /\ lock' = Nobody
  /\ UNCHANGED <<pc, stop, errs, pending, failures, crashes, begun, streak>>

Step(r) ==
  \/ Check(r) \/ Acquire(r) \/ Held(r) \/ LockFails(r) \/ FlockFails(r)
  \/ CycleStep(r) \/ StepFails(r) \/ Ran(r) \/ Failed(r) \/ Wake(r)

Next ==
  \/ Arrive
  \/ \E r \in Replicas : Start(r) \/ Close(r) \/ Step(r) \/ Crash(r) \/ SessionLost(r)

Spec == Init /\ [][Next]_vars

\* A replica that is on keeps running.  Nothing is assumed of what starts it.
FairSpec == Spec /\ \A r \in Replicas : WF_vars(Step(r))

-----------------------------------------------------------------------------

(* While no session that held the lock is lost (over flock, always), at     *)
(* most one replica is between its lock and its release, whatever fails or  *)
(* crashes.                                                                 *)
CyclesExclude == lost = 0 => \A r, s \in Replicas : InCycle(r) /\ InCycle(s) => r = s

(* The lock is held only on behalf of a cycle: no early return and no error *)
(* path leaves it taken for ever.                                           *)
LockIsUsed == lock # Nobody => InCycle(lock)

(* Closing the channel "asks the worker to stop after its current cycle":   *)
(* at most one cycle begins once it is closed, the one whose look at the    *)
(* channel came first.                                                      *)
StopsAfterCurrentCycle == \A r \in Services : begun[r] <= 1

(* consecutiveErrs counts the failures since the last cycle that ran: held  *)
(* locks neither count nor excuse, and a running service is below the limit.*)
ErrorsAreConsecutive ==
  \A r \in Services : pc[r] # "off" =>
    errs[r] = streak[r] /\ (errs[r] = 0 \/ errs[r] < MaxErrors)

(* A stop asked for takes effect.                                           *)
StopTakesEffect == \A r \in Services : stop[r] ~> (pc[r] = "off")

(* "A crashed replica's cycles are picked up by any survivor": episodes    *)
(* that wait are consolidated by someone as long as a loop worker is on,    *)
(* wherever others crash, stop, give up or are in its way.                  *)
SurvivorsConsolidate == pending ~> (~pending \/ \A r \in Loops : pc[r] = "off")

LL == INSTANCE LeaderLock
        WITH Actors <- Replicas, holder <- lock,
             inside <- {r \in Replicas : InCycle(r)}, lapsed <- lost # 0

(* The workers use the lock as the Store interface means it: a cycle begins *)
(* by taking a free lock, every way out of it (success, a failed step, a    *)
(* crash) gives the replica's own lock back in that very step, no path      *)
(* releases what another has taken after a lost session, and until one is   *)
(* lost nobody is inside when a replica enters.                             *)
ImplementsLeaderLock == LL!Spec
=============================================================================
