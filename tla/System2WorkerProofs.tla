------------------------- MODULE System2WorkerProofs -------------------------
(***************************************************************************)
(* What System2Worker promises for any number of replicas and any bounds.  *)
(*                                                                         *)
(* The inductive invariant adds to the properties what makes them last: a  *)
(* replica inside a cycle is the holder of the lock until a session is     *)
(* lost, and a replica at the lock has begun no cycle since its channel    *)
(* was closed.                                                             *)
(***************************************************************************)
EXTENDS System2Worker, TLAPS

\* With a lock that lasts as long as its holder, who is in a cycle holds it.
CycleHolds == lost = 0 => \A r \in Replicas : InCycle(r) => lock = r

StopIsNear ==
  \A r \in Replicas :
    /\ begun[r] <= 1
    /\ ~stop[r] \/ pc[r] = "lock" => begun[r] = 0

IInv == TypeOK /\ LockIsUsed /\ CycleHolds /\ StopIsNear /\ ErrorsAreConsecutive

-----------------------------------------------------------------------------

(* Every program starts with the lock free and all replicas off.           *)
LEMMA InitIInv == Init => IInv
<1> SUFFICES ASSUME Init PROVE IInv
  OBVIOUS
<1>1. TypeOK
  BY DEF Init, TypeOK, Points
<1>2. LockIsUsed
  BY DEF Init, LockIsUsed
<1>3. CycleHolds
  BY DEF Init, CycleHolds, InCycle, Steps
<1>4. StopIsNear /\ ErrorsAreConsecutive
  BY DEF Init, StopIsNear, ErrorsAreConsecutive, Replicas
<1> QED
  BY <1>1, <1>2, <1>3, <1>4 DEF IInv

(* Types: one step for each action of a replica.                           *)
LEMMA TypeStep == TypeOK /\ [Next]_vars => TypeOK'
<1> SUFFICES ASSUME TypeOK, [Next]_vars PROVE TypeOK'
  OBVIOUS
<1> USE WorkerAssumption DEF TypeOK, Goto, AfterSkip, AfterFailure, Released
<1>1. CASE Arrive
  BY <1>1 DEF Arrive
<1>2. ASSUME NEW r \in Replicas, Start(r) PROVE TypeOK'
  BY <1>2 DEF Start, Points
<1>3. ASSUME NEW r \in Replicas, Close(r) PROVE TypeOK'
  BY <1>3 DEF Close
<1>4. ASSUME NEW r \in Replicas, Step(r) PROVE TypeOK'
  <2>1. CASE Check(r)
    BY <2>1 DEF Check, Points
  <2>2. CASE Acquire(r)
    BY <2>2 DEF Acquire, Points, Steps
  <2>3. CASE Held(r)
    BY <2>3 DEF Held, Points
  <2>4. CASE LockFails(r)
    BY <2>4 DEF LockFails, Points
  <2>5. CASE FlockFails(r)
    BY <2>5 DEF FlockFails, Points
  <2>6. CASE CycleStep(r)
    <3>1. PICK step \in Steps : \E point \in After(step) : Goto(r, point)
      BY <2>6 DEF CycleStep
    <3>2. After(step) \subseteq Points
      BY <3>1 DEF After, Steps, Points
    <3>3. pc' \in [Replicas -> Points]
      BY <3>1, <3>2
    <3> QED
      BY <2>6, <3>3 DEF CycleStep
  <2>7. CASE StepFails(r)
    BY <2>7 DEF StepFails, Points
  <2>8. CASE Ran(r)
    BY <2>8 DEF Ran, Points
  <2>9. CASE Failed(r)
    BY <2>9 DEF Failed, Points
  <2>10. CASE Wake(r)
    BY <2>10 DEF Wake, Points
  <2> QED
    BY <1>4, <2>1, <2>2, <2>3, <2>4, <2>5, <2>6, <2>7, <2>8, <2>9, <2>10 DEF Step
<1>5. ASSUME NEW r \in Replicas, Crash(r) PROVE TypeOK'
  BY <1>5 DEF Crash, Points
<1>6. ASSUME NEW r \in Replicas, SessionLost(r) PROVE TypeOK'
  BY <1>6 DEF SessionLost
<1>7. CASE UNCHANGED vars
  BY <1>7 DEF vars
<1> QED
  BY <1>1, <1>2, <1>3, <1>4, <1>5, <1>6, <1>7 DEF Next

-----------------------------------------------------------------------------
(* A step of a replica, seen by the lock: it takes a free lock and enters a *)
(* cycle, leaves the lock with the cycle, moves inside or outside a cycle,  *)
(* or loses its session.                                                    *)

LockStep(r) ==
  \/ /\ lock = Nobody /\ lock' = r /\ lost' = lost
     /\ pc[r] = "lock" /\ \E p \in Steps : Goto(r, p)
  \/ /\ Released(r) /\ lost' = lost
     /\ \E p \in Points \ (Steps \cup {"ran", "failed"}) : Goto(r, p)
  \/ /\ lock' = lock /\ lost' = lost
     /\ \E p \in Points : Goto(r, p) /\ (pc[r] \in Steps <=> p \in Steps \cup {"ran", "failed"})
     /\ pc[r] \notin {"ran", "failed"}
  \/ lock = r /\ lock' = Nobody /\ lost' # 0 /\ pc' = pc
  \/ UNCHANGED <<lock, lost, pc>>

(* Every action of a replica is such a step.                                *)
LEMMA EveryStepIsALockStep ==
  ASSUME TypeOK, Next
  PROVE  UNCHANGED <<lock, lost, pc>> \/ \E r \in Replicas : LockStep(r)
<1> USE DEF TypeOK, LockStep
<1>1. CASE Arrive
  BY <1>1 DEF Arrive
<1>2. ASSUME NEW r \in Replicas, Start(r) PROVE LockStep(r)
  BY <1>2 DEF Start, Goto, Points, Steps
<1>3. ASSUME NEW r \in Replicas, Close(r) PROVE LockStep(r)
  BY <1>3 DEF Close
<1>4. ASSUME NEW r \in Replicas, Step(r) PROVE LockStep(r)
  <2>1. CASE Check(r)
    BY <2>1 DEF Check, Goto, Points, Steps
  <2>2. CASE Acquire(r)
    BY <2>2 DEF Acquire, Goto, Points, Steps
  <2>3. CASE Held(r)
    BY <2>3 DEF Held, AfterSkip, Goto, Points, Steps
  <2>4. CASE LockFails(r)
    BY <2>4 DEF LockFails, AfterFailure, AfterSkip, Goto, Points, Steps
  <2>5. CASE FlockFails(r)
    BY <2>5 DEF FlockFails, AfterSkip, Goto, Points, Steps
  <2>6. CASE CycleStep(r)
    <3>0. PICK step \in Steps : pc[r] = step /\ \E point \in After(step) : Goto(r, point)
      BY <2>6 DEF CycleStep
    <3>1. PICK point \in After(step) : Goto(r, point)
      BY <3>0
    <3>2. point \in Steps \cup {"ran"}
      BY <3>0, <3>1 DEF After, Steps
    <3>3. lock' = lock /\ lost' = lost
      BY <2>6 DEF CycleStep
    <3> QED
      BY <3>0, <3>1, <3>2, <3>3 DEF Points, Steps
  <2>7. CASE StepFails(r)
    BY <2>7 DEF StepFails, Points, Steps, Goto
  <2>8. CASE Ran(r)
    <3>1. Goto(r, "off") \/ Goto(r, "wait")
      BY <2>8 DEF Ran, AfterSkip
    <3> QED
      BY <2>8, <3>1 DEF Ran, Points, Steps
  <2>9. CASE Failed(r)
    <3>1. Goto(r, "off") \/ Goto(r, "wait")
      BY <2>9 DEF Failed, AfterFailure, AfterSkip
    <3> QED
      BY <2>9, <3>1 DEF Failed, Points, Steps
  <2>10. CASE Wake(r)
    BY <2>10 DEF Wake, Goto, Points, Steps
  <2> QED
    BY <1>4, <2>1, <2>2, <2>3, <2>4, <2>5, <2>6, <2>7, <2>8, <2>9, <2>10 DEF Step
<1>5. ASSUME NEW r \in Replicas, Crash(r) PROVE LockStep(r)
  BY <1>5 DEF Crash, Points, Steps
<1>6. ASSUME NEW r \in Replicas, SessionLost(r) PROVE LockStep(r)
  BY <1>6 DEF SessionLost
<1> QED
  BY <1>1, <1>2, <1>3, <1>4, <1>5, <1>6 DEF Next

(* The lock is held for a cycle, and a cycle is run under it until a        *)
(* session is lost.                                                         *)
LEMMA LockPreserved ==
  ASSUME TypeOK, LockIsUsed, CycleHolds, Next
  PROVE  LockIsUsed' /\ CycleHolds'
<1>1. CASE UNCHANGED <<lock, lost, pc>>
  BY <1>1 DEF LockIsUsed, CycleHolds, InCycle
<1>2. ASSUME NEW r \in Replicas, LockStep(r) PROVE LockIsUsed' /\ CycleHolds'
  <2> USE WorkerAssumption DEF TypeOK, LockIsUsed, CycleHolds, InCycle, Goto
  <2>1. CASE /\ lock = Nobody /\ lock' = r /\ lost' = lost
             /\ pc[r] = "lock" /\ \E p \in Steps : Goto(r, p)
    BY <2>1
  <2>2. CASE Released(r) /\ lost' = lost /\ \E p \in Points \ (Steps \cup {"ran", "failed"}) : Goto(r, p)
    BY <2>2 DEF Released
  <2>3. CASE /\ lock' = lock /\ lost' = lost
             /\ \E p \in Points : Goto(r, p) /\ (pc[r] \in Steps <=> p \in Steps \cup {"ran", "failed"})
             /\ pc[r] \notin {"ran", "failed"}
    BY <2>3
  <2>4. CASE lock = r /\ lock' = Nobody /\ lost' # 0 /\ pc' = pc
    BY <2>4
  <2>5. CASE UNCHANGED <<lock, lost, pc>>
    BY <2>5
  <2> QED
    BY <1>2, <2>1, <2>2, <2>3, <2>4, <2>5 DEF LockStep
<1> QED
  BY <1>1, <1>2, EveryStepIsALockStep

-----------------------------------------------------------------------------

(* The counts of one replica, through each of its actions.                  *)
LEMMA CountsPreserved ==
  ASSUME TypeOK, StopIsNear, ErrorsAreConsecutive, Next
  PROVE  StopIsNear' /\ ErrorsAreConsecutive'
<1> USE WorkerAssumption DEF TypeOK, StopIsNear, ErrorsAreConsecutive, Goto, AfterSkip, AfterFailure
<1>1. CASE Arrive
  BY <1>1 DEF Arrive
<1>2. ASSUME NEW r \in Replicas, Start(r) PROVE StopIsNear' /\ ErrorsAreConsecutive'
  BY <1>2 DEF Start, Replicas
<1>3. ASSUME NEW r \in Replicas, Close(r) PROVE StopIsNear' /\ ErrorsAreConsecutive'
  BY <1>3 DEF Close
<1>4. ASSUME NEW r \in Replicas, Step(r) PROVE StopIsNear' /\ ErrorsAreConsecutive'
  <2>1. CASE Check(r)
    BY <2>1 DEF Check, Replicas
  <2>2. CASE Acquire(r)
    BY <2>2 DEF Acquire, Replicas
  <2>3. CASE Held(r)
    BY <2>3 DEF Held, Replicas
  <2>4. CASE LockFails(r)
    BY <2>4 DEF LockFails, Replicas
  <2>5. CASE FlockFails(r)
    BY <2>5 DEF FlockFails, Replicas
  <2>6. CASE CycleStep(r)
    <3>0. PICK step \in Steps : pc[r] = step /\ \E point \in After(step) : Goto(r, point)
      BY <2>6 DEF CycleStep
    <3>1. PICK point \in After(step) : Goto(r, point)
      BY <3>0
    <3>2. point # "lock" /\ pc[r] # "off"
      BY <3>0, <3>1 DEF After, Steps
    <3>3. UNCHANGED <<stop, errs, begun, streak>>
      BY <2>6 DEF CycleStep
    <3> QED
      BY <3>0, <3>1, <3>2, <3>3 DEF Replicas
  <2>7. CASE StepFails(r)
    BY <2>7 DEF StepFails, Replicas, Steps
  <2>8. CASE Ran(r)
    BY <2>8 DEF Ran, Replicas
  <2>9. CASE Failed(r)
    BY <2>9 DEF Failed, Replicas
  <2>10. CASE Wake(r)
    BY <2>10 DEF Wake, Replicas
  <2> QED
    BY <1>4, <2>1, <2>2, <2>3, <2>4, <2>5, <2>6, <2>7, <2>8, <2>9, <2>10 DEF Step
<1>5. ASSUME NEW r \in Replicas, Crash(r) PROVE StopIsNear' /\ ErrorsAreConsecutive'
  BY <1>5 DEF Crash, Replicas
<1>6. ASSUME NEW r \in Replicas, SessionLost(r) PROVE StopIsNear' /\ ErrorsAreConsecutive'
  BY <1>6 DEF SessionLost
<1> QED
  BY <1>1, <1>2, <1>3, <1>4, <1>5, <1>6 DEF Next

-----------------------------------------------------------------------------

(* The invariant holds in every state of every behaviour.                   *)
THEOREM Inductive == Spec => []IInv
<1>1. Init => IInv
  BY InitIInv
<1>2. IInv /\ [Next]_vars => IInv'
  <2> SUFFICES ASSUME IInv, [Next]_vars PROVE IInv'
    OBVIOUS
  <2>1. CASE Next
    BY <2>1, TypeStep, LockPreserved, CountsPreserved DEF IInv
  <2>2. CASE UNCHANGED vars
    BY <2>2 DEF IInv, TypeOK, LockIsUsed, CycleHolds, StopIsNear, ErrorsAreConsecutive,
         InCycle, vars
  <2> QED
    BY <2>1, <2>2
<1> QED
  BY <1>1, <1>2, PTL DEF Spec

(* Types, for any replicas.                                                 *)
THEOREM TypeCorrect == Spec => []TypeOK
<1>1. IInv => TypeOK
  BY DEF IInv
<1> QED
  BY <1>1, Inductive, PTL

(* Redundant replicas never run a cycle twice while no session is lost: the *)
(* lock of the cycle and its release exclude them, crashes and every error  *)
(* path included.                                                           *)
THEOREM CyclesExcludeTheorem == Spec => []CyclesExclude
<1>1. IInv => CyclesExclude
  BY DEF IInv, CycleHolds, CyclesExclude
<1> QED
  BY <1>1, Inductive, PTL

(* No path through the loop leaves the lock taken outside a cycle, over     *)
(* either backend.                                                          *)
THEOREM LockIsUsedTheorem == Spec => []LockIsUsed
<1>1. IInv => LockIsUsed
  BY DEF IInv
<1> QED
  BY <1>1, Inductive, PTL

(* At most one cycle begins after the channel is closed.                    *)
THEOREM StopsAfterCurrentCycleTheorem == Spec => []StopsAfterCurrentCycle
<1>1. IInv => StopsAfterCurrentCycle
  BY DEF IInv, StopIsNear, StopsAfterCurrentCycle, Replicas
<1> QED
  BY <1>1, Inductive, PTL

(* A running service counts the failures since its last cycle that ran, and *)
(* is below the limit.                                                      *)
THEOREM ErrorsAreConsecutiveTheorem == Spec => []ErrorsAreConsecutive
<1>1. IInv => ErrorsAreConsecutive
  BY DEF IInv
<1> QED
  BY <1>1, Inductive, PTL

-----------------------------------------------------------------------------
(* The workers implement the abstract lock.                                 *)

(* At a step that a replica makes, only its own place among those inside   *)
(* changes.                                                                 *)
LEMMA InsideAfter ==
  ASSUME TypeOK, NEW r \in Replicas, NEW p \in Points, Goto(r, p)
  PROVE  {s \in Replicas : InCycle(s)}' =
           IF p \in Steps \cup {"ran", "failed"}
             THEN {s \in Replicas : InCycle(s)} \cup {r}
             ELSE {s \in Replicas : InCycle(s)} \ {r}
<1>1. \A s \in Replicas : pc'[s] = IF s = r THEN p ELSE pc[s]
  BY DEF TypeOK, Goto
<1> QED
  BY <1>1 DEF InCycle

(* Every step takes the lock to begin a cycle, gives it back with the end of *)
(* the cycle, loses it inside the cycle, or is nothing to it.                *)
LEMMA LeaderLockStep ==
  ASSUME TypeOK, LockIsUsed, CycleHolds, [Next]_vars
  PROVE  [LL!Next]_(LL!vars)
<1> DEFINE inside == {s \in Replicas : InCycle(s)}
<1>1. ASSUME UNCHANGED <<lock, lost, pc>> PROVE UNCHANGED LL!vars
  BY <1>1 DEF LL!vars, InCycle
<1>2. ASSUME NEW r \in Replicas, LockStep(r) PROVE [LL!Next]_(LL!vars)
  <2> USE DEF LL!Next, LL!vars
  <2>1. CASE /\ lock = Nobody /\ lock' = r /\ lost' = lost
             /\ pc[r] = "lock" /\ \E p \in Steps : Goto(r, p)
    <3>1. inside' = inside \cup {r}
      BY <2>1, InsideAfter DEF Points
    <3>2. lost # 0 \/ inside = {}
      BY <2>1, WorkerAssumption DEF CycleHolds
    <3>3. r \notin inside
      BY <2>1 DEF InCycle, Steps
    <3> QED
      BY <2>1, <3>1, <3>2, <3>3 DEF LL!Enter
  <2>2. CASE Released(r) /\ lost' = lost /\ \E p \in Points \ (Steps \cup {"ran", "failed"}) : Goto(r, p)
    <3>1. inside' = inside \ {r}
      BY <2>2, InsideAfter
    <3>2. CASE r \in inside
      BY <2>2, <3>1, <3>2 DEF LL!Leave, Released
    <3>3. CASE r \notin inside
      <4>1. lock # r
        BY <3>3, WorkerAssumption DEF LockIsUsed
      <4> QED
        BY <2>2, <3>1, <3>3, <4>1 DEF Released
    <3> QED
      BY <3>2, <3>3
  <2>3. CASE /\ lock' = lock /\ lost' = lost
             /\ \E p \in Points : Goto(r, p) /\ (pc[r] \in Steps <=> p \in Steps \cup {"ran", "failed"})
             /\ pc[r] \notin {"ran", "failed"}
    <3>1. inside' = inside
      BY <2>3, InsideAfter DEF InCycle
    <3> QED
      BY <2>3, <3>1
  <2>4. CASE lock = r /\ lock' = Nobody /\ lost' # 0 /\ pc' = pc
    <3>1. inside' = inside /\ r \in inside
      BY <2>4, WorkerAssumption DEF LockIsUsed, InCycle
    <3> QED
      BY <2>4, <3>1 DEF LL!Lapse
  <2> QED
    BY <1>1, <1>2, <2>1, <2>2, <2>3, <2>4 DEF LockStep
<1>3. CASE UNCHANGED vars
  BY <1>1, <1>3 DEF vars
<1> QED
  BY <1>1, <1>2, <1>3, EveryStepIsALockStep

(* For any number of replicas and whatever fails, crashes or loses its       *)
(* session, the workers implement the lock of the Store interface.           *)
THEOREM ImplementsLeaderLockTheorem == Spec => ImplementsLeaderLock
<1>1. Init => LL!Init
  BY DEF Init, LL!Init, InCycle, Steps
<1>2. IInv /\ [Next]_vars => [LL!Next]_(LL!vars)
  BY LeaderLockStep DEF IInv
<1> QED
  BY <1>1, <1>2, Inductive, PTL DEF Spec, ImplementsLeaderLock, LL!Spec
=============================================================================
