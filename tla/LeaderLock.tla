----------------------------- MODULE LeaderLock -----------------------------
(***************************************************************************)
(* What the two process locks of storage/store.go's Store interface        *)
(* promise: TryAcquireWorkerLock to the workers and TryAcquireIndexLock to *)
(* the indexers of one database.  Work is done inside the lock; who cannot *)
(* have it does not wait.  The lock of Postgres belongs to a session, which*)
(* may end before its work does.  From then on the lock has lapsed: it is  *)
(* still handed to one at a time, but says nothing of work begun under it. *)
(*                                                                         *)
(* System2Worker and CodeIndex implement it.                               *)
(***************************************************************************)
CONSTANTS Actors, Nobody

VARIABLES
  holder,  \* who was told that the lock is his, or Nobody
  inside,  \* who does the work the lock is for
  lapsed   \* has a holder lost the lock at work?

vars == <<holder, inside, lapsed>>

Init == holder = Nobody /\ inside = {} /\ lapsed = FALSE

\* A free lock is taken, and the work begins.  As long as every holder kept the
\* lock to its end, no other is at it.
Enter(a) ==
  /\ holder = Nobody /\ a \notin inside
  /\ lapsed \/ inside = {}
  /\ holder' = a
  /\ inside' = inside \cup {a}
  /\ UNCHANGED lapsed

\* The work ends, well or not, or its process dies: his own lock goes with it,
\* at the same moment, and never the lock of another.
Leave(a) ==
  /\ a \in inside
  /\ inside' = inside \ {a}
  /\ holder' = IF holder = a THEN Nobody ELSE holder
  /\ UNCHANGED lapsed

\* The holder's session ends while he works on.
Lapse(a) ==
  /\ holder = a /\ a \in inside
  /\ holder' = Nobody
  /\ lapsed' = TRUE
  /\ UNCHANGED inside

Next == \E a \in Actors : Enter(a) \/ Leave(a) \/ Lapse(a)

Spec == Init /\ [][Next]_vars
=============================================================================
