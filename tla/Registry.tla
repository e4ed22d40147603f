------------------------------- MODULE Registry -------------------------------
(***************************************************************************)
(* What the registry of resources promises those who name things: a name   *)
(* once known leads to one entity; names that lead to one lead to one ever *)
(* after, for entities are only joined, the younger to the older; and what *)
(* was recorded under a name is shown by whatever the name leads to.  Only *)
(* while two entities are being joined may some of it be out of sight, and *)
(* after a joining that was cut short.  How names are compared, and how    *)
(* the entities to be joined are found, is not said.                       *)
(*                                                                         *)
(* ResourceRegistry implements it.                                         *)
(***************************************************************************)
EXTENDS Naturals

CONSTANTS Names, Nobody,
          Entities,   \* numbered in the order of their creation
          Operations

VARIABLES
  answer,  \* name -> the entity it leads to, or Nobody
  filed,   \* <<operation, name>>: what was recorded, and under which name
  shown,   \* <<operation, entity>>: what an entity shows
  joining, \* the two entities that are becoming one, if any, the older first
  torn     \* has a joining been cut short?

vars == <<answer, filed, shown, joining, torn>>

Init ==
  /\ answer = [n \in Names |-> Nobody]
  /\ filed = {} /\ shown = {} /\ joining = {} /\ torn = FALSE

\* A name is met for the first time: it is one more name of some entity.
Meet(n) ==
  /\ answer[n] = Nobody /\ joining = {}
  /\ answer'[n] \in Entities
  /\ answer' = [answer EXCEPT ![n] = answer'[n]]
  /\ UNCHANGED <<filed, shown, joining, torn>>

\* An operation is recorded under a name, and shown at once.
File(n) ==
  /\ answer[n] # Nobody /\ joining = {}
  /\ \E o \in Operations : /\ filed' = filed \cup {<<o, n>>}
                           /\ shown' = shown \cup {<<o, answer[n]>>}
  /\ UNCHANGED <<answer, joining, torn>>

\* The names of j become names of i.  If the registry was torn, some names of j
\* may lead elsewhere already; none gets away from i to a younger entity.
Join(i, j) ==
  /\ i < j /\ joining = {}
  /\ joining' = {<<i, j>>}
  /\ IF torn THEN /\ answer' \in [Names -> Entities \cup {Nobody}]
                  /\ \A n \in Names : answer'[n] # answer[n] => answer'[n] = i /\ i < answer[n]
             ELSE answer' = [n \in Names |-> IF answer[n] = j THEN i ELSE answer[n]]
  /\ UNCHANGED <<filed, shown, torn>>

\* One of j's operations is shown by i; only then j shows it no longer.
Move(i, j) ==
  /\ \E o \in Operations :
       \/ <<o, j>> \in shown /\ shown' = shown \cup {<<o, i>>}
       \/ <<o, i>> \in shown /\ shown' = shown \ {<<o, j>>}
  /\ UNCHANGED <<answer, filed, joining, torn>>

\* Where nothing was torn, everything can be found again.
Joined ==
  /\ joining # {}
  /\ joining' = {}
  /\ torn \/ \A f \in filed : <<f[1], answer[f[2]]>> \in shown
  /\ UNCHANGED <<answer, filed, shown, torn>>

Tear ==
  /\ joining' = {}
  /\ torn' = TRUE
  /\ UNCHANGED <<answer, filed, shown>>

Next ==
  \/ \E n \in Names : Meet(n) \/ File(n)
  \/ \E i, j \in Entities : Join(i, j)
  \/ \E p \in joining : Move(p[1], p[2])
  \/ Joined
  \/ Tear

Spec == Init /\ [][Next]_vars
=============================================================================
