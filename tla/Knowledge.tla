------------------------------ MODULE Knowledge ------------------------------
(***************************************************************************)
(* What consolidation (operations/consolidate.go) promises those who       *)
(* record: what they said waits until it is known, what is known is never  *)
(* rewritten and goes out of use for something later only, and what they   *)
(* forgot does not come back into use.  Who consolidates, in how many      *)
(* writes, and which of them are cut short is not said.                    *)
(*                                                                         *)
(* Consolidation implements it.                                            *)
(***************************************************************************)
EXTENDS Naturals

CONSTANTS Ids, Contents,
          Judged,  \* does a classifier decide, or content alone?
          None

VARIABLES
  waiting,   \* id -> what an episode says that has not been consolidated, or None
  facts,     \* id -> what a fact on record says, or None
  live,      \* the ids of the facts in use
  known,     \* all that has ever been a fact
  used,      \* the ids handed out
  forgotten  \* the ids a client has forgotten

vars == <<waiting, facts, live, known, used, forgotten>>

Init ==
  /\ waiting = [i \in Ids |-> None]
  /\ facts = [i \in Ids |-> None]
  /\ live = {} /\ known = {} /\ used = {} /\ forgotten = {}

\* Facts there are, or were until a client forgot them.
OnRecord(i) == i \in used /\ (facts[i] # None \/ i \in forgotten)

\* Somebody records an episode.
Hear(i, text) ==
  /\ i \notin used
  /\ used' = used \cup {i}
  /\ waiting' = [waiting EXCEPT ![i] = text]
  /\ UNCHANGED <<facts, live, known, forgotten>>

\* A fact is written under a new id.  Content alone makes nothing up: it waits,
\* is known, or was forgotten on its way.  The revision of a fact that is out of
\* use is born out of use.
Learn(i, text) ==
  /\ i \notin used
  /\ ~Judged => text \in known \cup {waiting[j] : j \in Ids} \/ forgotten # {}
  /\ used' = used \cup {i}
  /\ facts' = [facts EXCEPT ![i] = text]
  /\ known' = known \cup {text}
  /\ \/ live' = live \cup {i}
     \/ live' = live /\ \E j \in Ids : OnRecord(j) /\ j \notin live
  /\ UNCHANGED <<waiting, forgotten>>

\* An episode waits no longer.  Content alone settles only what is known.
Settle(i) ==
  /\ waiting[i] # None
  /\ ~Judged => waiting[i] \in known
  /\ waiting' = [waiting EXCEPT ![i] = None]
  /\ UNCHANGED <<facts, live, known, used, forgotten>>

\* A fact goes out of use, its text unchanged.  Unless a classifier wants it
\* gone, a later fact is on record by then.
Retire(i) ==
  /\ i \in live
  /\ ~Judged => \E j \in Ids : j > i /\ OnRecord(j)
  /\ live' = live \ {i}
  /\ UNCHANGED <<waiting, facts, known, used, forgotten>>

Forget(i) ==
  /\ i \in used
  /\ waiting' = [waiting EXCEPT ![i] = None]
  /\ facts' = [facts EXCEPT ![i] = None]
  /\ live' = live \ {i}
  /\ forgotten' = forgotten \cup {i}
  /\ UNCHANGED <<known, used>>

\* A pass that had read a fact before it was forgotten writes it back, out of
\* use.
Resurface(i, text) ==
  /\ i \in forgotten /\ facts[i] = None
  /\ text \in known
  /\ facts' = [facts EXCEPT ![i] = text]
  /\ UNCHANGED <<waiting, live, known, used, forgotten>>

Next ==
  \E i \in Ids :
    \/ \E text \in Contents : Hear(i, text) \/ Learn(i, text) \/ Resurface(i, text)
    \/ Settle(i) \/ Retire(i) \/ Forget(i)

Spec == Init /\ [][Next]_vars
=============================================================================
