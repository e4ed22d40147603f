------------------------------ MODULE Maintenance ------------------------------
(***************************************************************************)
(* The upkeep of episodes by the worker: Decay (operations/decay.go)       *)
(* forgets what was not accessed for long, then MaintainL4                 *)
(* (operations/maintain.go) stamps a bounded batch of episodes with their  *)
(* action class and asks the LLM about a bounded number of similar pairs.  *)
(* Both read the episodes once and then write one row at a time, while     *)
(* episodes come, are recalled and are forgotten.                          *)
(*                                                                         *)
(* An episode is its place in the order of creation, which is the order of *)
(* its row.  All action classes are one: pairs of different classes are    *)
(* not Alike.                                                              *)
(***************************************************************************)
EXTENDS Naturals, FiniteSets, FiniteSetsExt, SequencesExt

CONSTANTS Eps,             \* episodes: 1..n
          BackfillBatch,   \* maintain.backfill_batch
          LinkingBudget,   \* maintain.linking_budget
          MinEps,          \* system2.min_episodes_to_run
          Alike            \* pairs, the later one first, over the similarity threshold

VARIABLES
  next,      \* the next episode to be recorded
  live,      \* the episodes stored
  known,     \* those whose action is in the vocabulary
  operates,  \* those with an operates_on edge
  class,     \* those with an action_class
  offline,   \* no LLM is configured
  upAt,      \* where the cycle stands
  worklist,      \* the episodes, or pairs, still to be treated, in their order
  budget     \* LLM calls left for pairs

upCycle == <<upAt, worklist, budget>>
world   == <<next, known, offline>>
upVars  == <<world, live, operates, class, upCycle>>

Pairs == {p \in Eps \X Eps : p[1] > p[2]}

UpInit ==
  /\ next = 1 /\ live = {} /\ class = {}
  /\ known \in SUBSET Eps /\ offline \in BOOLEAN
  /\ operates = {}
  /\ upAt = "idle" /\ worklist = <<>> /\ budget = 0

-----------------------------------------------------------------------------
(* The others.                                                             *)

\* Record, or RecordOperation: then a known action has its class at once, and
\* resources their edges.
RecordEpisode(e) ==
  /\ e = next
  /\ next' = next + 1
  /\ live' = live \cup {e}
  /\ \/ UNCHANGED <<class, operates>>
     \/ /\ class' = class \cup ({e} \cap known)
        /\ operates' = operates \cup {e}
  /\ UNCHANGED <<known, offline, upCycle>>

Deleted(e) ==
  /\ live' = live \ {e} /\ class' = class \ {e}
  /\ operates' = operates \ {e}

ForgetEpisode(e) ==
  /\ e \in live
  /\ Deleted(e)
  /\ UNCHANGED <<world, upCycle>>

-----------------------------------------------------------------------------
(* The cycle.                                                              *)

InOrder(S) == SetToSortSeq(S, LAMBDA a, b : a < b)

\* Decay reads the episodes, some of which are old by now ...
Decay ==
  /\ upAt = "idle"
  /\ upAt' = "decay"
  /\ \E old \in SUBSET live : worklist' = InOrder(old)
  /\ UNCHANGED <<world, live, operates, class, budget>>

\* ... and deletes those, recalled meanwhile or not.
DecayDelete ==
  /\ upAt = "decay" /\ worklist # <<>>
  /\ Deleted(Head(worklist))
  /\ worklist' = Tail(worklist)
  /\ UNCHANGED <<world, upAt, budget>>

Unclassed == InOrder(live \ class)

Truncated(s, n) == SubSeq(s, 1, IF Len(s) < n THEN Len(s) ELSE n)

MutReadBatch == SelectSeq(Truncated(InOrder(live), BackfillBatch), LAMBDA e : e \notin class)

ReadBatch == Truncated(Unclassed, BackfillBatch)

BackfillEpisodes ==
  /\ upAt = "decay" /\ worklist = <<>>
  /\ upAt' = "backfill"
  /\ worklist' = ReadBatch
  /\ UNCHANGED <<world, live, operates, class, budget>>

\* One candidate: left alone if it has resources by now, stamped with the class
\* of its own action, or shown to the LLM, whose answer may give a class,
\* resources, both or nothing.  The rewrite stores the row that was read.
BackfillOne(e) ==
  /\ upAt = "backfill" /\ worklist # <<>> /\ e = Head(worklist)
  /\ worklist' = Tail(worklist)
  /\ \/ /\ e \in operates \/ (e \notin known /\ offline)
        /\ UNCHANGED <<live, class, operates>>
     \/ /\ e \notin operates /\ e \in known
        /\ live' = live \cup {e} /\ class' = class \cup {e}
        /\ UNCHANGED operates
     \/ /\ e \notin operates /\ e \notin known /\ ~offline
        /\ \E stamp \in SUBSET {e}, edges \in SUBSET ({e} \cap live) :
             /\ class' = class \cup stamp
             /\ operates' = operates \cup edges
             /\ live' = live \cup stamp \cup edges
  /\ UNCHANGED <<world, upAt, budget>>

\* linkEpisodes: the pairs of classed episodes, the most recent ones first.
LinkEpisodes ==
  /\ upAt = "backfill" /\ worklist = <<>>
  /\ IF offline \/ Cardinality(live) < MinEps
       THEN upAt' = "idle" /\ UNCHANGED <<worklist, budget>>
       ELSE /\ upAt' = "link"
            /\ worklist' = SetToSortSeq({p \in Pairs : {p[1], p[2]} \subseteq class},
                         LAMBDA p, q : p[1] > q[1] \/ (p[1] = q[1] /\ p[2] > q[2]))
            /\ budget' = LinkingBudget
  /\ UNCHANGED <<world, live, operates, class>>

\* A pair that is not similar costs nothing; the edge, if the LLM wants one,
\* is an upsert.
AskPair(p) ==
  /\ upAt = "link" /\ worklist # <<>> /\ budget > 0 /\ p = Head(worklist)
  /\ worklist' = Tail(worklist)
  /\ budget' = IF p \in Alike THEN budget - 1 ELSE budget
  /\ UNCHANGED <<world, live, operates, class, upAt>>

UpDone ==
  /\ upAt = "link" /\ (worklist = <<>> \/ budget = 0)
  /\ upAt' = "idle" /\ worklist' = <<>> /\ budget' = 0
  /\ UNCHANGED <<world, live, operates, class>>

\* The database, the embedder or the LLM fails: the cycle is over, what it has
\* written stays.
UpFail ==
  /\ upAt # "idle"
  /\ upAt' = "idle" /\ worklist' = <<>> /\ budget' = 0
  /\ UNCHANGED <<world, live, operates, class>>

UpStep ==
  \/ Decay \/ DecayDelete \/ BackfillEpisodes \/ LinkEpisodes \/ UpDone
  \/ \E e \in Eps : BackfillOne(e)
  \/ \E p \in Pairs : AskPair(p)

UpNext ==
  \/ \E e \in Eps : RecordEpisode(e) \/ ForgetEpisode(e)
  \/ UpStep \/ UpFail

\* The worker goes on; what it tries again and again succeeds some time.
UpRetries ==
  /\ SF_upVars(DecayDelete) /\ SF_upVars(BackfillEpisodes)
  /\ \A e \in Eps : SF_upVars(BackfillOne(e))
UpFairness == WF_upVars(UpStep) /\ UpRetries

-----------------------------------------------------------------------------

UpTypeOK ==
  /\ class \cup operates \subseteq live
  /\ budget \in 0..LinkingBudget

(* Every episode whose action is in the vocabulary gets its action class,   *)
(* however many newer ones there are and wherever cycles fail, as long as   *)
(* the episodes that backfill cannot classify, and reads again in every     *)
(* cycle, do not fill a batch.                                              *)
KnownAreClassed ==
  LET Stuck == {e \in live \ class : e \in operates \/ e \notin known} IN
    \A e \in Eps :
      e \in live /\ e \in known \ operates
        ~> e \in class \/ e \notin live \/ e \in operates \/ Cardinality(Stuck) >= BackfillBatch
=============================================================================
