----------------------------- MODULE MentalModels -----------------------------
(***************************************************************************)
(* L5 (operations/l5.go): a pass clusters the facts and playbooks that no  *)
(* mental model covers, has each cluster summarised into a model with an   *)
(* `abstracts` edge to every member, and every few passes merges similar   *)
(* models into one.  Every write commits by itself; a pass may fail or be  *)
(* killed between any two; meanwhile memories are learnt, superseded and   *)
(* forgotten.  Similarity is left open: any partition may be the clusters. *)
(***************************************************************************)
EXTENDS Naturals, FiniteSets

CONSTANTS Members,      \* ids of facts and playbooks
          Models,       \* ids for mental models
          MinCluster,   \* system2.l5_min_cluster_size
          MergeEvery,   \* system2.l5_merge_every_n_cycles
          MaxChanges,   \* bound on the changes others make
          NoModel       \* no model

VARIABLES
  member,   \* id -> "new", "live", "retired" or "gone"
  model,    \* id -> "new", "live", "retired" or "gone"
  covers,   \* valid abstracts edges: <<model, member>>
  cycles,   \* meta["l5_merge_cycle_count"]
  l5At,     \* where the pass stands
  groups,   \* the clusters, or groups of models, still to be treated
  made,     \* the model the pass has just stored
  closing,  \* the models of a merged group still to be retired
  old,      \* the one that is being retired
  cutting,  \* the edges of the model being retired still to be closed
  linking,  \* the members still to be linked to the new model
  changes,  \* how many changes others have made
  kept      \* history: the members that were covered when the pass began and
            \* that nobody touched since; none once the pass has failed

l5Pass == <<l5At, groups, made, closing, old, cutting, linking>>
l5Vars == <<member, model, covers, cycles, l5Pass, changes, kept>>

States == {"new", "live", "retired", "gone"}

Covered == {f \in Members : \E m \in Models : model[m] = "live" /\ <<m, f>> \in covers}

\* abstractable: the rows are there; IsRetired is not asked.
Uncovered == {f \in Members : member[f] \in {"live", "retired"}} \ Covered

L5Init ==
  /\ member = [f \in Members |-> "new"] /\ model = [m \in Models |-> "new"]
  /\ covers = {} /\ cycles = 0
  /\ l5At = "idle" /\ groups = {} /\ made = NoModel
  /\ closing = {} /\ old = NoModel /\ cutting = {} /\ linking = {}
  /\ changes = 0 /\ kept = {}

-----------------------------------------------------------------------------

\* The clusters of at least n ids that some similarity makes of S.
Clusterings(S, n) ==
  {P \in SUBSET {C \in SUBSET S : Cardinality(C) >= n} : \A C, D \in P : C = D \/ C \cap D = {}}

L5Rest(point) ==
  /\ l5At' = point
  /\ groups' = {} /\ made' = NoModel /\ closing' = {} /\ old' = NoModel /\ cutting' = {} /\ linking' = {}

L5Fails == L5Rest("idle") /\ kept' = {}

\* A write or an embedding fails, or the process is killed.
L5Abort ==
  /\ l5At # "idle"
  /\ L5Fails
  /\ UNCHANGED <<member, model, covers, cycles, changes>>

\* Members that a model covers are left out.
MutReadUncovered ==
  /\ l5At = "idle"
  /\ l5At' = "extract"
  /\ groups' \in Clusterings({f \in Members : member[f] \in {"live", "retired"}}, MinCluster)
  /\ kept' = Covered
  /\ UNCHANGED <<member, model, covers, cycles, made, closing, old, cutting, linking, changes>>

ReadUncovered ==
  /\ l5At = "idle"
  /\ l5At' = "extract"
  /\ groups' \in Clusterings(Uncovered, MinCluster)
  /\ kept' = Covered
  /\ UNCHANGED <<member, model, covers, cycles, made, closing, old, cutting, linking, changes>>

\* summarise fails or answers nothing: the group is left for another pass.
SummariseFails(G) ==
  /\ l5At \in {"extract", "merge"} /\ G \in groups
  /\ groups' = groups \ {G}
  /\ UNCHANGED <<member, model, covers, cycles, l5At, made, closing, old, cutting, linking, changes, kept>>

StoreModel(m) ==
  /\ model[m] = "new"
  /\ model' = [model EXCEPT ![m] = "live"]
  /\ made' = m

\* A cluster becomes a model; its edges follow.
ExtractCluster(G, m) ==
  /\ l5At = "extract" /\ G \in groups
  /\ StoreModel(m)
  /\ groups' = groups \ {G}
  /\ l5At' = "link"
  /\ linking' = G
  /\ UNCHANGED <<member, covers, cycles, closing, old, cutting, changes, kept>>

\* The foreign keys refuse an edge to or from a memory that has been forgotten.
PutAbstracts(f) ==
  /\ l5At \in {"link", "relink"} /\ f \in linking
  /\ IF model[made] = "gone" \/ member[f] = "gone"
       THEN L5Fails /\ UNCHANGED covers
       ELSE /\ covers' = covers \cup {<<made, f>>}
            /\ linking' = linking \ {f}
            /\ UNCHANGED <<l5At, groups, made, closing, old, cutting, kept>>
  /\ UNCHANGED <<member, model, cycles, changes>>

LinkAbstracts ==
  /\ l5At \in {"link", "relink"} /\ linking = {}
  /\ l5At' = IF l5At = "link" THEN "extract" ELSE "merge"
  /\ made' = NoModel
  /\ UNCHANGED <<member, model, covers, cycles, groups, closing, old, cutting, linking, changes, kept>>

\* Every MergeEvery-th pass goes on to mergeL5, over the models that are live.
CountCycle ==
  /\ l5At = "extract" /\ groups = {}
  /\ IF cycles + 1 >= MergeEvery
       THEN /\ cycles' = 0
            /\ l5At' = "merge"
            /\ groups' \in Clusterings({m \in Models : model[m] = "live"}, 2)
       ELSE /\ cycles' = cycles + 1
            /\ l5At' = "idle"
            /\ UNCHANGED groups
  /\ UNCHANGED <<member, model, covers, made, closing, old, cutting, linking, changes, kept>>

\* The members of a group that are still there: none means nothing to merge.
MutMembersOf(G) == LET m == CHOOSE m \in G : TRUE IN {f \in Members : <<m, f>> \in covers}

MembersOf(G) == {f \in Members : \E m \in G : <<m, f>> \in covers}

MergeGroup(G, m) ==
  /\ l5At = "merge" /\ G \in groups
  /\ groups' = groups \ {G}
  /\ IF MembersOf(G) = {}
       THEN UNCHANGED <<model, l5At, made, closing, linking>>
       ELSE /\ StoreModel(m)
            /\ l5At' = "retire"
            /\ closing' = G
            /\ linking' = MembersOf(G)
  /\ UNCHANGED <<member, covers, cycles, old, cutting, changes, kept>>

\* Retire of an old model: its valid edges are read ...
RetireModel(m) ==
  /\ l5At = "retire" /\ m \in closing
  /\ l5At' = "cut"
  /\ old' = m
  /\ cutting' = {f \in Members : <<m, f>> \in covers}
  /\ UNCHANGED <<member, model, covers, cycles, groups, made, closing, linking, changes, kept>>

\* ... and closed one by one: an upsert, which the foreign keys refuse when an
\* end has been forgotten and the edge with it ...
CloseMemberEdge(f) ==
  /\ l5At = "cut" /\ f \in cutting
  /\ IF model[old] = "gone" \/ member[f] = "gone"
       THEN L5Fails /\ UNCHANGED covers
       ELSE /\ covers' = covers \ {<<old, f>>}
            /\ cutting' = cutting \ {f}
            /\ UNCHANGED <<l5At, groups, made, closing, old, linking, kept>>
  /\ UNCHANGED <<member, model, cycles, changes>>

\* ... then comes the supersedes edge to the merged model ...
NameMerged ==
  /\ l5At = "cut" /\ cutting = {}
  /\ IF model[old] = "gone" \/ model[made] = "gone"
       THEN L5Fails
       ELSE l5At' = "mark" /\ UNCHANGED <<groups, made, closing, old, cutting, linking, kept>>
  /\ UNCHANGED <<member, model, covers, cycles, changes>>

\* ... and the whole row, an upsert: it is there again if it was forgotten meanwhile.
MarkRetired ==
  /\ l5At = "mark"
  /\ model' = [model EXCEPT ![old] = "retired"]
  /\ closing' = closing \ {old}
  /\ l5At' = IF closing = {old} THEN "relink" ELSE "retire"
  /\ old' = NoModel
  /\ UNCHANGED <<member, covers, cycles, groups, made, cutting, linking, changes, kept>>

L5Done ==
  /\ l5At = "merge" /\ groups = {}
  /\ l5At' = "idle"
  /\ UNCHANGED <<member, model, covers, cycles, groups, made, closing, old, cutting, linking, changes, kept>>

L5Step ==
  \/ ReadUncovered \/ CountCycle \/ LinkAbstracts \/ NameMerged \/ MarkRetired \/ L5Done
  \/ \E G \in groups : SummariseFails(G) \/ \E m \in Models : ExtractCluster(G, m) \/ MergeGroup(G, m)
  \/ \E m \in closing : RetireModel(m)
  \/ \E f \in Members : PutAbstracts(f) \/ CloseMemberEdge(f)

-----------------------------------------------------------------------------
(* The others.                                                             *)

Learn(f) ==
  /\ member[f] = "new"
  /\ member' = [member EXCEPT ![f] = "live"]
  /\ UNCHANGED <<model, covers, cycles, l5Pass, changes, kept>>

Changed(S) ==
  /\ changes < MaxChanges
  /\ changes' = changes + 1
  /\ kept' = kept \ S

\* Consolidation retires a fact: the edges at it are closed.
Supersede(f) ==
  /\ member[f] = "live"
  /\ Changed({f})
  /\ member' = [member EXCEPT ![f] = "retired"]
  /\ covers' = {c \in covers : c[2] # f}
  /\ UNCHANGED <<model, cycles, l5Pass>>

ForgetMember(f) ==
  /\ member[f] \in {"live", "retired"}
  /\ Changed({f})
  /\ member' = [member EXCEPT ![f] = "gone"]
  /\ covers' = {c \in covers : c[2] # f}
  /\ UNCHANGED <<model, cycles, l5Pass>>

ForgetModel(m) ==
  /\ model[m] \in {"live", "retired"}
  /\ Changed({f \in Members : <<m, f>> \in covers})
  /\ model' = [model EXCEPT ![m] = "gone"]
  /\ covers' = {c \in covers : c[1] # m}
  /\ UNCHANGED <<member, cycles, l5Pass>>

L5Next ==
  \/ L5Step \/ L5Abort
  \/ \E f \in Members : Learn(f) \/ Supersede(f) \/ ForgetMember(f)
  \/ \E m \in Models : ForgetModel(m)

L5Spec == L5Init /\ [][L5Next]_l5Vars

-----------------------------------------------------------------------------

L5TypeOK ==
  /\ member \in [Members -> States] /\ model \in [Models -> States]
  /\ covers \subseteq Models \X Members
  /\ {made, old} \subseteq Models \cup {NoModel}
  /\ closing \subseteq Models /\ cutting \cup linking \cup kept \subseteq Members

(* A memory is abstracted once: at most one live model has a valid edge to  *)
(* it at any time, in the middle of a merge and after a pass that failed    *)
(* half-way included, so that the next pass neither clusters it again nor   *)
(* counts it twice in a merge.                                              *)
OneModelPerMember ==
  \A f \in Members, m, n \in Models :
    <<m, f>> \in covers /\ <<n, f>> \in covers => m = n

(* A merge loses nobody: a memory that a live model covered when a pass     *)
(* began, and that nobody superseded or forgot since, is covered by a live  *)
(* model when the pass has run to its end, whatever the LLM did not answer. *)
MergeLosesNobody == l5At = "idle" => kept \subseteq Covered
=============================================================================
