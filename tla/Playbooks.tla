------------------------------ MODULE Playbooks ------------------------------
(***************************************************************************)
(* L3 (operations/proceduralize.go): a pass clusters the episodes that     *)
(* ended well around the oldest of each cluster, and for every cluster     *)
(* that is large enough keeps a playbook: none if one with this very       *)
(* content is live, a new version of the most similar one, or a new one.   *)
(* The new version is stored before the old one is retired.                *)
(*                                                                         *)
(* An episode is its place in the order of creation.  A playbook is the    *)
(* text that its cluster makes (the most frequent action, the number of    *)
(* episodes and their steps), and playbooks are compared by the embeddings *)
(* of their texts: whether two are similar has nothing to do with the      *)
(* episodes they were derived from, and two clusters may make one text.    *)
(***************************************************************************)
EXTENDS Naturals, FiniteSets, FiniteSetsExt

CONSTANTS Habits,        \* episodes: 1..n, in the order of creation
          PlaybookIds,   \* ids for playbooks
          MinHabit,      \* minClusterSize
          NoPlaybook,    \* no playbook
          Stories,       \* texts of playbooks
          NoStory,       \* no text
          Tells,         \* cluster -> the text of its playbook
          StoriesAlike   \* pairs of texts at least similarityThreshold alike

ASSUME PlaybooksAssumption ==
  /\ IsFiniteSet(Habits) /\ Habits = 1..Cardinality(Habits)
  /\ NoPlaybook \notin PlaybookIds
  /\ NoStory \notin Stories /\ Tells \in [SUBSET Habits -> Stories]
  /\ \A s \in Stories : <<s, s>> \in StoriesAlike

VARIABLES
  near,     \* pairs of episodes at least similarityThreshold alike
  done,     \* the episodes that are stored and ended well
  book,     \* id -> its text, or NoStory
  retired,  \* the ids whose rows have been retired
  pbAt,     \* where the pass stands
  clusters, \* the clusters still to be treated
  stale,    \* the playbook the new one replaces, still to be retired
  read,     \* the episodes the pass has read
  settled   \* history: the clusters of the last pass, if it ran to its end and no
            \* episode has come or gone since it read them

pbPass == <<pbAt, clusters, stale, read>>
pbVars == <<near, done, book, retired, pbPass, settled>>

PbInit ==
  /\ near \in {N \in SUBSET (Habits \X Habits) : \A p \in N : p[1] < p[2]}
  /\ done = {}
  /\ book = [i \in PlaybookIds |-> NoStory] /\ retired = {}
  /\ pbAt = "idle" /\ clusters = {} /\ stale = NoPlaybook /\ read = {}
  /\ settled = {}

-----------------------------------------------------------------------------

\* The oldest episode that is not assigned takes the later ones near to it; the
\* members of a cluster that turns out too small stay assigned.
Taken(S) == {Min(S)} \cup {b \in S : <<Min(S), b>> \in near}

Leaders(S) ==
  LET from[T \in SUBSET S] == IF T = {} THEN {} ELSE {Taken(T)} \cup from[T \ Taken(T)]
  IN from[S]

LargeEnough(S) == {C \in Leaders(S) : Cardinality(C) >= MinHabit}

EpisodeEnds(e) ==
  /\ e \notin done /\ \A d \in done : d < e
  /\ done' = done \cup {e}
  /\ settled' = {}
  /\ UNCHANGED <<near, book, retired, pbPass>>

EpisodeForgotten(e) ==
  /\ e \in done
  /\ done' = done \ {e}
  /\ settled' = {}
  /\ UNCHANGED <<near, book, retired, pbPass>>

Proceduralize ==
  /\ pbAt = "idle"
  /\ pbAt' = "clusters"
  /\ read' = done
  /\ clusters' = LargeEnough(done)
  /\ settled' = {}
  /\ UNCHANGED <<near, done, book, retired, stale>>

\* retrieveExistingPlaybooks: live ones that are similar, as far as they are
\* among the nearest memories of all layers.
MutFoundFor(C) == SUBSET {i \in PlaybookIds : book[i] # NoStory /\ <<book[i], Tells[C]>> \in StoriesAlike}

FoundFor(C) == SUBSET {i \in PlaybookIds \ retired : book[i] # NoStory /\ <<book[i], Tells[C]>> \in StoriesAlike}

PutPlaybook(i, C) ==
  /\ book[i] = NoStory
  /\ book' = [book EXCEPT ![i] = Tells[C]]

\* classifyPlaybook, and what its answer asks for: the very text is there, there
\* is nothing similar, or the first of the similar ones is to be replaced.
TreatCluster(C) ==
  /\ pbAt = "clusters" /\ C \in clusters
  /\ clusters' = clusters \ {C}
  /\ \E found \in FoundFor(C) :
       \/ /\ \E i \in found : book[i] = Tells[C]
          /\ UNCHANGED <<book, pbAt, stale>>
       \/ /\ found = {}
          /\ \E i \in PlaybookIds : PutPlaybook(i, C)
          /\ UNCHANGED <<pbAt, stale>>
       \/ /\ found # {} /\ \A i \in found : book[i] # Tells[C]
          /\ \E i \in PlaybookIds : PutPlaybook(i, C)
          /\ stale' \in found
          /\ pbAt' = "retire"
  /\ UNCHANGED <<near, done, retired, read, settled>>

\* Retire.
RetireStale ==
  /\ pbAt = "retire"
  /\ retired' = retired \cup {stale}
  /\ stale' = NoPlaybook
  /\ pbAt' = "clusters"
  /\ UNCHANGED <<near, done, book, clusters, read, settled>>

EndOfPass ==
  /\ pbAt = "clusters" /\ clusters = {}
  /\ pbAt' = "idle"
  /\ settled' = IF done = read THEN LargeEnough(read) ELSE {}
  /\ read' = {}
  /\ UNCHANGED <<near, done, book, retired, clusters, stale>>

\* The embedder or the database fails, or the process is killed.
PbAbort ==
  /\ pbAt # "idle"
  /\ pbAt' = "idle" /\ clusters' = {} /\ stale' = NoPlaybook /\ read' = {}
  /\ UNCHANGED <<near, done, book, retired, settled>>

PbNext ==
  \/ \E e \in Habits : EpisodeEnds(e) \/ EpisodeForgotten(e)
  \/ Proceduralize \/ RetireStale \/ EndOfPass \/ PbAbort
  \/ \E C \in clusters : TreatCluster(C)

PbSpec == PbInit /\ [][PbNext]_pbVars

-----------------------------------------------------------------------------

PbTypeOK ==
  /\ book \in [PlaybookIds -> Stories \cup {NoStory}] /\ retired \subseteq PlaybookIds
  /\ stale \in PlaybookIds \cup {NoPlaybook} /\ done \cup read \subseteq Habits
  /\ pbAt = "retire" <=> stale # NoPlaybook

\* No habit outside S makes a playbook like one of S.
Isolated(S, all) == \A C \in S, D \in all \ S : <<Tells[C], Tells[D]>> \notin StoriesAlike

(* What has become a habit has its playbook: after a pass that ran to its   *)
(* end, any group of habits whose playbooks are like none of the others has *)
(* the playbook of one of them among the live ones, also when a cluster     *)
(* grew and shrank back to one whose playbook was retired on the way, when  *)
(* the playbook of another cluster was replaced, or when an earlier pass    *)
(* was killed between the two writes of a replacement.  A habit that is     *)
(* like no other one is a group of its own; of habits that make playbooks   *)
(* like each other's a pass may leave but one, because it lets each replace *)
(* the other's.                                                             *)
HabitsHavePlaybooks ==
  \A S \in (SUBSET settled) \ {{}} :
    Isolated(S, settled) => \E i \in PlaybookIds \ retired : \E C \in S : book[i] = Tells[C]
=============================================================================
