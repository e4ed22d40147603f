---------------------------- MODULE Consolidation ----------------------------
(***************************************************************************)
(* operations/consolidate.go and operations/supersedes.go: a pass turns    *)
(* the pending episodes into facts, one write at a time, while other       *)
(* clients record and forget memories and the process may stop between any *)
(* two writes.  Each consolidator has its own engine, so its own vector    *)
(* index over the shared table.                                            *)
(*                                                                         *)
(* A memory is abstracted to its layer, its content (what content_hash     *)
(* tells apart), whether the episode is stamped, and the two marks IsRetired*)
(* reads.  Similarity is a choice: any fact the index returns may be the   *)
(* top hit, above the threshold or not.                                    *)
(***************************************************************************)
EXTENDS Integers, FiniteSets

CONSTANTS Consolidators,  \* processes that run passes
          Contents,       \* contents of memories
          MaxId,          \* bound: memory ids are allocated from 1 to MaxId
          MaxEpisodes,    \* bound on the episodes recorded
          MaxForgets,     \* bound on the memories clients forget
          MaxFailures,    \* bound on failed calls and stops of a consolidator
          TopK,           \* hits a search returns: MinEpisodesToTrigger + 5
          LLM,            \* is a classifier configured?
          WorkerLock,     \* do passes run under the worker lock?
          None            \* no id, no row, no memory, no index loaded

ASSUME ConsolidationAssumption ==
  /\ {MaxId, MaxEpisodes, MaxForgets, MaxFailures, TopK} \subseteq Nat
  /\ {LLM, WorkerLock} \subseteq BOOLEAN

VARIABLES
  mem,        \* id -> the row of `memories`, or None
  edges,      \* the edges with valid_to NULL
  next,       \* the next id NewID returns
  index,      \* consolidator -> the facts its vector index holds; None when cold
  pc,         \* consolidator -> where its pass stands
  todo,       \* consolidator -> the selected episodes not reached yet
  ep,         \* consolidator -> the episode in hand, as selected
  verdict,    \* consolidator -> the action classified for it
  target,     \* consolidator -> the fact it updates or deletes, as read
  fact,       \* consolidator -> the id of the fact it has written
  open,       \* consolidator -> the edges Retire still has to close
  recorded,   \* how many episodes have been recorded
  failures,   \* how many calls have failed and consolidators stopped
  learned,    \* history: the contents that have been written as facts
  forgotten   \* history: the ids a client has forgotten

store   == <<mem, edges, next, index, recorded, failures>>
pass    == <<pc, todo, ep, verdict, target, fact, open>>
history == <<learned, forgotten>>
vars    == <<store, pass, history>>

Ids     == 1..MaxId
Row     == [layer : {"episodic", "semantic"}, content : Contents, stamped : BOOLEAN,
            supersededBy : Ids \cup {None}, superseded : BOOLEAN, embedded : BOOLEAN]
Edge    == [src : Ids, relation : {"produced_from", "supersedes"}, dst : Ids]
Memory  == [id : Ids, row : Row]
Points  == {"idle", "select", "write", "neighbors", "close", "link", "mark", "project", "stamp"}
Verdict == {"ADD", "UPDATE", "DELETE", "NOOP"}

ASSUME NoneAssumption == None \notin Ids \cup Contents \cup Row \cup Memory

TypeOK ==
  /\ mem \in [Ids -> Row \cup {None}]
  /\ edges \subseteq Edge
  /\ next \in 1..(MaxId + 1)
  /\ index \in [Consolidators -> (SUBSET Ids) \cup {None}]
  /\ recorded \in 0..MaxEpisodes /\ failures \in 0..MaxFailures
  /\ pc \in [Consolidators -> Points]
  /\ todo \in [Consolidators -> SUBSET Memory]
  /\ ep \in [Consolidators -> Memory \cup {None}]
  /\ verdict \in [Consolidators -> Verdict]
  /\ target \in [Consolidators -> Memory \cup {None}]
  /\ fact \in [Consolidators -> Ids \cup {None}]
  /\ open \in [Consolidators -> SUBSET Edge]
  /\ \A c \in Consolidators :
       /\ pc[c] \notin {"idle", "select"} => ep[c] # None
       /\ pc[c] \in {"neighbors", "close", "link", "mark"} => target[c] # None
       /\ pc[c] \in {"link", "project"} => fact[c] # None
  /\ learned \subseteq Contents /\ forgotten \subseteq Ids

Init ==
  /\ mem = [i \in Ids |-> None]
  /\ edges = {}
  /\ next = 1
  /\ index = [c \in Consolidators |-> None]
  /\ recorded = 0 /\ failures = 0
  /\ pc = [c \in Consolidators |-> "idle"]
  /\ todo = [c \in Consolidators |-> {}]
  /\ ep = [c \in Consolidators |-> None]
  /\ verdict = [c \in Consolidators |-> "NOOP"]
  /\ target = [c \in Consolidators |-> None]
  /\ fact = [c \in Consolidators |-> None]
  /\ open = [c \in Consolidators |-> {}]
  /\ learned = {} /\ forgotten = {}

-----------------------------------------------------------------------------
(* The store, as the pass uses it.                                         *)

Exists(i)     == mem[i] # None
IsRetired(r)  == r.supersededBy # None \/ r.superseded
Neighbors(i)  == {e \in edges : i \in {e.src, e.dst}}
Facts         == {i \in Ids : Exists(i) /\ mem[i].layer = "semantic"}
Episodes      == {i \in Ids : Exists(i) /\ mem[i].layer = "episodic"}
Snapshot(i)   == [id |-> i, row |-> mem[i]]

\* PutMemory upserts the whole row; a nil vector NULLs the embedding.
PutMemory(i, r) == mem' = [mem EXCEPT ![i] = r]

\* An edge's end points are foreign keys: PutEdge fails when one is gone.
EdgeFits(e) == Exists(e.src) /\ Exists(e.dst)

Episode(text) == [layer |-> "episodic", content |-> text, stamped |-> FALSE,
                  supersededBy |-> None, superseded |-> FALSE, embedded |-> TRUE]

Goto(c, point) == pc' = [pc EXCEPT ![c] = point]

\* The pass returns, with or without an error.
Leave(c) ==
  /\ Goto(c, "idle")
  /\ todo' = [todo EXCEPT ![c] = {}]
  /\ ep' = [ep EXCEPT ![c] = None]
  /\ verdict' = [verdict EXCEPT ![c] = "NOOP"]
  /\ target' = [target EXCEPT ![c] = None]
  /\ fact' = [fact EXCEPT ![c] = None]
  /\ open' = [open EXCEPT ![c] = {}]

-----------------------------------------------------------------------------
(* Other clients of the database.                                          *)

Record(text) ==
  /\ recorded < MaxEpisodes
  /\ next <= MaxId
  /\ PutMemory(next, Episode(text))
  /\ next' = next + 1
  /\ recorded' = recorded + 1
  /\ UNCHANGED <<edges, index, failures, pass, history>>

\* The edges of a deleted row go with it (ON DELETE CASCADE); the indexes of
\* the consolidators, which are other processes, are not told.
Forget(i) ==
  /\ Cardinality(forgotten) < MaxForgets
  /\ Exists(i)
  /\ PutMemory(i, None)
  /\ edges' = edges \ Neighbors(i)
  /\ forgotten' = forgotten \cup {i}
  /\ UNCHANGED <<next, index, recorded, failures, pass, learned>>

-----------------------------------------------------------------------------
(* Consolidate.                                                            *)

Pending == {i \in Episodes : ~mem[i].stamped}

Begin(c) ==
  /\ pc[c] = "idle"
  /\ WorkerLock => \A d \in Consolidators : pc[d] = "idle"
  /\ Goto(c, "select")
  /\ todo' = [todo EXCEPT ![c] = {Snapshot(i) : i \in Pending}]
  /\ UNCHANGED <<store, ep, verdict, target, fact, open, history>>

\* What VectorSearch returns: a cold index is first loaded from the rows that
\* have an embedding.
Hits(c) == IF index[c] = None THEN {i \in Facts : mem[i].embedded} ELSE index[c]

\* The hits that are facts of this workspace still.  The search ranks episodes
\* and deleted memories too: when more than TopK memories may have the very
\* content, they may crowd out any fact.
SameContent(text) == {i \in Ids : Exists(i) /\ mem[i].content = text} \cup forgotten

Similar(c, text) ==
  LET found == Hits(c) \cap Facts
  IN IF Cardinality(SameContent(text)) <= TopK THEN {found} ELSE SUBSET found

\* What similar[0] may be: a fact with the very content when there is one, else
\* any fact, or none is similar enough to be listed.
Tops(similar, text) ==
  LET same == {i \in similar : mem[i].content = text}
  IN IF same # {} THEN same ELSE similar \cup {None}

\* The verdict and its target: the classifier's, else offlineClassify's, which
\* answers NOOP to a content it has, UPDATE above the threshold, ADD below.
Verdicts(similar, text) ==
  IF LLM THEN [act : Verdict, top : Tops(similar, text)]
  ELSE IF \E i \in similar : mem[i].content = text
    THEN [act : {"NOOP"}, top : Tops(similar, text)]
    ELSE [act : {"ADD"}, top : Tops(similar, text)] \cup [act : {"UPDATE"}, top : similar]

\* The oldest selected episode is taken up and classified.  An UPDATE with
\* nothing similar moves on to the next episode; a DELETE with nothing similar
\* only stamps.
AfterVerdict(v) == CASE v.act \in {"ADD", "UPDATE"}      -> "write"
                     [] v.act = "DELETE" /\ v.top # None -> "neighbors"
                     [] OTHER                            -> "stamp"

Classify(c) ==
  \E e \in todo[c] :
    /\ pc[c] = "select"
    /\ \A f \in todo[c] : e.id <= f.id
    /\ todo' = [todo EXCEPT ![c] = @ \ {e}]
    /\ index' = [index EXCEPT ![c] = Hits(c)]
    /\ \E similar \in Similar(c, e.row.content) : \E v \in Verdicts(similar, e.row.content) :
         IF v.act = "UPDATE" /\ v.top = None
           THEN UNCHANGED <<pc, ep, verdict, target>>
           ELSE /\ ep' = [ep EXCEPT ![c] = e]
                /\ verdict' = [verdict EXCEPT ![c] = v.act]
                /\ target' = [target EXCEPT ![c] =
                     IF v.act \in {"UPDATE", "DELETE"} /\ v.top # None
                     THEN Snapshot(v.top) ELSE None]
                /\ Goto(c, AfterVerdict(v))
    /\ UNCHANGED <<mem, edges, next, recorded, failures, fact, open, history>>

\* The row of the new fact: PutFact for ADD; for UPDATE a clone of the target
\* as it was read, metadata included.  A classifier may rewrite the text.
NewFact(c, text) ==
  IF verdict[c] = "ADD"
    THEN [Episode(text) EXCEPT !.layer = "semantic"]
    ELSE [target[c].row EXCEPT !.content = text, !.embedded = TRUE]

WriteFact(c) ==
  /\ pc[c] = "write"
  /\ next <= MaxId
  /\ \E text \in IF LLM THEN Contents ELSE {ep[c].row.content} :
       /\ PutMemory(next, NewFact(c, text))
       /\ learned' = learned \cup {text}
  /\ next' = next + 1
  /\ fact' = [fact EXCEPT ![c] = next]
  /\ index' = [index EXCEPT ![c] = @ \cup {next}]
  /\ Goto(c, IF verdict[c] = "ADD" THEN "project" ELSE "neighbors")
  /\ UNCHANGED <<edges, recorded, failures, todo, ep, verdict, target, open, forgotten>>

-----------------------------------------------------------------------------
(* Retire(target, fact): the valid edges of the target are read and closed *)
(* one by one, then the supersedes edge and the target's row are written.  *)

MutRetireNeighbors(c) ==
  /\ pc[c] = "neighbors"
  /\ open' = [open EXCEPT ![c] = {e \in Neighbors(target[c].id) : e.relation # "supersedes"}]
  /\ Goto(c, "close")
  /\ UNCHANGED <<store, todo, ep, verdict, target, fact, history>>

RetireNeighbors(c) ==
  /\ pc[c] = "neighbors"
  /\ open' = [open EXCEPT ![c] = Neighbors(target[c].id)]
  /\ Goto(c, "close")
  /\ UNCHANGED <<store, todo, ep, verdict, target, fact, history>>

CloseEdge(c) ==
  /\ pc[c] = "close"
  /\ \E e \in open[c] :
       /\ EdgeFits(e)
       /\ edges' = edges \ {e}
       /\ open' = [open EXCEPT ![c] = @ \ {e}]
  /\ UNCHANGED <<mem, next, index, recorded, failures, pc, todo, ep, verdict, target, fact, history>>

Closed(c) ==
  /\ pc[c] = "close"
  /\ open[c] = {}
  /\ Goto(c, IF verdict[c] = "UPDATE" THEN "link" ELSE "mark")
  /\ UNCHANGED <<store, todo, ep, verdict, target, fact, open, history>>

Supersedes(c) == [src |-> target[c].id, relation |-> "supersedes", dst |-> fact[c]]

Link(c) ==
  /\ pc[c] = "link"
  /\ EdgeFits(Supersedes(c))
  /\ edges' = edges \cup {Supersedes(c)}
  /\ Goto(c, "mark")
  /\ UNCHANGED <<mem, next, index, recorded, failures, todo, ep, verdict, target, fact, open, history>>

\* PutMemory(old, nil): the whole row, as it was read when it was classified.
MutMark(c) ==
  /\ pc[c] = "mark"
  /\ PutMemory(target[c].id, [target[c].row EXCEPT !.embedded = FALSE])
  /\ Goto(c, IF verdict[c] = "UPDATE" THEN "project" ELSE "stamp")
  /\ UNCHANGED <<edges, next, index, recorded, failures, todo, ep, verdict, target, fact, open, history>>

Mark(c) ==
  /\ pc[c] = "mark"
  /\ PutMemory(target[c].id,
       IF verdict[c] = "UPDATE"
         THEN [target[c].row EXCEPT !.supersededBy = fact[c], !.embedded = FALSE]
         ELSE [target[c].row EXCEPT !.superseded = TRUE, !.embedded = FALSE])
  /\ Goto(c, IF verdict[c] = "UPDATE" THEN "project" ELSE "stamp")
  /\ UNCHANGED <<edges, next, index, recorded, failures, todo, ep, verdict, target, fact, open, history>>

-----------------------------------------------------------------------------

\* projectProvenance, of an episode that operates on no resource.
Provenance(c) == [src |-> fact[c], relation |-> "produced_from", dst |-> ep[c].id]

Project(c) ==
  /\ pc[c] = "project"
  /\ EdgeFits(Provenance(c))
  /\ edges' = edges \cup {Provenance(c)}
  /\ Goto(c, "stamp")
  /\ UNCHANGED <<mem, next, index, recorded, failures, todo, ep, verdict, target, fact, open, history>>

\* markConsolidated writes the episode back as it was selected, stamped.
MutStamp(c) ==
  /\ pc[c] = "stamp"
  /\ IF verdict[c] = "NOOP" THEN UNCHANGED mem
     ELSE PutMemory(ep[c].id, [ep[c].row EXCEPT !.stamped = TRUE])
  /\ ep' = [ep EXCEPT ![c] = None]
  /\ verdict' = [verdict EXCEPT ![c] = "NOOP"]
  /\ target' = [target EXCEPT ![c] = None]
  /\ fact' = [fact EXCEPT ![c] = None]
  /\ Goto(c, "select")
  /\ UNCHANGED <<edges, next, index, recorded, failures, todo, open, history>>

Stamp(c) ==
  /\ pc[c] = "stamp"
  /\ PutMemory(ep[c].id, [ep[c].row EXCEPT !.stamped = TRUE])
  /\ ep' = [ep EXCEPT ![c] = None]
  /\ verdict' = [verdict EXCEPT ![c] = "NOOP"]
  /\ target' = [target EXCEPT ![c] = None]
  /\ fact' = [fact EXCEPT ![c] = None]
  /\ Goto(c, "select")
  /\ UNCHANGED <<edges, next, index, recorded, failures, todo, open, history>>

Finish(c) ==
  /\ pc[c] = "select"
  /\ todo[c] = {}
  /\ Leave(c)
  /\ UNCHANGED <<store, history>>

-----------------------------------------------------------------------------

\* An end of an edge is gone: the error of PutEdge ends the pass.
EdgeError(c) ==
  /\ \/ pc[c] = "close" /\ \E e \in open[c] : ~EdgeFits(e)
     \/ pc[c] = "link" /\ ~EdgeFits(Supersedes(c))
     \/ pc[c] = "project" /\ ~EdgeFits(Provenance(c))
  /\ Leave(c)
  /\ UNCHANGED <<store, history>>

\* A model, embedder or database call returns an error: the pass returns it.
MutAbort(c) ==
  /\ failures < MaxFailures
  /\ pc[c] # "idle"
  /\ failures' = failures + 1
  /\ IF ep[c] = None THEN UNCHANGED mem
     ELSE PutMemory(ep[c].id, [ep[c].row EXCEPT !.stamped = TRUE])
  /\ Leave(c)
  /\ UNCHANGED <<edges, next, index, recorded, history>>

Abort(c) ==
  /\ failures < MaxFailures
  /\ pc[c] # "idle"
  /\ failures' = failures + 1
  /\ Leave(c)
  /\ UNCHANGED <<mem, edges, next, index, recorded, history>>

\* The consolidator stops, wherever it stands, and starts with a cold index.
Restart(c) ==
  /\ failures < MaxFailures
  /\ failures' = failures + 1
  /\ index' = [index EXCEPT ![c] = None]
  /\ Leave(c)
  /\ UNCHANGED <<mem, edges, next, recorded, history>>

Work(c) ==
  \/ Classify(c)
  \/ WriteFact(c)
  \/ RetireNeighbors(c)
  \/ CloseEdge(c)
  \/ Closed(c)
  \/ Link(c)
  \/ Mark(c)
  \/ Project(c)
  \/ Stamp(c)
  \/ Finish(c)
  \/ EdgeError(c)

Next ==
  \/ \E text \in Contents : Record(text)
  \/ \E i \in Ids : Forget(i)
  \/ \E c \in Consolidators : Begin(c) \/ Work(c) \/ Abort(c) \/ Restart(c)

Spec == Init /\ [][Next]_vars

\* A consolidator keeps running passes and a pass keeps making steps: the
\* worker loop starts a cycle at every interval.
FairSpec == Spec /\ \A c \in Consolidators : WF_vars(Begin(c)) /\ WF_vars(Work(c))

-----------------------------------------------------------------------------

\* LatestInChain, over the valid supersedes edges, which are acyclic; recall's
\* second tier walks them too.
Successors(i) == {e.dst : e \in {f \in edges : f.src = i /\ f.relation = "supersedes"}}

LatestInChain(i) ==
  LET walk[n \in 0..MaxId] ==
        IF n = 0 THEN i
        ELSE IF Successors(walk[n - 1]) = {} THEN walk[n - 1]
        ELSE CHOOSE j \in Successors(walk[n - 1]) : TRUE
  IN walk[MaxId]

Live(i) == i \in Facts /\ ~IsRetired(mem[i])

Quiescent == \A c \in Consolidators : pc[c] = "idle"

(* An episode is stamped only after what it says has been written as a fact,*)
(* wherever passes stop: "the mark survives aborted passes" means a stamped *)
(* episode needs no second look (offline classification).                   *)
StampedIsLearned ==
  ~LLM => \A i \in Episodes : mem[i].stamped => mem[i].content \in learned

(* What is live is there once and can be found, with one consolidator and  *)
(* through any abort, restart and retry: no two live facts say the same, for*)
(* the content an aborted pass has already promoted is found again and is a *)
(* NOOP; and a live fact has an embedding to reload, and the warm index     *)
(* holds it, for Retire takes a fact's embedding and marks it in one write. *)
NoDuplicateLive == \A i, j \in Ids : i # j /\ Live(i) /\ Live(j) => mem[i].content # mem[j].content
LiveIsFindable ==
  \A i \in Ids, c \in Consolidators :
    Live(i) => mem[i].embedded /\ (index[c] # None => i \in index[c])
OneFindableFact == NoDuplicateLive /\ LiveIsFindable

(* Every version has at most one next version in the valid graph, so the    *)
(* walk of LatestInChain and of recall's second tier has one way to go,     *)
(* also when a version is retired a second time and passes stop half way.   *)
SingleSuccessor ==
  \A e, f \in edges :
    e.relation = "supersedes" /\ f.relation = "supersedes" /\ e.src = f.src => e = f

(* Every episode is consolidated or forgotten in the end.                   *)
BacklogDrains == \A i \in Ids : i \in Pending ~> i \notin Pending

(* LatestInChain "returns the newest version id", and recall follows        *)
(* supersedes "to the newest version": where no pass fails, the version the *)
(* walk ends at has no later version on record.  (Marks that a clone has    *)
(* inherited name earlier ones and are not meant.)                          *)
NewestIsReached ==
  Quiescent /\ failures = 0 =>
    \A i \in Facts : LET latest == LatestInChain(i) IN
      mem[latest].supersededBy \notin {j \in Facts : j > latest}

(* An UPDATE that nothing cut short is whole: a fact with a valid           *)
(* supersedes edge to its successor is retired, however passes before and   *)
(* after it ended.  (Retire writes the edge first, the mark last.)          *)
SupersededIsRetired ==
  Quiescent /\ failures = 0 =>
    \A e \in edges : e.relation = "supersedes" => IsRetired(mem[e.src])

(* What a client forgot while a pass held it does not come back to life: at *)
(* most the pass's last write restores it, stamped or retired, never as a   *)
(* live fact or as an episode that waits.                                   *)
ForgottenStaysDead == \A i \in forgotten : ~Live(i) /\ i \notin Pending

\* What those who record see of the store.
Said(S) == [i \in Ids |-> IF i \in S THEN mem[i].content ELSE None]

KN == INSTANCE Knowledge
        WITH Judged <- LLM, waiting <- Said(Pending), facts <- Said(Facts),
             live <- {i \in Ids : Live(i)}, known <- learned,
             used <- {i \in Ids : i < next}

(* Consolidation keeps its promise to those who record, through any number  *)
(* of passes side by side, aborts and restarts: an episode waits until it   *)
(* is known, a fact keeps its words under its id although passes write back *)
(* whole rows they read long before, it goes out of use only when a later   *)
(* one is on record (or a classifier says so), and no write of a pass puts  *)
(* back into use, or into the backlog, what was retired, stamped or         *)
(* forgotten meanwhile.                                                     *)
ImplementsKnowledge == KN!Spec
=============================================================================
