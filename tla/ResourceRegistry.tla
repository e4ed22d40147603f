--------------------------- MODULE ResourceRegistry ---------------------------
(***************************************************************************)
(* The registry of L2 resources: operations/resource.go resolves a name to *)
(* an entity and grows its aliases, engine/scope.go links an operation to  *)
(* it, operations/maintain.go merges entities an LLM finds to be the same, *)
(* engine/ops_recall.go reads.  All of them are sequences of single        *)
(* statements on the shared table; a whole row is written back as it was   *)
(* read.                                                                   *)
(*                                                                         *)
(* A resource is abstracted to its name (its content), its aliases, the    *)
(* resource that superseded it and whether it has an embedding.  Ids are   *)
(* allocated in the order rows are created.  IterMemories asks for no      *)
(* order: SQLite scans by rowid, which an upsert keeps, so rows come in    *)
(* the order of their creation (InOrder); on Postgres a row that is        *)
(* written again moves, and any row may come first.  Resources are not     *)
(* deleted.                                                                *)
(***************************************************************************)
EXTENDS Integers, FiniteSets, FiniteSetsExt

CONSTANTS Clients,     \* calls of RecordOperation in progress
          Procs,       \* processes, each with its vector index
          Home,        \* client -> its process
          WorkerHome,  \* the process that runs MaintainL4
          Names,       \* names of resources, up to case
          WriteNear,   \* pairs at least resolve_threshold similar
          ReadNear,    \* pairs at least read_threshold similar
          MergeNear,   \* pairs at least alias_merge_similarity similar
          Overlap,     \* may calls and merge passes overlap?
          InOrder,     \* do rows come back in the order of their creation?
          MaxId,       \* bound: resource ids are 1 to MaxId
          MaxOps,      \* bound on the operations recorded
          MaxFailures, \* bound on calls and passes cut short and processes restarted
          NoResource   \* no resource, no row, no index loaded

Ids      == 1..MaxId
Resource == [name : Names, aliases : SUBSET Names, by : Ids \cup {NoResource}, embedded : BOOLEAN]

ASSUME RegistryAssumption ==
  /\ Home \in [Clients -> Procs] /\ WorkerHome \in Procs
  /\ {MaxId, MaxOps, MaxFailures} \subseteq Nat
  /\ {Overlap, InOrder} \subseteq BOOLEAN
  /\ {WriteNear, ReadNear, MergeNear} \subseteq SUBSET (Names \X Names)
  /\ NoResource \notin Ids \cup Resource

VARIABLES
  res,      \* id -> the row of the resource, or NoResource
  edges,    \* <<operation, id>>: the operates_on edges with valid_to NULL
  index,    \* process -> the resources its vector index holds; NoResource when cold
  pc,       \* client -> where its call stands
  name,     \* client -> the name it resolves
  hit,      \* client -> the row of the vector hit, as GetMemory returned it
  target,   \* client -> the resource resolved, or hit
  op,       \* client -> its episode; 0 before it is written
  work,     \* the merge pass
  ops,      \* history: <<operation, name>> of the calls that have succeeded
  begun,    \* how many operations have been recorded
  failures, \* how many failures there have been
  cut       \* history: has a merge pass been cut short?

db     == <<res, edges, index>>
calls  == <<pc, name, hit, target, op>>
registryVars   == <<db, calls, work, ops, begun, failures, cut>>

Exists(i) == res[i] # NoResource
Live(i)   == Exists(i) /\ res[i].by = NoResource
Used      == {i \in Ids : Exists(i)}
IdlePass  == [pc |-> "idle", live |-> [i \in {} |-> NoResource], at |-> <<0, 0>>, todo |-> {}]

RegistryTypeOK ==
  /\ res \in [Ids -> Resource \cup {NoResource}]
  /\ edges \subseteq (1..MaxOps) \X Ids
  /\ index \in [Procs -> (SUBSET Ids) \cup {NoResource}]
  /\ pc \in [Clients -> {"idle", "search", "grow", "create", "record", "edge"}]
  /\ name \in [Clients -> Names \cup {NoResource}]
  /\ hit \in [Clients -> Resource \cup {NoResource}]
  /\ target \in [Clients -> Ids \cup {NoResource}]
  /\ op \in [Clients -> 0..MaxOps]
  /\ work.pc \in {"idle", "pair", "absorb", "neighbors", "rebuild", "retire", "close", "mark"}
  /\ DOMAIN work.live \subseteq Ids /\ \A i \in DOMAIN work.live : work.live[i] \in Resource
  /\ work.todo \subseteq 1..MaxOps
  /\ ops \subseteq (1..MaxOps) \X Names
  /\ cut \in BOOLEAN
  /\ \A c \in Clients : pc[c] \in {"record", "edge"} => Exists(target[c])

RegistryInit ==
  /\ res = [i \in Ids |-> NoResource]
  /\ edges = {}
  /\ index = [p \in Procs |-> NoResource]
  /\ pc = [c \in Clients |-> "idle"]
  /\ name = [c \in Clients |-> NoResource] /\ hit = [c \in Clients |-> NoResource]
  /\ target = [c \in Clients |-> NoResource] /\ op = [c \in Clients |-> 0]
  /\ work = IdlePass
  /\ ops = {} /\ begun = 0 /\ failures = 0 /\ cut = FALSE

Quiescent == work.pc = "idle" /\ \A c \in Clients : pc[c] = "idle"

-----------------------------------------------------------------------------
(* Resolution.                                                             *)

\* Exact matches, retired resources among them; the first row that comes back
\* is taken.
Matches(n)  == {i \in Used : n = res[i].name \/ n \in res[i].aliases}
Foremost(n) == IF InOrder /\ Matches(n) # {} THEN {Min(Matches(n))} ELSE Matches(n)

\* A cold index is first loaded from the rows that have an embedding.
Loaded(p) == IF index[p] = NoResource THEN {i \in Used : res[i].embedded} ELSE index[p]

Hits(p, n, near) == {i \in Loaded(p) \cap Used : <<n, res[i].name>> \in near}

\* PutMemory with a vector: the row and this process's index.
Put(p, i, r) ==
  /\ res' = [res EXCEPT ![i] = r]
  /\ index' = [index EXCEPT ![p] = IF @ = NoResource THEN NoResource ELSE @ \cup {i}]

Goto(c, point) == pc' = [pc EXCEPT ![c] = point]

Resolve(c, n) ==
  /\ pc[c] = "idle"
  /\ begun < MaxOps
  /\ Overlap \/ Quiescent
  /\ name' = [name EXCEPT ![c] = n]
  /\ begun' = begun + 1
  /\ \/ \E i \in Foremost(n) : Goto(c, "record") /\ target' = [target EXCEPT ![c] = i]
     \/ Matches(n) = {} /\ Goto(c, "search") /\ UNCHANGED target
  /\ op' = [op EXCEPT ![c] = begun + 1]
  /\ UNCHANGED <<db, hit, work, ops, failures, cut>>

\* VectorSearch, and GetMemory of the hit that counts.  Retired resources are
\* not told apart.
Search(c) ==
  LET hits == Hits(Home[c], name[c], WriteNear) IN
  /\ pc[c] = "search"
  /\ index' = [index EXCEPT ![Home[c]] = Loaded(Home[c])]
  /\ \/ hits = {} /\ Goto(c, "create") /\ UNCHANGED <<hit, target>>
     \/ \E i \in hits :
          /\ target' = [target EXCEPT ![c] = i]
          /\ hit' = [hit EXCEPT ![c] = res[i]]
          /\ Goto(c, IF name[c] \in res[i].aliases THEN "record" ELSE "grow")
  /\ UNCHANGED <<res, edges, name, op, work, ops, begun, failures, cut>>

MutGrow(c) ==
  /\ pc[c] = "grow"
  /\ Put(Home[c], target[c], [hit[c] EXCEPT !.embedded = TRUE])
  /\ Goto(c, "record")
  /\ UNCHANGED <<edges, name, hit, target, op, work, ops, begun, failures, cut>>

Grow(c) ==
  /\ pc[c] = "grow"
  /\ Put(Home[c], target[c],
         [hit[c] EXCEPT !.aliases = @ \cup {name[c]}, !.embedded = TRUE])
  /\ Goto(c, "record")
  /\ UNCHANGED <<edges, name, hit, target, op, work, ops, begun, failures, cut>>

MutCreate(c) ==
  /\ pc[c] = "create"
  /\ Used # Ids
  /\ LET i == Cardinality(Used) + 1 IN
       /\ Put(Home[c], i, [name |-> name[c], aliases |-> {NoResource}, by |-> NoResource,
                           embedded |-> TRUE])
       /\ target' = [target EXCEPT ![c] = i]
  /\ Goto(c, "record")
  /\ UNCHANGED <<edges, name, hit, op, work, ops, begun, failures, cut>>

Create(c) ==
  /\ pc[c] = "create"
  /\ Used # Ids
  /\ LET i == Cardinality(Used) + 1 IN
       /\ Put(Home[c], i, [name |-> name[c], aliases |-> {name[c]}, by |-> NoResource,
                           embedded |-> TRUE])
       /\ target' = [target EXCEPT ![c] = i]
  /\ Goto(c, "record")
  /\ UNCHANGED <<edges, name, hit, op, work, ops, begun, failures, cut>>

-----------------------------------------------------------------------------
(* recordOperation: the episode, then its edge.                            *)

Record(c) ==
  /\ pc[c] = "record"
  /\ Goto(c, "edge")
  /\ UNCHANGED <<db, name, hit, target, op, work, ops, begun, failures, cut>>

Return(c) ==
  /\ Goto(c, "idle")
  /\ name' = [name EXCEPT ![c] = NoResource]
  /\ hit' = [hit EXCEPT ![c] = NoResource]
  /\ target' = [target EXCEPT ![c] = NoResource]
  /\ op' = [op EXCEPT ![c] = 0]

Link(c) ==
  /\ pc[c] = "edge"
  /\ edges' = edges \cup {<<op[c], target[c]>>}
  /\ ops' = ops \cup {<<op[c], name[c]>>}
  /\ Return(c)
  /\ UNCHANGED <<res, index, work, begun, failures, cut>>

-----------------------------------------------------------------------------
(* mergeAliases over the live resources, as they were read; the rows in    *)
(* memory follow what the pass itself writes.                              *)

Winner == work.at[1]
Loser  == work.at[2]

\* The loops visit the pairs in the order of the rows, each pair once.
Later(p, q) == p[1] < q[1] \/ (p[1] = q[1] /\ p[2] < q[2])

BeginMerge ==
  /\ work.pc = "idle"
  /\ Overlap \/ Quiescent
  /\ work' = [IdlePass EXCEPT !.pc = "pair",
                              !.live = [i \in {j \in Ids : Live(j)} |-> res[i]]]
  /\ UNCHANGED <<db, calls, ops, begun, failures, cut>>

\* A pair near enough that the LLM confirms; the older entity wins.
Confirm ==
  /\ work.pc = "pair"
  /\ \E i, j \in DOMAIN work.live :
       /\ i < j /\ (InOrder => Later(work.at, <<i, j>>))
       /\ work.live[i].by = NoResource /\ work.live[j].by = NoResource
       /\ <<work.live[i].name, work.live[j].name>> \in MergeNear
       /\ work' = [work EXCEPT !.pc = "absorb", !.at = <<i, j>>]
  /\ UNCHANGED <<db, calls, ops, begun, failures, cut>>

Absorb ==
  /\ work.pc = "absorb"
  /\ LET w == work.live[Winner]
         all == w.aliases \cup work.live[Loser].aliases IN
       /\ work' = [work EXCEPT !.pc = "neighbors", !.live[Winner].aliases = all]
       /\ IF all = w.aliases THEN UNCHANGED <<res, index>>
          ELSE Put(WorkerHome, Winner, [w EXCEPT !.aliases = all, !.embedded = TRUE])
  /\ UNCHANGED <<edges, calls, ops, begun, failures, cut>>

LoserOps == {e[1] : e \in {x \in edges : x[2] = Loser}}

ReadEdges ==
  /\ work.pc = "neighbors"
  /\ work' = [work EXCEPT !.pc = "rebuild", !.todo = LoserOps]
  /\ UNCHANGED <<db, calls, ops, begun, failures, cut>>

\* One edge is written to the winner; after the last the loser is retired.
Rebuild ==
  /\ work.pc = "rebuild"
  /\ \/ \E o \in work.todo :
          /\ edges' = edges \cup {<<o, Winner>>}
          /\ work' = [work EXCEPT !.todo = @ \ {o}]
     \/ /\ work.todo = {}
        /\ work' = [work EXCEPT !.pc = "retire"]
        /\ UNCHANGED edges
  /\ UNCHANGED <<res, index, calls, ops, begun, failures, cut>>

\* Retire: the loser's valid edges are read again, closed one by one, and the
\* row is written back without an embedding.  The index keeps its entry.
RetireLoser ==
  /\ work.pc = "retire"
  /\ work' = [work EXCEPT !.pc = "close", !.todo = LoserOps, !.live[Loser].by = Winner]
  /\ UNCHANGED <<db, calls, ops, begun, failures, cut>>

CloseEdge ==
  /\ work.pc = "close"
  /\ \/ \E o \in work.todo :
          /\ edges' = edges \ {<<o, Loser>>}
          /\ work' = [work EXCEPT !.todo = @ \ {o}]
     \/ /\ work.todo = {}
        /\ work' = [work EXCEPT !.pc = "mark"]
        /\ UNCHANGED edges
  /\ UNCHANGED <<res, index, calls, ops, begun, failures, cut>>

MutMarkLoser ==
  /\ work.pc = "mark"
  /\ res' = [res EXCEPT ![Loser] = [work.live[Loser] EXCEPT !.by = NoResource, !.embedded = FALSE]]
  /\ work' = [work EXCEPT !.pc = "pair"]
  /\ UNCHANGED <<edges, index, calls, ops, begun, failures, cut>>

MarkLoser ==
  /\ work.pc = "mark"
  /\ res' = [res EXCEPT ![Loser] = [work.live[Loser] EXCEPT !.embedded = FALSE]]
  /\ work' = [work EXCEPT !.pc = "pair"]
  /\ UNCHANGED <<edges, index, calls, ops, begun, failures, cut>>

\* No further pair is near enough or confirmed.
EndMerge ==
  /\ work.pc = "pair"
  /\ work' = IdlePass
  /\ UNCHANGED <<db, calls, ops, begun, failures, cut>>

-----------------------------------------------------------------------------

\* An embedder, model or database call fails; what is written stays.
CallFails(c) ==
  /\ failures < MaxFailures
  /\ pc[c] # "idle"
  /\ failures' = failures + 1
  /\ Return(c)
  /\ UNCHANGED <<db, work, ops, begun, cut>>

PassFails ==
  /\ failures < MaxFailures
  /\ work.pc # "idle"
  /\ failures' = failures + 1
  /\ work' = IdlePass
  /\ cut' = TRUE
  /\ UNCHANGED <<db, calls, ops, begun>>

\* A process with no call in progress is restarted; its index is cold.
Restart(p) ==
  /\ failures < MaxFailures
  /\ index[p] # NoResource
  /\ \A c \in Clients : Home[c] = p => pc[c] = "idle"
  /\ p = WorkerHome => work.pc = "idle"
  /\ failures' = failures + 1
  /\ index' = [index EXCEPT ![p] = NoResource]
  /\ UNCHANGED <<res, edges, calls, work, ops, begun, cut>>

\* Any other search of the process warms its index.
OtherSearch(p) ==
  /\ index[p] = NoResource
  /\ index' = [index EXCEPT ![p] = Loaded(p)]
  /\ UNCHANGED <<res, edges, calls, work, ops, begun, failures, cut>>

Call(c) ==
  \/ Search(c)
  \/ Grow(c)
  \/ Create(c)
  \/ Record(c)
  \/ Link(c)

Merge ==
  \/ BeginMerge
  \/ Confirm
  \/ Absorb
  \/ ReadEdges
  \/ Rebuild
  \/ RetireLoser
  \/ CloseEdge
  \/ MarkLoser
  \/ EndMerge

RegistryNext ==
  \/ \E c \in Clients : \/ \E n \in Names : Resolve(c, n)
                        \/ Call(c)
                        \/ CallFails(c)
  \/ Merge
  \/ PassFails
  \/ \E p \in Procs : OtherSearch(p) \/ Restart(p)

RegistrySpec == RegistryInit /\ [][RegistryNext]_registryVars

-----------------------------------------------------------------------------

\* What resolveResourceForRead of process p may answer for n; {} is the
\* fallback to plain recall.
Found(p, n) == IF Matches(n) # {} THEN Foremost(n) ELSE Hits(p, n, ReadNear)

(* Two live entities never answer to one name: what resolution creates and  *)
(* grows, and what a merge absorbs and retires, leave every name with one   *)
(* owner, though processes do not see each other's vectors.  And recall_ops *)
(* answers "how did I last operate on X": an operation whose call succeeded *)
(* under a name is among the neighbours of what that name resolves to,      *)
(* before and after any merge.  Where rows come back in no order that is    *)
(* only so of one of the rows that answer: a name may lead to a loser, whose *)
(* edges are closed.  (A merge pass that is cut short leaves the loser's    *)
(* names with both.)                                                        *)
OneEntityPerName ==
  \A i, j \in Ids : i # j /\ Live(i) /\ Live(j) =>
    ({res[i].name} \cup res[i].aliases) \cap ({res[j].name} \cup res[j].aliases) = {}
OperationsReachable ==
  \A o \in ops, p \in Procs :
    /\ \E i \in Found(p, o[2]) : <<o[1], i>> \in edges
    /\ InOrder => \A i \in Found(p, o[2]) : <<o[1], i>> \in edges
NamesLeadToOperations ==
  Quiescent /\ ~cut => OneEntityPerName /\ OperationsReachable

(* "The loser's still-valid incoming operates_on edges are rebuilt to point *)
(* at the winner": a recorded operation keeps a valid edge to some resource,*)
(* wherever a merge is cut short.                                           *)
OperationsLinked == Quiescent => \A o \in ops : \E i \in Ids : <<o[1], i>> \in edges

-----------------------------------------------------------------------------
(* The promise of Registry.                                                *)

\* The resource a name resolves to, if one answers to it.
LeadsTo(n) == IF Matches(n) = {} THEN NoResource ELSE Min(Matches(n))

\* The winner has taken the loser's aliases, the loser is not yet marked.
HandingOver == work.pc \in {"neighbors", "rebuild", "retire", "close", "mark"}

RG == INSTANCE Registry
        WITH Nobody <- NoResource, Entities <- Ids, Operations <- 1..MaxOps,
             answer <- [n \in Names |-> LeadsTo(n)], filed <- ops, shown <- edges,
             joining <- IF HandingOver THEN {work.at} ELSE {}, torn <- cut

(* Where calls and merge passes follow each other, a name once resolved      *)
(* leads to a resource ever after, and names that lead to one resource stay  *)
(* together, whatever is merged; what was recorded under a name is an        *)
(* operation of the resource it leads to when a merge ends.  Rows come back  *)
(* in the order of their creation: otherwise a name may go back to a loser.  *)
(* A pass that is cut short may leave a loser with its names and its         *)
(* operations.                                                               *)
ImplementsRegistry == RG!Spec

=============================================================================
