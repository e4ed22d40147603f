-------------------------------- MODULE Recall --------------------------------
(***************************************************************************)
(* operations/recall.go: a recall searches the index, reads the rows of    *)
(* the hits, ranks those it may return and, if they do not cover the       *)
(* query, follows the graph from them breadth first.  Each read is a       *)
(* statement of its own: memories are forgotten, linked and superseded in  *)
(* between, and what retires a memory (operations/supersedes.go) is one    *)
(* statement after the other and may stop between any two, so a memory     *)
(* that has a newer version need not be marked.  Scores are abstracted: the *)
(* ranking keeps any of the candidates, and counting accesses, which only  *)
(* feeds the scores, is left out.                                          *)
(***************************************************************************)
EXTENDS Naturals, Sequences, SequencesExt, FiniteSets

CONSTANTS Mems,       \* memories: numbers
          Foreign,    \* those of another workspace
          FileOf,     \* <<symbol, file>>: a code symbol and its file's memory
          Hops,       \* GraphHops (2 by default)
          TopK,       \* results of the first tier
          GraphWrites \* bound: writes by others

ASSUME RecallAssumption ==
  /\ IsFiniteSet(Mems) /\ Mems \subseteq Nat /\ Foreign \subseteq Mems
  /\ FileOf \subseteq Mems \X Mems
  /\ {Hops, TopK, GraphWrites} \subseteq Nat

VARIABLES
  mems,      \* the memories that exist
  superseded, \* memories retired, a newer one named
  graph,     \* current edges [src, dst, rel]; a closed edge is gone
  retiring,  \* the Retire under way: the old memory, the newer one it has still
             \* to name, if any, and the edges it has still to close
  phase,     \* where the recall stands
  hits,      \* what the search returned and has not been read yet
  tier1,     \* candidates, then the first tier
  anchors,   \* results of the first tier still to expand
  frontier,  \* sequence of <<memory, depth>>
  reached, found, \* memories met, and those the expansion returns
  disturbed, \* history: somebody wrote while the recall ran
  graphWrites

recallVars == <<mems, superseded, graph, retiring, phase, hits, tier1, anchors, frontier,
                reached, found, disturbed, graphWrites>>
graphVars == <<mems, superseded, graph, retiring, disturbed, graphWrites>>

Relations == {"related", "supersedes"}
Edges == [src : Mems, rel : Relations, dst : Mems]
Edge(a, r, b) == [src |-> a, rel |-> r, dst |-> b]
NotRetiring == [old |-> {}, newer |-> {}, open |-> {}]
RecallInit ==
  /\ mems = Mems /\ superseded = {}
  /\ graph \in SUBSET {Edge(p[1], "related", p[2]) : p \in {q \in Mems \X Mems : q[1] < q[2]}}
  /\ retiring = NotRetiring
  /\ phase = "idle" /\ hits = {} /\ tier1 = {} /\ anchors = {} /\ frontier = <<>>
  /\ reached = {} /\ found = {} /\ disturbed = FALSE /\ graphWrites = 0

\* Store.Neighbors: current edges in either direction.
NeighborEdges(m) == {e \in graph : m \in {e.src, e.dst}}
MutOtherEnd(m, e) == e.dst
OtherEnd(m, e) == IF e.src = m THEN e.dst ELSE e.src

\* VectorSearch returns any ids: of other workspaces, retired or deleted too.
SearchIndex(H) ==
  /\ phase = "idle"
  /\ phase' = "read" /\ hits' = H
  /\ UNCHANGED <<graphVars, tier1, anchors, frontier, reached, found>>

ReadHit(h) ==
  /\ phase = "read" /\ h \in hits
  /\ hits' = hits \ {h}
  /\ tier1' = IF h \in mems \ (Foreign \cup superseded) THEN tier1 \cup {h} ELSE tier1
  /\ UNCHANGED <<graphVars, phase, anchors, frontier, reached, found>>

\* The recall returns.
Returned ==
  /\ phase' = "idle" /\ hits' = {} /\ tier1' = {} /\ anchors' = {} /\ frontier' = <<>>
  /\ reached' = {} /\ found' = {} /\ disturbed' = FALSE
  /\ UNCHANGED <<mems, superseded, graph, retiring, graphWrites>>

\* rank, and reflect: enough, or the graph is asked.
Rank(T) ==
  /\ phase = "read" /\ hits = {}
  /\ T \subseteq tier1 /\ Cardinality(T) = IF Cardinality(tier1) > TopK THEN TopK
                                          ELSE Cardinality(tier1)
  /\ \/ Returned
     \/ /\ phase' = "expand" /\ tier1' = T /\ anchors' = T /\ reached' = T
        /\ UNCHANGED <<graphVars, hits, frontier, found>>

NextAnchor(a) ==
  /\ phase = "expand" /\ frontier = <<>> /\ a \in anchors
  /\ anchors' = anchors \ {a}
  /\ frontier' = << <<a, 1>> >>
  /\ UNCHANGED <<graphVars, phase, hits, tier1, reached, found>>

InReach(depth) == depth <= Hops

\* What a node leads to that was not met before: the versions that supersede it,
\* and its neighbours.
Newer(m) ==
  {e.dst : e \in {e \in NeighborEdges(m) : e.rel = "supersedes" /\ e.src = m}} \ reached
Around(m) == {OtherEnd(m, e) : e \in NeighborEdges(m)} \ (reached \cup Newer(m))

\* One node of the frontier.  First the versions that supersede it, which are
\* returned but not expanded, then its neighbours, which are both.  A memory of
\* another workspace or one that is gone is met and goes no further.
ExpandNode ==
  LET m == frontier[1][1]  depth == frontier[1][2]
      newer == Newer(m)  other == Around(m)  ours == mems \ Foreign
  IN /\ phase = "expand" /\ frontier # <<>>
     /\ IF InReach(depth)
        THEN /\ reached' = reached \cup newer \cup other
             /\ found' = found \cup ((newer \cup other) \cap ours)
             /\ frontier' = Tail(frontier)
                  \o SetToSeq({<<o, depth + 1>> : o \in other \cap ours})
        ELSE frontier' = Tail(frontier) /\ UNCHANGED <<reached, found>>
     /\ UNCHANGED <<graphVars, phase, hits, tier1, anchors>>

\* The files of the code symbols met, whatever workspace the symbol is of.
Backtrack ==
  LET files == {p[2] : p \in {p \in FileOf : p[1] \in reached \cap mems}}
  IN /\ phase = "expand" /\ anchors = {} /\ frontier = <<>>
     /\ found' = found \cup ((files \cap (mems \ Foreign)) \ reached)
     /\ phase' = "done"
     /\ UNCHANGED <<graphVars, hits, tier1, anchors, frontier, reached>>
Answer == phase = "done" /\ Returned

Counted == graphWrites < GraphWrites /\ graphWrites' = graphWrites + 1
Written == /\ disturbed' = (phase # "idle")
           /\ UNCHANGED <<phase, hits, tier1, anchors, frontier, reached, found>>

\* DeleteMemory takes the edges with it (ON DELETE CASCADE); an edge needs both
\* its ends, and is of any relation.
ForgetMemory(m) ==
  /\ m \in mems /\ mems' = mems \ {m}
  /\ graph' = graph \ NeighborEdges(m) /\ Counted /\ Written /\ UNCHANGED <<superseded, retiring>>
LinkMemories(a, r, b) ==
  /\ {a, b} \subseteq mems
  /\ graph' = graph \cup {Edge(a, r, b)} /\ Counted /\ Written
  /\ UNCHANGED <<mems, superseded, retiring>>

\* Retire, of a memory that was not marked when it was read, in favour of the one
\* of N, if there is one: it reads the current edges ...
RetireMemory(a, N) ==
  /\ retiring = NotRetiring /\ a \in mems \ superseded
  /\ N \subseteq Mems \ {a} /\ Cardinality(N) <= 1
  /\ retiring' = [old |-> {a}, newer |-> N, open |-> NeighborEdges(a)]
  /\ Counted
  /\ UNCHANGED <<mems, superseded, graph, phase, hits, tier1, anchors, frontier, reached,
                 found, disturbed>>
\* ... closes them one by one ...
CloseOld(e) ==
  /\ e \in retiring.open /\ {e.src, e.dst} \subseteq mems
  /\ graph' = graph \ {e} /\ retiring' = [retiring EXCEPT !.open = @ \ {e}]
  /\ Written /\ UNCHANGED <<mems, superseded, graphWrites>>
\* ... links the old one to the newer one ...
NameNewer(a, b) ==
  /\ retiring.open = {} /\ a \in retiring.old \cap mems /\ b \in retiring.newer \cap mems
  /\ graph' = graph \cup {Edge(a, "supersedes", b)}
  /\ retiring' = [retiring EXCEPT !.newer = {}]
  /\ Written /\ UNCHANGED <<mems, superseded, graphWrites>>
\* ... and writes the row, marked: it is back if it was forgotten meanwhile.
MarkOld(a) ==
  /\ retiring.open = {} /\ retiring.newer = {} /\ a \in retiring.old
  /\ superseded' = superseded \cup {a} /\ mems' = mems \cup {a}
  /\ retiring' = NotRetiring
  /\ Written /\ UNCHANGED <<graph, graphWrites>>
\* A statement fails, or the process ends.
RetireStops ==
  /\ retiring # NotRetiring /\ retiring' = NotRetiring
  /\ UNCHANGED <<mems, superseded, graph, phase, hits, tier1, anchors, frontier, reached,
                 found, disturbed, graphWrites>>

RecallNext ==
  \/ \E H \in SUBSET Mems : SearchIndex(H)
  \/ \E h \in Mems : ReadHit(h) \/ NextAnchor(h) \/ ForgetMemory(h)
  \/ \E T \in SUBSET Mems : Rank(T)
  \/ ExpandNode \/ Backtrack \/ Answer
  \/ \E a, b \in Mems, r \in Relations : LinkMemories(a, r, b)
  \/ \E a \in Mems, N \in SUBSET Mems : RetireMemory(a, N)
  \/ \E e \in retiring.open : CloseOld(e)
  \/ \E a, b \in Mems : NameNewer(a, b)
  \/ \E a \in Mems : MarkOld(a)
  \/ RetireStops

RecallSpec == RecallInit /\ [][RecallNext]_recallVars

RecallTypeOK ==
  /\ mems \subseteq Mems /\ superseded \subseteq Mems /\ tier1 \subseteq Mems
  /\ graph \subseteq Edges
  /\ retiring \in [old : SUBSET Mems, newer : SUBSET Mems, open : SUBSET Edges]
  /\ phase \in {"idle", "read", "expand", "done"}
  /\ reached \cup found \subseteq Mems /\ graphWrites \in 0..GraphWrites

Beside(M) ==
  {x \in mems \ Foreign : \E e \in graph : x \in {e.src, e.dst} /\ {e.src, e.dst} \cap M # {}}

Successors(M) == {e.dst : e \in {e \in graph : e.rel = "supersedes" /\ e.src \in M}}

\* What the graph tier returns when nobody writes meanwhile: every memory of the
\* workspace next to a result of the first tier; and, when that tier has one
\* result, every memory within two hops of it, if GraphHops allows as many, but
\* for those behind a version said to supersede it, which is returned and not
\* gone beyond: a result has one when a Retire stopped before its last write, or
\* a caller linked them so.  (With several results the ball is not complete: they
\* share `reached`, and a memory that one of them meets at its last hop is not
\* expanded again for another that is next to it.)
GraphIsFollowed ==
  phase = "done" /\ ~disturbed =>
    /\ Hops >= 1 => Beside(tier1) \subseteq tier1 \cup found
    /\ Hops >= 2 /\ Cardinality(tier1) = 1 =>
         Beside(Beside(tier1) \ Successors(tier1)) \subseteq tier1 \cup found
=============================================================================
