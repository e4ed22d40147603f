------------------------- MODULE ConsolidationProofs -------------------------
(***************************************************************************)
(* For any number of consolidators, memories, aborted passes and restarts: *)
(* what a consolidation pass leaves behind.  What every pass keeps is      *)
(* proved of any number of them, running at once or not; that versions     *)
(* form a chain needs the worker lock, and that a live fact is there once  *)
(* needs a consolidator that is alone and searches that are not crowded.   *)
(***************************************************************************)
EXTENDS Consolidation, FiniteSetTheorems, TLAPS

\* What a pass holds at each point of its program.
Holds(c) ==
  /\ pc[c] \notin {"idle", "select"} => ep[c] \in Memory /\ index[c] \in SUBSET Ids
  /\ pc[c] = "write" => verdict[c] = "ADD" \/ (verdict[c] = "UPDATE" /\ target[c] \in Memory)
  /\ pc[c] \in {"neighbors", "close", "link", "mark"} =>
       /\ target[c] \in Memory
       /\ \/ verdict[c] = "UPDATE" /\ fact[c] \in Ids
          \/ verdict[c] = "DELETE" /\ pc[c] # "link"
  /\ pc[c] = "project" => fact[c] \in Ids

PassInv == \A c \in Consolidators : Holds(c)

\* An id that is, or has been read as, an episode; as a fact.
EpisodeLike(i) ==
  \/ mem[i] # None /\ mem[i].layer = "episodic"
  \/ \E c \in Consolidators : \E m \in todo[c] : m.id = i
  \/ \E c \in Consolidators : ep[c] # None /\ ep[c].id = i
FactLike(i) ==
  \/ mem[i] # None /\ mem[i].layer = "semantic"
  \/ \E c \in Consolidators : target[c] # None /\ target[c].id = i

\* Ids are handed out once: nothing known has an id still to come, and no id
\* is an episode here and a fact there.
KindInv ==
  /\ \A i \in Ids : ~(EpisodeLike(i) /\ FactLike(i))
  /\ \A i \in Ids : EpisodeLike(i) \/ FactLike(i) \/ i \in forgotten => i < next
  /\ \A c \in Consolidators : \A m \in todo[c] : m.row.layer = "episodic"
  /\ \A c \in Consolidators : ep[c] # None => ep[c].row.layer = "episodic"
  /\ \A c \in Consolidators : target[c] # None => target[c].row.layer = "semantic"

\* A fact's content has been learned, also of one that a pass has only read.
FactsLearned ==
  /\ \A i \in Facts : mem[i].content \in learned
  /\ \A c \in Consolidators : target[c] # None => target[c].row.content \in learned

\* Past its write, a pass with no classifier has learned its episode.
EpisodeLearned ==
  ~LLM => \A c \in Consolidators :
    /\ verdict[c] # "DELETE"
    /\ pc[c] \notin {"idle", "select", "write"} => ep[c].row.content \in learned

LearnedInv == FactsLearned /\ EpisodeLearned /\ StampedIsLearned

\* A supersedes edge leaves a fact, which its pass retires at its next write.
EdgeInv ==
  /\ \A e \in edges : EdgeFits(e)
  /\ \A e \in edges : e.relation = "supersedes" =>
       /\ e.src \in Facts
       /\ failures = 0 => \/ IsRetired(mem[e.src])
                          \/ \E c \in Consolidators : pc[c] = "mark" /\ target[c].id = e.src

\* Under the lock, what is left of the target's outgoing versions is what the
\* pass still has to close.
ChainInv ==
  WorkerLock =>
    /\ \A c, d \in Consolidators : c # d => pc[c] = "idle" \/ pc[d] = "idle"
    /\ \A c \in Consolidators, e \in edges :
         e.relation = "supersedes" /\ pc[c] \in {"close", "link"} /\ e.src = target[c].id =>
           pc[c] = "close" /\ e \in open[c]
    /\ SingleSuccessor

\* The one consolidator there is.
Alone == \A c, d \in Consolidators : c = d

\* No more memories share a content than a search returns.
Room == \A text \in Contents : Cardinality(SameContent(text)) <= TopK

\* A live fact has an embedding, and a consolidator that is alone has it in its
\* index.
FoundInv ==
  /\ \A i \in Ids : Live(i) => mem[i].embedded
  /\ Alone => \A c \in Consolidators, i \in Ids :
       Live(i) /\ (index[c] # None \/ pc[c] \notin {"idle", "select"}) => i \in index[c]

\* What a pass is about to write is not there.
OnceInv ==
  /\ NoDuplicateLive
  /\ \A c \in Consolidators, i \in Ids :
       pc[c] = "write" /\ Live(i) => mem[i].content # ep[c].row.content

\* What id i says: in the store, or where a pass has read it.
Says(i, text) ==
  \/ mem[i] # None /\ mem[i].content = text
  \/ \E c \in Consolidators : \E m \in todo[c] : m.id = i /\ m.row.content = text
  \/ \E c \in Consolidators : ep[c] # None /\ ep[c].id = i /\ ep[c].row.content = text
  \/ \E c \in Consolidators : target[c] # None /\ target[c].id = i /\ target[c].row.content = text

\* An id says one thing, however long ago it was read.
WordsInv == \A i \in Ids : \A s, t : Says(i, s) /\ Says(i, t) => s = t

\* Only a client takes a memory away.
GoneInv == \A i \in Ids : i < next /\ mem[i] = None => i \in forgotten

\* A fact read as retired is out of use; an UPDATE that retires its target has
\* written a later fact, which only a client may have taken away since.
TurnInv ==
  \A c \in Consolidators :
    /\ target[c] # None /\ IsRetired(target[c].row) => ~Live(target[c].id)
    /\ pc[c] \in {"neighbors", "close", "link", "mark"} /\ verdict[c] = "UPDATE" =>
         /\ fact[c] \in Facts \cup forgotten
         /\ target[c].id < fact[c] /\ fact[c] < next

\* What the store says to those who record.
SaidInv == WordsInv /\ GoneInv /\ TurnInv

\* What holds of every pass, whatever runs beside it.
IInv == /\ TypeOK /\ PassInv /\ KindInv /\ LearnedInv /\ ForgottenStaysDead /\ EdgeInv
        /\ ChainInv /\ FoundInv
-----------------------------------------------------------------------------
\* What the assumptions say, one by one.
LEMMA Constants ==
  /\ MaxId \in Nat /\ MaxEpisodes \in Nat /\ MaxFailures \in Nat
  /\ LLM \in BOOLEAN /\ WorkerLock \in BOOLEAN
  /\ None \notin Ids /\ None \notin Row /\ None \notin Memory
  BY ConsolidationAssumption, NoneAssumption

USE Constants

\* The initial state is typed, and no pass holds anything.
LEMMA InitTyped == Init => TypeOK /\ PassInv
<1> SUFFICES ASSUME Init PROVE TypeOK /\ PassInv
  OBVIOUS
<1>1. TypeOK
  <2>1. next \in 1..(MaxId + 1) /\ recorded \in 0..MaxEpisodes /\ failures \in 0..MaxFailures
    BY DEF Init
  <2>2. mem \in [Ids -> Row \cup {None}] /\ index \in [Consolidators -> (SUBSET Ids) \cup {None}]
    BY DEF Init
  <2>3. /\ pc \in [Consolidators -> Points] /\ todo \in [Consolidators -> SUBSET Memory]
        /\ ep \in [Consolidators -> Memory \cup {None}] /\ verdict \in [Consolidators -> Verdict]
        /\ target \in [Consolidators -> Memory \cup {None}]
    BY DEF Init, Points, Verdict
  <2>4. /\ fact \in [Consolidators -> Ids \cup {None}] /\ open \in [Consolidators -> SUBSET Edge]
    BY DEF Init
  <2> QED
    BY <2>1, <2>2, <2>3, <2>4 DEF Init, TypeOK
<1>2. PassInv
  BY DEF Init, PassInv, Holds
<1> QED
  BY <1>1, <1>2

\* A pass that leaves holds nothing.
LEMMA LeaveTyped ==
  ASSUME TypeOK, PassInv, NEW c \in Consolidators, Leave(c)
  PROVE  /\ todo' \in [Consolidators -> SUBSET Memory]
         /\ ep' \in [Consolidators -> Memory \cup {None}]
         /\ verdict' \in [Consolidators -> Verdict]
         /\ target' \in [Consolidators -> Memory \cup {None}]
         /\ fact' \in [Consolidators -> Ids \cup {None}]
         /\ open' \in [Consolidators -> SUBSET Edge]
         /\ pc' \in [Consolidators -> Points]
         /\ \A d \in Consolidators : d # c =>
              /\ pc'[d] = pc[d] /\ todo'[d] = todo[d] /\ ep'[d] = ep[d] /\ verdict'[d] = verdict[d]
              /\ target'[d] = target[d] /\ fact'[d] = fact[d] /\ open'[d] = open[d]
         /\ pc'[c] = "idle" /\ todo'[c] = {} /\ ep'[c] = None /\ verdict'[c] = "NOOP"
         /\ target'[c] = None /\ fact'[c] = None /\ open'[c] = {}
  BY DEF TypeOK, Leave, Goto, Points, Verdict

\* An episode as it is recorded is a row.
LEMMA EpisodeRow ==
  ASSUME NEW text \in Contents
  PROVE  /\ Episode(text) \in Row /\ Episode(text).layer = "episodic"
         /\ Episode(text).content = text /\ ~Episode(text).stamped
  BY DEF Episode, Row

\* A fact as it is written is a row.
LEMMA FactRow ==
  ASSUME NEW c \in Consolidators, NEW text \in Contents,
         verdict[c] # "ADD" => target[c] \in Memory
  PROVE  /\ NewFact(c, text) \in Row
         /\ (verdict[c] # "ADD" => target[c].row.layer = "semantic") => NewFact(c, text).layer = "semantic"
         /\ NewFact(c, text).content = text /\ NewFact(c, text).embedded
<1>1. CASE verdict[c] = "ADD"
  BY <1>1 DEF NewFact, Episode, Row
<1>2. CASE verdict[c] # "ADD"
  BY <1>2 DEF NewFact, Memory, Row
<1> QED
  BY <1>1, <1>2

\* A retired fact as it is marked is a row.
MarkedRow(c) == IF verdict[c] = "UPDATE"
                  THEN [target[c].row EXCEPT !.supersededBy = fact[c], !.embedded = FALSE]
                  ELSE [target[c].row EXCEPT !.superseded = TRUE, !.embedded = FALSE]
LEMMA MarkedRowFacts ==
  ASSUME NEW c \in Consolidators, target[c] \in Memory, verdict[c] = "UPDATE" => fact[c] \in Ids
  PROVE  /\ MarkedRow(c) \in Row /\ IsRetired(MarkedRow(c))
         /\ MarkedRow(c).layer = target[c].row.layer /\ MarkedRow(c).content = target[c].row.content
<1>1. target[c].row \in Row /\ target[c].id \in Ids
  BY DEF Memory
<1>2. CASE verdict[c] = "UPDATE"
  BY <1>1, <1>2 DEF MarkedRow, Row, IsRetired
<1>3. CASE verdict[c] # "UPDATE"
  BY <1>1, <1>3 DEF MarkedRow, Row, IsRetired
<1> QED
  BY <1>2, <1>3

\* A stamped episode as it is written back is a row.
StampedRow(c) == [ep[c].row EXCEPT !.stamped = TRUE]
LEMMA StampedRowFacts ==
  ASSUME NEW c \in Consolidators, ep[c] \in Memory
  PROVE  /\ StampedRow(c) \in Row /\ StampedRow(c).stamped
         /\ StampedRow(c).layer = ep[c].row.layer /\ StampedRow(c).content = ep[c].row.content
  BY DEF Memory, Row, StampedRow

\* What a pass that moves alone leaves of the others.
Others(c) == \A d \in Consolidators \ {c} :
  /\ pc'[d] = pc[d] /\ todo'[d] = todo[d] /\ ep'[d] = ep[d] /\ verdict'[d] = verdict[d]
  /\ target'[d] = target[d] /\ fact'[d] = fact[d] /\ open'[d] = open[d] /\ index'[d] = index[d]

\* What a pass holds does not depend on the other passes.
LEMMA OthersHold ==
  ASSUME PassInv, NEW c \in Consolidators, Others(c), Holds(c)'
  PROVE  PassInv'
  BY DEF PassInv, Holds, Others

\* What the index returns are ids, and what is found in it facts.
LEMMA HitsAreIds ==
  ASSUME TypeOK, NEW c \in Consolidators, NEW text,
         NEW similar \in Similar(c, text), NEW v \in Verdicts(similar, text)
  PROVE  /\ Hits(c) \in SUBSET Ids
         /\ similar \subseteq Facts /\ similar \subseteq Hits(c)
         /\ v.act \in Verdict /\ v.top \in similar \cup {None}
<1>1. Hits(c) \in SUBSET Ids
  BY DEF TypeOK, Hits, Facts
<1>2. similar \subseteq Hits(c) \cap Facts
  BY DEF Similar
<1>3. Tops(similar, text) \subseteq similar \cup {None}
  BY DEF Tops
<1>4. v.act \in Verdict /\ v.top \in similar \cup {None}
  BY <1>3 DEF Verdicts, Verdict
<1> QED
  BY <1>1, <1>2, <1>4

\* The snapshot of a row is a memory.
LEMMA SnapshotType ==
  ASSUME TypeOK, NEW i \in Ids, Exists(i)
  PROVE  Snapshot(i) \in Memory /\ Snapshot(i).id = i /\ Snapshot(i).row = mem[i]
  BY DEF TypeOK, Exists, Snapshot, Memory

\* The episode e is taken up with the verdict v.
TakenUp(c, e, v) ==
  /\ v.act = "UPDATE" => v.top # None
  /\ ep' = [ep EXCEPT ![c] = e]
  /\ verdict' = [verdict EXCEPT ![c] = v.act]
  /\ target' = [target EXCEPT ![c] =
       IF v.act \in {"UPDATE", "DELETE"} /\ v.top # None THEN Snapshot(v.top) ELSE None]
  /\ Goto(c, AfterVerdict(v))

\* Classifying skips the episode or takes it up.
LEMMA ClassifyCases ==
  ASSUME NEW c \in Consolidators, Classify(c)
  PROVE  /\ pc[c] = "select"
         /\ index' = [index EXCEPT ![c] = Hits(c)]
         /\ UNCHANGED <<mem, edges, next, recorded, failures, fact, open, history>>
         /\ \E e \in todo[c] :
              /\ todo' = [todo EXCEPT ![c] = @ \ {e}]
              /\ \/ UNCHANGED <<pc, ep, verdict, target>>
                 \/ \E similar \in Similar(c, e.row.content) :
                      \E v \in Verdicts(similar, e.row.content) : TakenUp(c, e, v)
  BY DEF Classify, TakenUp

\* Classifying keeps the types.
LEMMA ClassifyTyped ==
  ASSUME TypeOK, PassInv, NEW c \in Consolidators, Classify(c)
  PROVE  TypeOK' /\ PassInv'
<1>1. PICK e \in todo[c] :
        /\ todo' = [todo EXCEPT ![c] = @ \ {e}]
        /\ \/ UNCHANGED <<pc, ep, verdict, target>>
           \/ \E similar \in Similar(c, e.row.content) :
                \E v \in Verdicts(similar, e.row.content) : TakenUp(c, e, v)
  BY ClassifyCases
<1>2. /\ pc[c] = "select" /\ index' = [index EXCEPT ![c] = Hits(c)]
      /\ UNCHANGED <<mem, edges, next, recorded, failures, fact, open, history>>
  BY ClassifyCases
<1>3. Hits(c) \in SUBSET Ids
  BY DEF TypeOK, Hits, Facts
<1>4. e \in Memory /\ todo' \in [Consolidators -> SUBSET Memory]
  BY <1>1 DEF TypeOK
<1>5. index' \in [Consolidators -> (SUBSET Ids) \cup {None}]
  BY <1>2, <1>3 DEF TypeOK
<1>6. CASE UNCHANGED <<pc, ep, verdict, target>>
  <2>1. TypeOK'
    BY <1>2, <1>4, <1>5, <1>6 DEF TypeOK, history
  <2>2. Holds(c)'
    BY <1>2, <1>6 DEF Holds
  <2>3. Others(c)
    BY <1>1, <1>2, <1>6 DEF Others, TypeOK
  <2> QED
    BY <2>1, <2>2, <2>3, OthersHold
<1>7. ASSUME NEW similar \in Similar(c, e.row.content),
             NEW v \in Verdicts(similar, e.row.content), TakenUp(c, e, v)
      PROVE  TypeOK' /\ PassInv'
  <2>1. v.act \in Verdict /\ v.top \in Ids \cup {None} /\ (v.top # None => v.top \in Facts)
    BY HitsAreIds
  <2>2. v.top # None => Snapshot(v.top) \in Memory
    BY <2>1, SnapshotType DEF Facts
  <2>3. /\ ep' \in [Consolidators -> Memory \cup {None}]
        /\ verdict' \in [Consolidators -> Verdict]
        /\ target' \in [Consolidators -> Memory \cup {None}]
    BY <1>4, <1>7, <2>1, <2>2 DEF TypeOK, TakenUp
  <2>4. AfterVerdict(v) \in {"write", "neighbors", "stamp"}
    BY DEF AfterVerdict
  <2>5. pc' = [pc EXCEPT ![c] = AfterVerdict(v)] /\ pc' \in [Consolidators -> Points]
    BY <1>7, <2>4 DEF TypeOK, TakenUp, Goto, Points
  <2>6. /\ ep'[c] = e /\ verdict'[c] = v.act /\ pc'[c] = AfterVerdict(v)
        /\ target'[c] = IF v.act \in {"UPDATE", "DELETE"} /\ v.top # None
                        THEN Snapshot(v.top) ELSE None
        /\ index'[c] = Hits(c)
    BY <1>2, <1>7, <2>5 DEF TypeOK, TakenUp
  <2>7. Holds(c)'
    <3>1. pc'[c] = "write" => v.act = "ADD" \/ (v.act = "UPDATE" /\ v.top # None)
      BY <1>7, <2>6 DEF AfterVerdict, TakenUp
    <3>2. pc'[c] = "neighbors" => v.act = "DELETE" /\ v.top # None
      BY <2>6 DEF AfterVerdict
    <3> QED
      BY <1>3, <1>4, <2>2, <2>4, <2>6, <3>1, <3>2 DEF Holds
  <2>8. Others(c)
    BY <1>1, <1>2, <1>7, <2>5 DEF Others, TypeOK, TakenUp
  <2>9. PassInv'
    BY <2>7, <2>8, OthersHold
  <2>10. TypeOK'
    <3> SUFFICES ASSUME NEW d \in Consolidators
                 PROVE  /\ pc'[d] \notin {"idle", "select"} => ep'[d] # None
                        /\ pc'[d] \in {"neighbors", "close", "link", "mark"} => target'[d] # None
                        /\ pc'[d] \in {"link", "project"} => fact'[d] # None
      BY <1>2, <1>4, <1>5, <2>3, <2>5 DEF TypeOK, history
    <3> QED
      BY <2>9 DEF PassInv, Holds
  <2> QED
    BY <2>9, <2>10
<1> QED
  BY <1>1, <1>6, <1>7

\* The variables are of their types, what a pass holds left aside.
Typed ==
  /\ mem \in [Ids -> Row \cup {None}] /\ edges \subseteq Edge /\ next \in 1..(MaxId + 1)
  /\ index \in [Consolidators -> (SUBSET Ids) \cup {None}]
  /\ recorded \in 0..MaxEpisodes /\ failures \in 0..MaxFailures
  /\ pc \in [Consolidators -> Points]
  /\ todo \in [Consolidators -> SUBSET Memory]
  /\ ep \in [Consolidators -> Memory \cup {None}]
  /\ verdict \in [Consolidators -> Verdict]
  /\ target \in [Consolidators -> Memory \cup {None}]
  /\ fact \in [Consolidators -> Ids \cup {None}]
  /\ open \in [Consolidators -> SUBSET Edge]
  /\ learned \subseteq Contents /\ forgotten \subseteq Ids

LEMMA TypedAndHeld == Typed /\ PassInv => TypeOK
  BY DEF Typed, PassInv, Holds, TypeOK

LEMMA TypedIs == TypeOK => Typed
  BY DEF Typed, TypeOK

\* The clients keep the types.
LEMMA ClientsTyped ==
  ASSUME TypeOK, PassInv,
         (\E text \in Contents : Record(text)) \/ (\E i \in Ids : Forget(i)) \/ UNCHANGED vars
  PROVE  Typed' /\ PassInv'
<1> USE DEF TypeOK, Typed, PassInv, Holds, store, pass, history
<1>1. ASSUME NEW text \in Contents, Record(text) PROVE Typed' /\ PassInv'
  <2>1. mem' \in [Ids -> Row \cup {None}]
    BY <1>1, EpisodeRow DEF Record, PutMemory
  <2>2. next' \in 1..(MaxId + 1) /\ recorded' \in 0..MaxEpisodes
    BY <1>1 DEF Record
  <2> QED
    BY <1>1, <2>1, <2>2 DEF Record
<1>2. ASSUME NEW i \in Ids, Forget(i) PROVE Typed' /\ PassInv'
  BY <1>2 DEF Forget, PutMemory
<1>3. CASE UNCHANGED vars
  BY <1>3 DEF vars
<1> QED
  BY <1>1, <1>2, <1>3

\* A pass that begins or ends keeps the types.
LEMMA EndsTyped ==
  ASSUME TypeOK, PassInv, NEW c \in Consolidators,
         Begin(c) \/ Finish(c) \/ EdgeError(c) \/ Abort(c) \/ Restart(c)
  PROVE  Typed' /\ PassInv'
<1>1. CASE Begin(c)
  <2>1. {Snapshot(i) : i \in Pending} \subseteq Memory
    BY SnapshotType DEF Pending, Episodes
  <2>2. Typed'
    BY <1>1, <2>1 DEF Begin, TypeOK, Typed, Goto, Points, store, history
  <2>3. Others(c) /\ Holds(c)'
    BY <1>1 DEF Begin, TypeOK, Others, Holds, Goto, store
  <2> QED
    BY <2>2, <2>3, OthersHold
<1>2. ASSUME Leave(c), UNCHANGED <<mem, edges, next, recorded, history>>,
             failures' \in 0..MaxFailures, index' = index \/ index' = [index EXCEPT ![c] = None]
      PROVE  Typed' /\ PassInv'
  <2>1. Typed'
    BY <1>2, LeaveTyped DEF TypeOK, Typed, history
  <2>2. Others(c) /\ Holds(c)'
    BY <1>2, LeaveTyped DEF TypeOK, Others, Holds
  <2> QED
    BY <2>1, <2>2, OthersHold
<1>3. CASE Finish(c) \/ EdgeError(c)
  BY <1>2, <1>3 DEF Finish, EdgeError, store, TypeOK
<1>4. CASE Abort(c) \/ Restart(c)
  BY <1>2, <1>4 DEF Abort, Restart, TypeOK
<1> QED
  BY <1>1, <1>3, <1>4

\* Writing the fact keeps the types.
LEMMA WriteFactTyped ==
  ASSUME TypeOK, PassInv, NEW c \in Consolidators, WriteFact(c)
  PROVE  Typed' /\ PassInv'
<1>1. PICK text \in IF LLM THEN Contents ELSE {ep[c].row.content} :
        mem' = [mem EXCEPT ![next] = NewFact(c, text)] /\ learned' = learned \cup {text}
  BY DEF WriteFact, PutMemory
<1>2. text \in Contents /\ ep[c] \in Memory /\ index[c] \in SUBSET Ids
  BY DEF WriteFact, PassInv, Holds, Memory, Row
<1>3. NewFact(c, text) \in Row
  BY <1>2, FactRow DEF WriteFact, PassInv, Holds
<1>4. next \in Ids /\ next' \in 1..(MaxId + 1)
  BY DEF WriteFact, TypeOK, Ids
<1>5. mem' \in [Ids -> Row \cup {None}] /\ learned' \subseteq Contents
  BY <1>1, <1>2, <1>3 DEF TypeOK
<1>6. index' = [index EXCEPT ![c] = index[c] \cup {next}] /\ fact' = [fact EXCEPT ![c] = next]
  BY DEF WriteFact
<1>7. index' \in [Consolidators -> (SUBSET Ids) \cup {None}] /\ fact' \in [Consolidators -> Ids \cup {None}]
  BY <1>2, <1>4, <1>6 DEF TypeOK
<1>8. Typed'
  BY <1>4, <1>5, <1>7 DEF WriteFact, TypeOK, Typed, Goto, Points
<1>9. Others(c) /\ Holds(c)'
  BY <1>2, <1>4, <1>6 DEF WriteFact, TypeOK, PassInv, Others, Holds, Goto
<1> QED
  BY <1>8, <1>9, OthersHold

\* Retiring the target, linking the versions and the provenance keep the types.
LEMMA EdgesTyped ==
  ASSUME TypeOK, PassInv, NEW c \in Consolidators,
         RetireNeighbors(c) \/ CloseEdge(c) \/ Closed(c) \/ Link(c) \/ Project(c)
  PROVE  Typed' /\ PassInv'
<1>1. CASE RetireNeighbors(c)
  <2>1. Typed'
    BY <1>1 DEF RetireNeighbors, Neighbors, TypeOK, Typed, Goto, Points, store, history
  <2>2. Others(c) /\ Holds(c)'
    BY <1>1 DEF RetireNeighbors, TypeOK, PassInv, Others, Holds, Goto, store
  <2> QED
    BY <2>1, <2>2, OthersHold
<1>2. CASE CloseEdge(c)
  <2>1. Typed'
    BY <1>2 DEF CloseEdge, TypeOK, Typed, history
  <2>2. Others(c) /\ Holds(c)'
    BY <1>2 DEF CloseEdge, TypeOK, PassInv, Others, Holds
  <2> QED
    BY <2>1, <2>2, OthersHold
<1>3. CASE Closed(c)
  <2>1. Typed'
    BY <1>3 DEF Closed, TypeOK, Typed, Goto, Points, store, history
  <2>2. Others(c) /\ Holds(c)'
    BY <1>3 DEF Closed, TypeOK, PassInv, Others, Holds, Goto, store
  <2> QED
    BY <2>1, <2>2, OthersHold
<1>4. CASE Link(c)
  <2>1. Supersedes(c) \in Edge
    BY <1>4 DEF Link, PassInv, Holds, Supersedes, Memory, Edge
  <2>2. Typed'
    BY <1>4, <2>1 DEF Link, TypeOK, Typed, Goto, Points, history
  <2>3. Others(c) /\ Holds(c)'
    BY <1>4 DEF Link, TypeOK, PassInv, Others, Holds, Goto
  <2> QED
    BY <2>2, <2>3, OthersHold
<1>5. CASE Project(c)
  <2>1. Provenance(c) \in Edge
    BY <1>5 DEF Project, PassInv, Holds, Provenance, Memory, Edge
  <2>2. Typed'
    BY <1>5, <2>1 DEF Project, TypeOK, Typed, Goto, Points, history
  <2>3. Others(c) /\ Holds(c)'
    BY <1>5 DEF Project, TypeOK, PassInv, Others, Holds, Goto
  <2> QED
    BY <2>2, <2>3, OthersHold
<1> QED
  BY <1>1, <1>2, <1>3, <1>4, <1>5

\* The last two writes, of the target's row and of the episode's, keep the types.
LEMMA RowsTyped ==
  ASSUME TypeOK, PassInv, NEW c \in Consolidators, Mark(c) \/ Stamp(c)
  PROVE  Typed' /\ PassInv'
<1>1. CASE Mark(c)
  <2>1. target[c] \in Memory /\ (verdict[c] = "UPDATE" => fact[c] \in Ids) /\ target[c].id \in Ids
    BY <1>1 DEF Mark, PassInv, Holds, Memory
  <2>2. mem' = [mem EXCEPT ![target[c].id] = MarkedRow(c)]
    BY <1>1 DEF Mark, PutMemory, MarkedRow
  <2>3. mem' \in [Ids -> Row \cup {None}]
    BY <2>1, <2>2, MarkedRowFacts DEF TypeOK
  <2>4. Typed'
    BY <1>1, <2>3 DEF Mark, TypeOK, Typed, Goto, Points, history
  <2>5. Others(c) /\ Holds(c)'
    BY <1>1 DEF Mark, TypeOK, PassInv, Others, Holds, Goto
  <2> QED
    BY <2>4, <2>5, OthersHold
<1>2. CASE Stamp(c)
  <2>1. ep[c] \in Memory /\ ep[c].id \in Ids
    BY <1>2 DEF Stamp, PassInv, Holds, Memory
  <2>2. mem' = [mem EXCEPT ![ep[c].id] = StampedRow(c)]
    BY <1>2 DEF Stamp, PutMemory, StampedRow
  <2>3. mem' \in [Ids -> Row \cup {None}]
    BY <2>1, <2>2, StampedRowFacts DEF TypeOK
  <2>4. Typed'
    BY <1>2, <2>3 DEF Stamp, TypeOK, Typed, Goto, Points, Verdict, history
  <2>5. Others(c) /\ Holds(c)'
    BY <1>2 DEF Stamp, TypeOK, PassInv, Others, Holds, Goto
  <2> QED
    BY <2>4, <2>5, OthersHold
<1> QED
  BY <1>1, <1>2

\* Every step keeps the types and what a pass holds.
LEMMA NextTyped == TypeOK /\ PassInv /\ [Next]_vars => TypeOK' /\ PassInv'
<1>0. Typed' /\ PassInv' => TypeOK'
  BY DEF Typed, PassInv, Holds, TypeOK
<1> SUFFICES ASSUME TypeOK, PassInv, [Next]_vars PROVE TypeOK' /\ PassInv'
  OBVIOUS
<1>1. CASE (\E text \in Contents : Record(text)) \/ (\E i \in Ids : Forget(i)) \/ UNCHANGED vars
  BY <1>0, <1>1, ClientsTyped
<1>2. ASSUME NEW c \in Consolidators, Begin(c) \/ Work(c) \/ Abort(c) \/ Restart(c)
      PROVE  TypeOK' /\ PassInv'
  <2>1. CASE Classify(c)
    BY <2>1, ClassifyTyped
  <2>2. CASE ~Classify(c)
    BY <1>0, <1>2, <2>2, EndsTyped, WriteFactTyped, EdgesTyped, RowsTyped DEF Work
  <2> QED
    BY <2>1, <2>2
<1> QED
  BY <1>1, <1>2 DEF Next

\* Type correctness, of any number of passes at once.
THEOREM TypeCorrect == Spec => []TypeOK
<1>1. Init => TypeOK /\ PassInv
  BY InitTyped
<1>2. (TypeOK /\ PassInv) /\ [Next]_vars => (TypeOK /\ PassInv)'
  BY NextTyped
<1> QED
  BY <1>1, <1>2, PTL DEF Spec

-----------------------------------------------------------------------------
(* Episodes and facts keep apart.                                          *)

\* The ids and rows a step leaves are of a kind they were of before, or new.
LEMMA KindKept ==
  ASSUME TypeOK, TypeOK', KindInv, next' \in {next, next + 1},
         \A i \in Ids : mem'[i] # None =>
           /\ mem'[i].layer = "episodic" => EpisodeLike(i) \/ (i = next /\ next' = next + 1)
           /\ mem'[i].layer = "semantic" => FactLike(i) \/ (i = next /\ next' = next + 1),
         \A d \in Consolidators : \A m \in todo'[d] : EpisodeLike(m.id) /\ m.row.layer = "episodic",
         \A d \in Consolidators :
           ep'[d] # None => EpisodeLike(ep'[d].id) /\ ep'[d].row.layer = "episodic",
         \A d \in Consolidators :
           target'[d] # None => FactLike(target'[d].id) /\ target'[d].row.layer = "semantic",
         \A i \in forgotten' : i \in forgotten \/ EpisodeLike(i) \/ FactLike(i)
  PROVE  KindInv'
<1>1. next \in Nat /\ next' \in Nat
  BY DEF TypeOK
<1>2. ASSUME NEW i \in Ids, EpisodeLike(i)'
      PROVE  EpisodeLike(i) \/ (i = next /\ next' = next + 1 /\ mem'[i] # None /\ mem'[i].layer = "episodic")
  BY <1>2 DEF EpisodeLike
<1>3. ASSUME NEW i \in Ids, FactLike(i)'
      PROVE  FactLike(i) \/ (i = next /\ next' = next + 1 /\ mem'[i] # None /\ mem'[i].layer = "semantic")
  BY <1>3 DEF FactLike
<1>4. next \in Ids => ~EpisodeLike(next) /\ ~FactLike(next)
  BY <1>1 DEF KindInv
<1>5. \A i \in Ids : ~(EpisodeLike(i)' /\ FactLike(i)')
  BY <1>2, <1>3, <1>4 DEF KindInv
<1>6. \A i \in Ids : EpisodeLike(i)' \/ FactLike(i)' \/ i \in forgotten' => i < next'
  BY <1>1, <1>2, <1>3 DEF KindInv, Ids
<1> QED
  BY <1>5, <1>6 DEF KindInv

\* What is read in a state is of its kind there.
LEMMA KindsOfState ==
  ASSUME TypeOK, KindInv
  PROVE  /\ \A i \in Ids : mem[i] # None =>
              /\ mem[i].layer = "episodic" => EpisodeLike(i)
              /\ mem[i].layer = "semantic" => FactLike(i)
         /\ \A d \in Consolidators : \A m \in todo[d] : EpisodeLike(m.id) /\ m.row.layer = "episodic"
         /\ \A d \in Consolidators :
              ep[d] # None => EpisodeLike(ep[d].id) /\ ep[d].row.layer = "episodic"
         /\ \A d \in Consolidators :
              target[d] # None => FactLike(target[d].id) /\ target[d].row.layer = "semantic"
<1>1. \A d \in Consolidators : \A m \in todo[d] : m.id \in Ids
  BY DEF TypeOK, Memory
<1>2. \A d \in Consolidators : /\ ep[d] # None => ep[d].id \in Ids
                               /\ target[d] # None => target[d].id \in Ids
  BY DEF TypeOK, Memory
<1> QED
  BY <1>1, <1>2 DEF KindInv, EpisodeLike, FactLike

\* The clients, and a pass that only moves edges, keep the kinds apart.
LEMMA ClientsKind ==
  ASSUME TypeOK, TypeOK', KindInv,
         (\E text \in Contents : Record(text)) \/ (\E i \in Ids : Forget(i))
  PROVE  KindInv'
<1>0. next \in Nat
  BY DEF TypeOK
<1>1. ASSUME NEW text \in Contents, Record(text) PROVE KindInv'
  <2>1. mem' = [mem EXCEPT ![next] = Episode(text)] /\ next' = next + 1
        /\ UNCHANGED <<todo, ep, target, forgotten>>
    BY <1>1 DEF Record, PutMemory, pass, history
  <2>2. \A i \in Ids : mem'[i] # None =>
           /\ mem'[i].layer = "episodic" => EpisodeLike(i) \/ (i = next /\ next' = next + 1)
           /\ mem'[i].layer = "semantic" => FactLike(i) \/ (i = next /\ next' = next + 1)
    BY <2>1, KindsOfState DEF TypeOK
  <2> QED
    BY <2>1, <2>2, KindsOfState, KindKept
<1>2. ASSUME NEW j \in Ids, Forget(j) PROVE KindInv'
  <2>1. /\ mem' = [mem EXCEPT ![j] = None] /\ next' = next /\ Exists(j)
        /\ UNCHANGED <<todo, ep, target>> /\ forgotten' = forgotten \cup {j}
    BY <1>2 DEF Forget, PutMemory, pass, history
  <2>2. \A i \in Ids : mem'[i] # None =>
           /\ mem'[i].layer = "episodic" => EpisodeLike(i) \/ (i = next /\ next' = next + 1)
           /\ mem'[i].layer = "semantic" => FactLike(i) \/ (i = next /\ next' = next + 1)
    BY <2>1, KindsOfState DEF TypeOK
  <2>3. mem[j].layer \in {"episodic", "semantic"}
    BY <2>1 DEF TypeOK, Exists, Row
  <2>4. EpisodeLike(j) \/ FactLike(j)
    BY <2>1, <2>3, KindsOfState DEF Exists
  <2> QED
    BY <2>1, <2>2, <2>4, KindsOfState, KindKept
<1> QED
  BY <1>1, <1>2

\* A step that reads no row and writes none keeps the kinds apart.
LEMMA SameRowsKind ==
  ASSUME TypeOK, TypeOK', KindInv, UNCHANGED <<mem, next, forgotten>>,
         \A d \in Consolidators : /\ todo'[d] \subseteq todo[d]
                                  /\ ep'[d] \in {ep[d], None}
                                  /\ target'[d] \in {target[d], None}
  PROVE  KindInv'
  BY KindsOfState, KindKept

\* Passes that begin, move on or end keep the kinds apart.
LEMMA EndsKind ==
  ASSUME TypeOK, TypeOK', PassInv, KindInv, NEW c \in Consolidators,
         Begin(c) \/ Finish(c) \/ EdgeError(c) \/ Abort(c) \/ Restart(c)
  PROVE  KindInv'
<1>1. CASE Begin(c)
  <2>1. /\ UNCHANGED <<mem, next, ep, target, forgotten>>
        /\ todo' = [todo EXCEPT ![c] = {Snapshot(i) : i \in Pending}]
    BY <1>1 DEF Begin, store, history
  <2>2. ASSUME NEW i \in Pending
        PROVE  EpisodeLike(Snapshot(i).id) /\ Snapshot(i).row.layer = "episodic"
    <3>1. i \in Ids /\ Exists(i) /\ mem[i].layer = "episodic"
      BY DEF Pending, Episodes
    <3> QED
      BY <3>1, SnapshotType, KindsOfState DEF Exists
  <2>3. \A d \in Consolidators : \A m \in todo'[d] : EpisodeLike(m.id) /\ m.row.layer = "episodic"
    BY <2>1, <2>2, KindsOfState DEF TypeOK
  <2> QED
    BY <2>1, <2>3, KindsOfState, KindKept
<1>2. CASE Finish(c) \/ EdgeError(c) \/ Abort(c) \/ Restart(c)
  <2>1. Leave(c) /\ UNCHANGED <<mem, next, forgotten>>
    BY <1>2 DEF Finish, EdgeError, Abort, Restart, store, history
  <2>2. \A d \in Consolidators : /\ todo'[d] \subseteq todo[d]
                                 /\ ep'[d] \in {ep[d], None}
                                 /\ target'[d] \in {target[d], None}
    BY <2>1, LeaveTyped
  <2> QED
    BY <2>1, <2>2, SameRowsKind
<1> QED
  BY <1>1, <1>2

\* Classifying reads a fact, and keeps the kinds apart.
LEMMA ClassifyKind ==
  ASSUME TypeOK, TypeOK', KindInv, NEW c \in Consolidators, Classify(c)
  PROVE  KindInv'
<1>1. PICK e \in todo[c] :
        /\ todo' = [todo EXCEPT ![c] = @ \ {e}]
        /\ \/ UNCHANGED <<pc, ep, verdict, target>>
           \/ \E similar \in Similar(c, e.row.content) :
                \E v \in Verdicts(similar, e.row.content) : TakenUp(c, e, v)
  BY ClassifyCases
<1>2. UNCHANGED <<mem, next, forgotten>>
  BY ClassifyCases DEF history
<1>3. \A d \in Consolidators : todo'[d] \subseteq todo[d]
  BY <1>1 DEF TypeOK
<1>4. CASE UNCHANGED <<pc, ep, verdict, target>>
  BY <1>2, <1>3, <1>4, SameRowsKind
<1>5. ASSUME NEW similar \in Similar(c, e.row.content),
             NEW v \in Verdicts(similar, e.row.content), TakenUp(c, e, v)
      PROVE  KindInv'
  <2>1. v.top # None => v.top \in Facts
    BY HitsAreIds
  <2>2. v.top # None => FactLike(Snapshot(v.top).id) /\ Snapshot(v.top).row.layer = "semantic"
    BY <2>1, SnapshotType, KindsOfState DEF Facts, Exists
  <2>3. \A d \in Consolidators :
           target'[d] # None => FactLike(target'[d].id) /\ target'[d].row.layer = "semantic"
    BY <1>5, <2>2, KindsOfState DEF TakenUp, TypeOK
  <2>4. \A d \in Consolidators :
           ep'[d] # None => EpisodeLike(ep'[d].id) /\ ep'[d].row.layer = "episodic"
    BY <1>5, KindsOfState DEF TakenUp, TypeOK
  <2>5. \A d \in Consolidators : \A m \in todo'[d] : EpisodeLike(m.id) /\ m.row.layer = "episodic"
    BY <1>3, KindsOfState
  <2> QED
    BY <1>2, <2>3, <2>4, <2>5, KindsOfState, KindKept
<1> QED
  BY <1>1, <1>4, <1>5

\* The writes of rows keep the kinds apart.
LEMMA RowsKind ==
  ASSUME TypeOK, TypeOK', PassInv, KindInv, NEW c \in Consolidators,
         WriteFact(c) \/ Mark(c) \/ Stamp(c)
  PROVE  KindInv'
<1>1. CASE WriteFact(c)
  <2>1. PICK text \in IF LLM THEN Contents ELSE {ep[c].row.content} :
          mem' = [mem EXCEPT ![next] = NewFact(c, text)]
    BY <1>1 DEF WriteFact, PutMemory
  <2>2. UNCHANGED <<todo, ep, target, forgotten>> /\ next' = next + 1
    BY <1>1 DEF WriteFact
  <2>3. \A i \in Ids : mem'[i] # None =>
           /\ mem'[i].layer = "episodic" => EpisodeLike(i) \/ (i = next /\ next' = next + 1)
           /\ mem'[i].layer = "semantic" => FactLike(i) \/ (i = next /\ next' = next + 1)
    BY <2>1, <2>2, KindsOfState DEF TypeOK
  <2> QED
    BY <2>2, <2>3, KindsOfState, KindKept
<1>2. CASE Mark(c)
  <2>1. /\ target[c] \in Memory /\ (verdict[c] = "UPDATE" => fact[c] \in Ids)
        /\ mem' = [mem EXCEPT ![target[c].id] = MarkedRow(c)]
        /\ UNCHANGED <<next, todo, ep, target, forgotten>>
    BY <1>2 DEF Mark, PassInv, Holds, PutMemory, MarkedRow, history
  <2>2. MarkedRow(c).layer = "semantic" /\ FactLike(target[c].id)
    BY <2>1, MarkedRowFacts, KindsOfState
  <2>3. \A i \in Ids : mem'[i] # None =>
           /\ mem'[i].layer = "episodic" => EpisodeLike(i)
           /\ mem'[i].layer = "semantic" => FactLike(i)
    BY <2>1, <2>2, KindsOfState DEF TypeOK
  <2> QED
    BY <2>1, <2>3, KindsOfState, KindKept
<1>3. CASE Stamp(c)
  <2>1. /\ ep[c] \in Memory
        /\ mem' = [mem EXCEPT ![ep[c].id] = StampedRow(c)]
        /\ UNCHANGED <<next, todo, forgotten>>
        /\ ep' = [ep EXCEPT ![c] = None] /\ target' = [target EXCEPT ![c] = None]
    BY <1>3 DEF Stamp, PassInv, Holds, PutMemory, StampedRow, history
  <2>2. StampedRow(c).layer = "episodic" /\ EpisodeLike(ep[c].id)
    BY <2>1, StampedRowFacts, KindsOfState
  <2>3. \A i \in Ids : mem'[i] # None =>
           /\ mem'[i].layer = "episodic" => EpisodeLike(i)
           /\ mem'[i].layer = "semantic" => FactLike(i)
    BY <2>1, <2>2, KindsOfState DEF TypeOK
  <2>4. \A d \in Consolidators : /\ ep'[d] \in {ep[d], None}
                                 /\ target'[d] \in {target[d], None}
    BY <2>1 DEF TypeOK
  <2> QED
    BY <2>1, <2>3, <2>4, KindsOfState, KindKept
<1> QED
  BY <1>1, <1>2, <1>3

\* Every step keeps the kinds apart.
LEMMA NextKind ==
  ASSUME TypeOK, TypeOK', PassInv, KindInv, [Next]_vars
  PROVE  KindInv'
<1>1. ASSUME NEW c \in Consolidators,
             RetireNeighbors(c) \/ CloseEdge(c) \/ Closed(c) \/ Link(c) \/ Project(c)
      PROVE  KindInv'
  <2>1. UNCHANGED <<mem, next, forgotten, todo, ep, target>>
    BY <1>1 DEF RetireNeighbors, CloseEdge, Closed, Link, Project, store, history
  <2> QED
    BY <2>1, SameRowsKind
<1>2. CASE UNCHANGED vars
  <2>1. UNCHANGED <<mem, next, forgotten, todo, ep, target>>
    BY <1>2 DEF vars, store, pass, history
  <2> QED
    BY <2>1, SameRowsKind
<1> QED
  BY <1>1, <1>2, ClientsKind, EndsKind, ClassifyKind, RowsKind DEF Next, Work

-----------------------------------------------------------------------------
(* What is stamped has been learned.                                       *)

\* A step learns what it writes as a fact, and stamps what has been learned.
LEMMA LearnedKept ==
  ASSUME FactsLearned, StampedIsLearned, learned \subseteq learned',
         \A i \in Ids : \/ mem'[i] = mem[i] \/ mem'[i] = None
                        \/ mem'[i].layer = "semantic" /\ mem'[i].content \in learned'
                        \/ /\ mem'[i].layer = "episodic"
                           /\ ~LLM /\ mem'[i].stamped => mem'[i].content \in learned',
         \A d \in Consolidators :
           \/ target'[d] = target[d] \/ target'[d] = None
           \/ target'[d].row.content \in learned'
  PROVE  FactsLearned' /\ StampedIsLearned'
<1>1. ASSUME NEW i \in Facts' PROVE mem'[i].content \in learned'
  BY <1>1 DEF Facts, Exists, FactsLearned
<1>2. ASSUME ~LLM, NEW i \in Episodes', mem'[i].stamped PROVE mem'[i].content \in learned'
  BY <1>2 DEF Episodes, Exists, StampedIsLearned
<1>3. ASSUME NEW d \in Consolidators, target'[d] # None PROVE target'[d].row.content \in learned'
  BY <1>3 DEF FactsLearned
<1> QED
  BY <1>1, <1>2, <1>3 DEF FactsLearned, StampedIsLearned

\* A verdict without a classifier: no DELETE, and a NOOP has been learned.
LEMMA OfflineVerdict ==
  ASSUME TypeOK, FactsLearned, ~LLM, NEW c \in Consolidators, NEW text,
         NEW similar \in Similar(c, text), NEW v \in Verdicts(similar, text)
  PROVE  v.act # "DELETE" /\ (v.act = "NOOP" => text \in learned)
<1>1. similar \subseteq Facts
  BY HitsAreIds
<1>2. CASE \E i \in similar : mem[i].content = text
  BY <1>1, <1>2 DEF FactsLearned, Verdicts
<1>3. CASE ~\E i \in similar : mem[i].content = text
  BY <1>3 DEF Verdicts
<1> QED
  BY <1>2, <1>3

\* Every step keeps what is learned.
LEMMA NextLearned ==
  ASSUME TypeOK, TypeOK', PassInv, KindInv, LearnedInv, [Next]_vars
  PROVE  LearnedInv'
<1> USE DEF LearnedInv
<1>1. ASSUME NEW text \in Contents, Record(text) PROVE LearnedInv'
  <2>1. /\ mem' = [mem EXCEPT ![next] = Episode(text)]
        /\ UNCHANGED <<pc, ep, verdict, target, learned>>
    BY <1>1 DEF Record, PutMemory, pass, history
  <2>2. \A i \in Ids : mem'[i] = mem[i] \/ (mem'[i].layer = "episodic" /\ ~mem'[i].stamped)
    BY <2>1, EpisodeRow DEF TypeOK
  <2> QED
    BY <2>1, <2>2, LearnedKept DEF EpisodeLearned
<1>2. ASSUME NEW j \in Ids, Forget(j) PROVE LearnedInv'
  <2>1. mem' = [mem EXCEPT ![j] = None] /\ UNCHANGED <<pc, ep, verdict, target, learned>>
    BY <1>2 DEF Forget, PutMemory, pass, history
  <2>2. \A i \in Ids : mem'[i] = mem[i] \/ mem'[i] = None
    BY <2>1 DEF TypeOK
  <2> QED
    BY <2>1, <2>2, LearnedKept DEF EpisodeLearned
<1>3. ASSUME NEW c \in Consolidators, Begin(c) PROVE LearnedInv'
  <2>1. UNCHANGED <<mem, ep, verdict, target, learned>> /\ pc' = [pc EXCEPT ![c] = "select"]
    BY <1>3 DEF Begin, Goto, store, history
  <2> QED
    BY <2>1, LearnedKept DEF EpisodeLearned, TypeOK
<1>4. ASSUME NEW c \in Consolidators, Finish(c) \/ EdgeError(c) \/ Abort(c) \/ Restart(c)
      PROVE  LearnedInv'
  <2>1. Leave(c) /\ UNCHANGED <<mem, learned>>
    BY <1>4 DEF Finish, EdgeError, Abort, Restart, store, history
  <2>2. FactsLearned' /\ StampedIsLearned'
    BY <2>1, LeaveTyped, LearnedKept
  <2>3. EpisodeLearned'
    BY <2>1, LeaveTyped DEF EpisodeLearned
  <2> QED
    BY <2>2, <2>3
<1>5. ASSUME NEW c \in Consolidators, Classify(c) PROVE LearnedInv'
  <2>1. PICK e \in todo[c] :
          /\ todo' = [todo EXCEPT ![c] = @ \ {e}]
          /\ \/ UNCHANGED <<pc, ep, verdict, target>>
             \/ \E similar \in Similar(c, e.row.content) :
                  \E v \in Verdicts(similar, e.row.content) : TakenUp(c, e, v)
    BY <1>5, ClassifyCases
  <2>2. UNCHANGED <<mem, learned>>
    BY <1>5, ClassifyCases DEF history
  <2>3. CASE UNCHANGED <<pc, ep, verdict, target>>
    BY <2>2, <2>3, LearnedKept DEF EpisodeLearned
  <2>4. ASSUME NEW similar \in Similar(c, e.row.content),
               NEW v \in Verdicts(similar, e.row.content), TakenUp(c, e, v)
        PROVE  LearnedInv'
    <3>1. v.top # None => v.top \in Facts /\ Snapshot(v.top).row.content \in learned
      BY HitsAreIds, SnapshotType DEF FactsLearned, Facts
    <3>2. FactsLearned' /\ StampedIsLearned'
      BY <2>2, <2>4, <3>1, LearnedKept DEF TakenUp, TypeOK
    <3>3. ~LLM => v.act # "DELETE" /\ (AfterVerdict(v) # "write" => e.row.content \in learned)
      <4>1. v.act \in Verdict
        BY HitsAreIds
      <4> QED
        BY <4>1, OfflineVerdict DEF AfterVerdict, Verdict
    <3>4. EpisodeLearned'
      BY <2>2, <2>4, <3>3 DEF EpisodeLearned, TakenUp, Goto, TypeOK
    <3> QED
      BY <3>2, <3>4
  <2> QED
    BY <2>1, <2>3, <2>4
<1>6. ASSUME NEW c \in Consolidators, WriteFact(c) PROVE LearnedInv'
  <2>1. PICK text \in IF LLM THEN Contents ELSE {ep[c].row.content} :
          mem' = [mem EXCEPT ![next] = NewFact(c, text)] /\ learned' = learned \cup {text}
    BY <1>6 DEF WriteFact, PutMemory
  <2>2. UNCHANGED <<ep, verdict, target>> /\ pc[c] = "write"
        /\ \A d \in Consolidators \ {c} : pc'[d] = pc[d]
    BY <1>6 DEF WriteFact, Goto, TypeOK
  <2>3. text \in Contents
    BY <2>1, <2>2 DEF PassInv, Holds, Memory, Row
  <2>4. NewFact(c, text).layer = "semantic" /\ NewFact(c, text).content = text
    BY <2>2, <2>3, FactRow, KindsOfState DEF PassInv, Holds
  <2>5. \A i \in Ids : mem'[i] = mem[i] \/ (mem'[i].layer = "semantic" /\ mem'[i].content \in learned')
    BY <2>1, <2>4 DEF TypeOK
  <2>6. FactsLearned' /\ StampedIsLearned'
    BY <2>1, <2>2, <2>5, LearnedKept
  <2>7. EpisodeLearned'
    BY <2>1, <2>2 DEF EpisodeLearned
  <2> QED
    BY <2>6, <2>7
<1>7. ASSUME NEW c \in Consolidators,
             RetireNeighbors(c) \/ CloseEdge(c) \/ Closed(c) \/ Link(c) \/ Project(c)
      PROVE  LearnedInv'
  <2>1. /\ UNCHANGED <<mem, ep, verdict, target, learned>>
        /\ pc[c] \notin {"idle", "select", "write"}
        /\ \A d \in Consolidators \ {c} : pc'[d] = pc[d]
    BY <1>7 DEF RetireNeighbors, CloseEdge, Closed, Link, Project, store, history, Goto, TypeOK
  <2> QED
    BY <2>1, LearnedKept DEF EpisodeLearned
<1>8. ASSUME NEW c \in Consolidators, Mark(c) PROVE LearnedInv'
  <2>1. /\ target[c] \in Memory /\ (verdict[c] = "UPDATE" => fact[c] \in Ids)
        /\ mem' = [mem EXCEPT ![target[c].id] = MarkedRow(c)]
        /\ UNCHANGED <<ep, verdict, target, learned>> /\ pc[c] = "mark"
        /\ \A d \in Consolidators \ {c} : pc'[d] = pc[d]
    BY <1>8 DEF Mark, PassInv, Holds, PutMemory, MarkedRow, history, Goto, TypeOK
  <2>2. MarkedRow(c).layer = "semantic" /\ MarkedRow(c).content \in learned
    BY <2>1, MarkedRowFacts, KindsOfState DEF FactsLearned
  <2>3. \A i \in Ids : mem'[i] = mem[i] \/ (mem'[i].layer = "semantic" /\ mem'[i].content \in learned')
    BY <2>1, <2>2 DEF TypeOK
  <2> QED
    BY <2>1, <2>3, LearnedKept DEF EpisodeLearned
<1>9. ASSUME NEW c \in Consolidators, Stamp(c) PROVE LearnedInv'
  <2>1. /\ ep[c] \in Memory
        /\ mem' = [mem EXCEPT ![ep[c].id] = StampedRow(c)]
        /\ UNCHANGED learned /\ pc[c] = "stamp" /\ pc' = [pc EXCEPT ![c] = "select"]
        /\ verdict' = [verdict EXCEPT ![c] = "NOOP"]
        /\ ep' = [ep EXCEPT ![c] = None] /\ target' = [target EXCEPT ![c] = None]
    BY <1>9 DEF Stamp, PassInv, Holds, PutMemory, StampedRow, history, Goto
  <2>2. StampedRow(c).layer = "episodic" /\ (~LLM => StampedRow(c).content \in learned)
    BY <2>1, StampedRowFacts, KindsOfState DEF EpisodeLearned
  <2>3. \A i \in Ids : \/ mem'[i] = mem[i]
                       \/ mem'[i].layer = "episodic" /\ (~LLM => mem'[i].content \in learned')
    BY <2>1, <2>2 DEF TypeOK
  <2>4. \A d \in Consolidators : target'[d] \in {target[d], None}
    BY <2>1 DEF TypeOK
  <2>5. FactsLearned' /\ StampedIsLearned'
    BY <2>1, <2>3, <2>4, LearnedKept
  <2>6. EpisodeLearned'
    BY <2>1 DEF EpisodeLearned, TypeOK
  <2> QED
    BY <2>5, <2>6
<1>10. CASE UNCHANGED vars
  <2>1. UNCHANGED <<mem, pc, ep, verdict, target, learned>>
    BY <1>10 DEF vars, store, pass, history
  <2> QED
    BY <2>1, LearnedKept DEF EpisodeLearned
<1> QED
  BY <1>1, <1>2, <1>3, <1>4, <1>5, <1>6, <1>7, <1>8, <1>9, <1>10 DEF Next, Work

-----------------------------------------------------------------------------
(* What is forgotten stays dead.                                           *)

\* The row of an id that is not forgotten, or no live row, may be written.
LEMMA DeadKept ==
  ASSUME ForgottenStaysDead, forgotten' = forgotten,
         \A i \in forgotten : \/ mem'[i] = mem[i]
                              \/ mem'[i].layer = "semantic" /\ IsRetired(mem'[i])
                              \/ mem'[i].layer = "episodic" /\ mem'[i].stamped
  PROVE  ForgottenStaysDead'
  BY DEF ForgottenStaysDead, Live, Facts, Pending, Episodes, Exists, IsRetired

\* Every step keeps dead what has been forgotten.
LEMMA NextForgotten ==
  ASSUME TypeOK, PassInv, KindInv, ForgottenStaysDead, [Next]_vars
  PROVE  ForgottenStaysDead'
<1>0. forgotten \subseteq Ids /\ next \notin forgotten
  BY DEF TypeOK, KindInv
<1>1. ASSUME NEW text \in Contents, Record(text) PROVE ForgottenStaysDead'
  <2>1. mem' = [mem EXCEPT ![next] = Episode(text)] /\ forgotten' = forgotten
    BY <1>1 DEF Record, PutMemory, history
  <2>2. \A i \in forgotten : mem'[i] = mem[i]
    BY <1>0, <2>1 DEF TypeOK
  <2> QED
    BY <2>1, <2>2, DeadKept
<1>2. ASSUME NEW j \in Ids, Forget(j) PROVE ForgottenStaysDead'
  <2>1. mem' = [mem EXCEPT ![j] = None] /\ forgotten' = forgotten \cup {j}
    BY <1>2 DEF Forget, PutMemory
  <2>2. ASSUME NEW i \in forgotten PROVE ~Live(i)' /\ i \notin Pending'
    BY <1>0, <2>1 DEF ForgottenStaysDead, Live, Facts, Pending, Episodes, Exists, TypeOK
  <2>3. ~Live(j)' /\ j \notin Pending'
    BY <2>1 DEF Live, Facts, Pending, Episodes, Exists, TypeOK
  <2> QED
    BY <2>1, <2>2, <2>3 DEF ForgottenStaysDead
<1>3. ASSUME NEW c \in Consolidators, WriteFact(c) PROVE ForgottenStaysDead'
  <2>1. forgotten' = forgotten /\ \A i \in forgotten : mem'[i] = mem[i]
    BY <1>0, <1>3 DEF WriteFact, PutMemory, TypeOK
  <2> QED
    BY <2>1, DeadKept
<1>4. ASSUME NEW c \in Consolidators, Mark(c) PROVE ForgottenStaysDead'
  <2>1. /\ target[c] \in Memory /\ (verdict[c] = "UPDATE" => fact[c] \in Ids)
        /\ mem' = [mem EXCEPT ![target[c].id] = MarkedRow(c)] /\ forgotten' = forgotten
    BY <1>4 DEF Mark, PassInv, Holds, PutMemory, MarkedRow, history
  <2>2. MarkedRow(c).layer = "semantic" /\ IsRetired(MarkedRow(c))
    BY <2>1, MarkedRowFacts, KindsOfState
  <2>3. \A i \in forgotten : mem'[i] = mem[i] \/ (mem'[i].layer = "semantic" /\ IsRetired(mem'[i]))
    BY <1>0, <2>1, <2>2 DEF TypeOK
  <2> QED
    BY <2>1, <2>3, DeadKept
<1>5. ASSUME NEW c \in Consolidators, Stamp(c) PROVE ForgottenStaysDead'
  <2>1. /\ ep[c] \in Memory
        /\ mem' = [mem EXCEPT ![ep[c].id] = StampedRow(c)] /\ forgotten' = forgotten
    BY <1>5 DEF Stamp, PassInv, Holds, PutMemory, StampedRow, history
  <2>2. StampedRow(c).layer = "episodic" /\ StampedRow(c).stamped
    BY <2>1, StampedRowFacts, KindsOfState
  <2>3. \A i \in forgotten : mem'[i] = mem[i] \/ (mem'[i].layer = "episodic" /\ mem'[i].stamped)
    BY <1>0, <2>1, <2>2 DEF TypeOK
  <2> QED
    BY <2>1, <2>3, DeadKept
<1>6. CASE mem' = mem /\ forgotten' = forgotten
  BY <1>6, DeadKept
<1>7. ASSUME NEW c \in Consolidators, Begin(c) \/ Work(c) \/ Abort(c) \/ Restart(c),
             ~WriteFact(c), ~Mark(c), ~Stamp(c)
      PROVE  mem' = mem /\ forgotten' = forgotten
  BY <1>7, ClassifyCases DEF Work, Begin, RetireNeighbors, CloseEdge, Closed, Link, Project, Finish,
     EdgeError, Abort, Restart, store, history
<1>8. UNCHANGED vars => mem' = mem /\ forgotten' = forgotten
  BY DEF vars, store, history
<1>9. ASSUME NEW c \in Consolidators, Begin(c) \/ Work(c) \/ Abort(c) \/ Restart(c)
      PROVE  ForgottenStaysDead'
  BY <1>3, <1>4, <1>5, <1>6, <1>7, <1>9
<1> QED
  BY <1>1, <1>2, <1>6, <1>8, <1>9 DEF Next

-----------------------------------------------------------------------------
(* A superseded version is retired.                                        *)

\* No pass leaves the point of its mark without a failure.
MarksStay ==
  failures' = 0 =>
    /\ failures = 0
    /\ \A d \in Consolidators : pc[d] = "mark" => pc'[d] = "mark" /\ target'[d] = target[d]

\* The rows stay, or a row that is not a known fact's is set.
LEMMA EdgesKept ==
  ASSUME TypeOK, TypeOK', EdgeInv, MarksStay, edges' \subseteq edges,
         \A i \in Ids : mem[i] # None => mem'[i] # None,
         \A i \in Facts : mem'[i] = mem[i]
  PROVE  EdgeInv'
<1>1. ASSUME NEW e \in edges' PROVE EdgeFits(e)'
  <2>1. e \in edges /\ e.src \in Ids /\ e.dst \in Ids
    BY DEF TypeOK, Edge
  <2> QED
    BY <2>1 DEF EdgeInv, EdgeFits, Exists
<1>2. ASSUME NEW e \in edges', e.relation = "supersedes"
      PROVE  /\ e.src \in Facts'
             /\ failures' = 0 => \/ IsRetired(mem'[e.src])
                                 \/ \E d \in Consolidators : pc'[d] = "mark" /\ target'[d].id = e.src
  <2>1. e.src \in Facts /\ mem'[e.src] = mem[e.src]
    BY <1>2 DEF EdgeInv
  <2>2. e.src \in Facts'
    BY <2>1 DEF Facts, Exists
  <2>3. ASSUME failures' = 0
        PROVE  \/ IsRetired(mem'[e.src])
               \/ \E d \in Consolidators : pc'[d] = "mark" /\ target'[d].id = e.src
    BY <1>2, <2>1, <2>3 DEF EdgeInv, MarksStay
  <2> QED
    BY <2>2, <2>3
<1> QED
  BY <1>1, <1>2 DEF EdgeInv

\* A known fact is a row of the table, and its id has been handed out.
LEMMA FactsKnown ==
  ASSUME TypeOK, KindInv
  PROVE  \A i \in Facts : i \in Ids /\ i # next /\ mem[i] # None /\ ~EpisodeLike(i)
  BY KindsOfState DEF Facts, Exists, KindInv, TypeOK

\* Every step keeps superseded versions retired, or about to be.
LEMMA NextEdges ==
  ASSUME TypeOK, TypeOK', PassInv, KindInv, EdgeInv, [Next]_vars
  PROVE  EdgeInv'
<1>0. failures \in Nat
  BY DEF TypeOK
<1>1. ASSUME NEW text \in Contents, Record(text) PROVE EdgeInv'
  <2>1. /\ mem' = [mem EXCEPT ![next] = Episode(text)]
        /\ UNCHANGED <<edges, failures, pc, target>>
    BY <1>1 DEF Record, PutMemory, pass
  <2>2. Episode(text) # None
    BY EpisodeRow
  <2>3. /\ \A i \in Ids : mem[i] # None => mem'[i] # None
        /\ \A i \in Facts : mem'[i] = mem[i]
    BY <2>1, <2>2, FactsKnown DEF TypeOK
  <2> QED
    BY <2>1, <2>3, EdgesKept DEF MarksStay
<1>2. ASSUME NEW j \in Ids, Forget(j) PROVE EdgeInv'
  <2>1. /\ mem' = [mem EXCEPT ![j] = None] /\ edges' = edges \ Neighbors(j)
        /\ UNCHANGED <<failures, pc, target>>
    BY <1>2 DEF Forget, PutMemory, pass
  <2>2. ASSUME NEW e \in edges'
        PROVE  e \in edges /\ e.src # j /\ e.dst # j /\ e.src \in Ids /\ e.dst \in Ids
               /\ mem'[e.src] = mem[e.src] /\ mem'[e.dst] = mem[e.dst]
    BY <2>1 DEF Neighbors, TypeOK, Edge
  <2>3. \A e \in edges' : EdgeFits(e)'
    BY <2>2 DEF EdgeInv, EdgeFits, Exists
  <2>4. ASSUME NEW e \in edges', e.relation = "supersedes" PROVE e.src \in Facts'
    BY <2>2, <2>4 DEF EdgeInv, Facts, Exists
  <2> QED
    BY <2>1, <2>2, <2>3, <2>4 DEF EdgeInv
<1>3. ASSUME NEW c \in Consolidators, WriteFact(c) PROVE EdgeInv'
  <2>1. PICK text \in IF LLM THEN Contents ELSE {ep[c].row.content} :
          mem' = [mem EXCEPT ![next] = NewFact(c, text)]
    BY <1>3 DEF WriteFact, PutMemory
  <2>2. pc[c] = "write" /\ text \in Contents
    BY <1>3, <2>1 DEF WriteFact, PassInv, Holds, Memory, Row
  <2>3. NewFact(c, text) # None
    BY <2>2, FactRow DEF PassInv, Holds
  <2>4. /\ \A i \in Ids : mem[i] # None => mem'[i] # None
        /\ \A i \in Facts : mem'[i] = mem[i]
    BY <2>1, <2>3, FactsKnown DEF TypeOK
  <2>5. edges' = edges /\ MarksStay
    BY <1>3 DEF WriteFact, MarksStay, Goto, TypeOK
  <2> QED
    BY <2>4, <2>5, EdgesKept
<1>4. ASSUME NEW c \in Consolidators, Stamp(c) PROVE EdgeInv'
  <2>1. ep[c] \in Memory /\ mem' = [mem EXCEPT ![ep[c].id] = StampedRow(c)]
    BY <1>4 DEF Stamp, PassInv, Holds, PutMemory, StampedRow
  <2>2. StampedRow(c) # None /\ EpisodeLike(ep[c].id)
    BY <2>1, StampedRowFacts, KindsOfState
  <2>3. /\ \A i \in Ids : mem[i] # None => mem'[i] # None
        /\ \A i \in Facts : mem'[i] = mem[i]
    BY <2>1, <2>2, FactsKnown DEF TypeOK
  <2>4. edges' = edges /\ MarksStay
    BY <1>4 DEF Stamp, MarksStay, Goto, TypeOK
  <2> QED
    BY <2>3, <2>4, EdgesKept
<1>5. ASSUME NEW c \in Consolidators, Mark(c) PROVE EdgeInv'
  <2>1. /\ target[c] \in Memory /\ (verdict[c] = "UPDATE" => fact[c] \in Ids)
        /\ mem' = [mem EXCEPT ![target[c].id] = MarkedRow(c)]
        /\ UNCHANGED <<edges, failures, target>> /\ target[c].id \in Ids
        /\ \A d \in Consolidators \ {c} : pc'[d] = pc[d]
    BY <1>5 DEF Mark, PassInv, Holds, PutMemory, MarkedRow, Memory, Goto, TypeOK
  <2>2. MarkedRow(c).layer = "semantic" /\ IsRetired(MarkedRow(c)) /\ MarkedRow(c) # None
    BY <2>1, MarkedRowFacts, KindsOfState
  <2>3. \A i \in Ids : mem'[i] = mem[i] \/ (i = target[c].id /\ mem'[i] = MarkedRow(c))
    BY <2>1 DEF TypeOK
  <2>4. \A e \in edges' : EdgeFits(e)'
    <3> SUFFICES ASSUME NEW e \in edges PROVE mem'[e.src] # None /\ mem'[e.dst] # None
      BY <2>1 DEF EdgeFits, Exists
    <3>1. e.src \in Ids /\ e.dst \in Ids /\ mem[e.src] # None /\ mem[e.dst] # None
      BY DEF TypeOK, Edge, EdgeInv, EdgeFits, Exists
    <3> QED
      BY <2>2, <2>3, <3>1
  <2>5. ASSUME NEW e \in edges', e.relation = "supersedes"
        PROVE  /\ e.src \in Facts'
               /\ failures' = 0 => \/ IsRetired(mem'[e.src])
                                   \/ \E d \in Consolidators : pc'[d] = "mark" /\ target'[d].id = e.src
    <3>1. /\ e.src \in Facts
          /\ failures = 0 => \/ IsRetired(mem[e.src])
                             \/ \E d \in Consolidators : pc[d] = "mark" /\ target[d].id = e.src
      BY <2>1, <2>5 DEF EdgeInv
    <3>2. CASE mem'[e.src] = MarkedRow(c)
      BY <2>2, <3>1, <3>2 DEF Facts, Exists
    <3>3. CASE mem'[e.src] = mem[e.src] /\ e.src # target[c].id
      BY <2>1, <3>1, <3>3 DEF Facts, Exists
    <3>4. e.src \in Ids /\ (e.src = target[c].id => mem'[e.src] = MarkedRow(c))
      BY <2>1, <3>1 DEF Facts, TypeOK
    <3> QED
      BY <2>3, <3>2, <3>3, <3>4
  <2> QED
    BY <2>4, <2>5 DEF EdgeInv
<1>6. ASSUME NEW c \in Consolidators, Link(c) PROVE EdgeInv'
  <2>1. /\ edges' = edges \cup {Supersedes(c)} /\ UNCHANGED <<mem, failures, target>>
        /\ pc' = [pc EXCEPT ![c] = "mark"] /\ pc[c] = "link" /\ EdgeFits(Supersedes(c))
    BY <1>6 DEF Link, Goto
  <2>2. target[c].id \in Ids /\ mem[target[c].id] # None /\ FactLike(target[c].id)
        /\ Supersedes(c).src = target[c].id
    BY <2>1, KindsOfState DEF Supersedes, EdgeFits, Exists, PassInv, Holds, Memory
  <2>3. target[c].id \in Facts
    <3>1. mem[target[c].id].layer \in {"episodic", "semantic"}
      BY <2>2 DEF TypeOK, Row
    <3>2. ~EpisodeLike(target[c].id)
      BY <2>2 DEF KindInv
    <3> QED
      BY <2>2, <3>1, <3>2, KindsOfState DEF Facts, Exists
  <2>4. \A d \in Consolidators : pc[d] = "mark" => pc'[d] = "mark"
    BY <2>1 DEF TypeOK
  <2>5. pc'[c] = "mark"
    BY <2>1 DEF TypeOK
  <2> QED
    BY <2>1, <2>2, <2>3, <2>4, <2>5 DEF EdgeInv, EdgeFits, Exists, Facts
<1>7. ASSUME NEW c \in Consolidators, Project(c) PROVE EdgeInv'
  <2>1. /\ edges' = edges \cup {Provenance(c)} /\ UNCHANGED <<mem, failures, target>>
        /\ EdgeFits(Provenance(c)) /\ Provenance(c).relation # "supersedes"
        /\ \A d \in Consolidators : pc[d] = "mark" => pc'[d] = "mark"
    BY <1>7 DEF Project, Goto, Provenance, TypeOK
  <2> QED
    BY <2>1 DEF EdgeInv, EdgeFits, Exists, Facts
<1>8. ASSUME mem' = mem, edges' \subseteq edges, MarksStay PROVE EdgeInv'
  BY <1>8, EdgesKept DEF Facts
<1>9. ASSUME NEW c \in Consolidators, Classify(c) PROVE EdgeInv'
  <2>1. mem' = mem /\ edges' = edges /\ failures' = failures /\ pc[c] = "select"
    BY <1>9, ClassifyCases
  <2>2. \A d \in Consolidators \ {c} : pc'[d] = pc[d] /\ target'[d] = target[d]
    BY <1>9, ClassifyCases DEF TakenUp, Goto, TypeOK
  <2> QED
    BY <1>8, <2>1, <2>2 DEF MarksStay
<1>10. ASSUME NEW c \in Consolidators,
              Begin(c) \/ RetireNeighbors(c) \/ CloseEdge(c) \/ Closed(c)
       PROVE  EdgeInv'
  <2>1. mem' = mem /\ edges' \subseteq edges /\ MarksStay
    BY <1>10 DEF Begin, RetireNeighbors, CloseEdge, Closed, store, Goto, MarksStay, TypeOK
  <2> QED
    BY <1>8, <2>1
<1>11. ASSUME NEW c \in Consolidators, Finish(c) \/ EdgeError(c) PROVE EdgeInv'
  <2>1. mem' = mem /\ edges' = edges /\ failures' = failures /\ Leave(c) /\ pc[c] # "mark"
    BY <1>11 DEF Finish, EdgeError, store
  <2>2. MarksStay
    BY <2>1, LeaveTyped DEF MarksStay
  <2> QED
    BY <1>8, <2>1, <2>2
<1>12. ASSUME NEW c \in Consolidators, Abort(c) \/ Restart(c) PROVE EdgeInv'
  <2>1. mem' = mem /\ edges' = edges /\ failures' = failures + 1
    BY <1>12 DEF Abort, Restart
  <2> QED
    BY <1>0, <1>8, <2>1 DEF MarksStay
<1>13. CASE UNCHANGED vars
  BY <1>8, <1>13 DEF vars, store, pass, MarksStay
<1> QED
  BY <1>1, <1>2, <1>3, <1>4, <1>5, <1>6, <1>7, <1>9, <1>10, <1>11, <1>12, <1>13 DEF Next, Work

-----------------------------------------------------------------------------
(* Versions form a chain, under the worker lock.                           *)

\* Where no version is linked, the chain is kept by a pass that is alone.
LEMMA ChainKept ==
  ASSUME TypeOK, ChainInv, WorkerLock, NEW c \in Consolidators,
         \A d \in Consolidators \ {c} : pc'[d] = "idle",
         \A e \in edges' : e \in edges \/ e.relation # "supersedes",
         \A e \in edges' : e.relation = "supersedes" /\ pc'[c] \in {"close", "link"}
                             /\ e.src = target'[c].id => pc'[c] = "close" /\ e \in open'[c]
  PROVE  ChainInv'
<1>1. SingleSuccessor'
  BY DEF ChainInv, SingleSuccessor
<1>2. \A d, f \in Consolidators : d # f => pc'[d] = "idle" \/ pc'[f] = "idle"
  OBVIOUS
<1>3. \A d \in Consolidators, e \in edges' :
        e.relation = "supersedes" /\ pc'[d] \in {"close", "link"} /\ e.src = target'[d].id =>
          pc'[d] = "close" /\ e \in open'[d]
  OBVIOUS
<1> QED
  BY <1>1, <1>2, <1>3 DEF ChainInv

\* Every step keeps the chain.
LEMMA NextChain ==
  ASSUME TypeOK, PassInv, ChainInv, [Next]_vars
  PROVE  ChainInv'
<1> SUFFICES ASSUME WorkerLock PROVE ChainInv'
  BY DEF ChainInv
<1>1. CASE edges' \subseteq edges /\ UNCHANGED <<pc, target, open>>
  BY <1>1 DEF ChainInv, SingleSuccessor
<1>2. ASSUME NEW text \in Contents, Record(text) PROVE ChainInv'
  BY <1>1, <1>2 DEF Record, pass
<1>3. ASSUME NEW i \in Ids, Forget(i) PROVE ChainInv'
  BY <1>1, <1>3 DEF Forget, pass
<1>4. ASSUME NEW c \in Consolidators, Begin(c) PROVE ChainInv'
  <2>1. (\A d \in Consolidators : pc[d] = "idle") /\ pc' = [pc EXCEPT ![c] = "select"] /\ edges' = edges
    BY <1>4 DEF Begin, Goto, store
  <2>2. pc'[c] = "select" /\ \A d \in Consolidators \ {c} : pc'[d] = "idle"
    BY <2>1 DEF TypeOK
  <2> QED
    BY <2>1, <2>2, ChainKept
<1>5. ASSUME NEW c \in Consolidators, pc[c] # "idle",
             \A d \in Consolidators \ {c} : pc'[d] = pc[d]
      PROVE  \A d \in Consolidators \ {c} : pc'[d] = "idle"
  BY <1>5 DEF ChainInv
<1>6. ASSUME NEW c \in Consolidators, Finish(c) \/ EdgeError(c) \/ Abort(c) \/ Restart(c)
      PROVE  ChainInv'
  <2>1. Leave(c) /\ edges' = edges
    BY <1>6 DEF Finish, EdgeError, Abort, Restart, store
  <2>2. pc'[c] = "idle" /\ \A d \in Consolidators \ {c} : pc'[d] = pc[d] /\ target'[d] = target[d] /\ open'[d] = open[d]
    BY <2>1, LeaveTyped
  <2> QED
    BY <2>1, <2>2 DEF ChainInv, SingleSuccessor
<1>7. ASSUME NEW c \in Consolidators, Classify(c) PROVE ChainInv'
  <2>1. edges' = edges /\ pc[c] = "select"
    BY <1>7, ClassifyCases
  <2>2. /\ \A d \in Consolidators \ {c} : pc'[d] = pc[d]
        /\ pc'[c] \in {"select", "write", "neighbors", "stamp"}
    BY <1>7, <2>1, ClassifyCases DEF TakenUp, Goto, TypeOK, AfterVerdict
  <2> QED
    BY <1>5, <2>1, <2>2, ChainKept
<1>8. ASSUME NEW c \in Consolidators, WriteFact(c) \/ Mark(c) \/ Stamp(c) \/ Project(c)
      PROVE  ChainInv'
  <2>1. /\ \A e \in edges' : e \in edges \/ e.relation # "supersedes"
        /\ \A d \in Consolidators \ {c} : pc'[d] = pc[d]
        /\ pc[c] # "idle" /\ pc'[c] \notin {"close", "link"}
    BY <1>8 DEF WriteFact, Mark, Stamp, Project, Provenance, Goto, TypeOK
  <2> QED
    BY <1>5, <2>1, ChainKept
<1>9. ASSUME NEW c \in Consolidators, RetireNeighbors(c) PROVE ChainInv'
  <2>1. /\ edges' = edges /\ target' = target /\ open'[c] = Neighbors(target[c].id)
        /\ \A d \in Consolidators \ {c} : pc'[d] = pc[d]
        /\ pc[c] # "idle" /\ pc'[c] = "close"
    BY <1>9 DEF RetireNeighbors, store, Goto, TypeOK
  <2>2. \A e \in edges : e.src = target[c].id => e \in Neighbors(target[c].id)
    BY DEF Neighbors
  <2> QED
    BY <1>5, <2>1, <2>2, ChainKept
<1>10. ASSUME NEW c \in Consolidators, CloseEdge(c) PROVE ChainInv'
  <2>1. PICK e \in open[c] : edges' = edges \ {e} /\ open' = [open EXCEPT ![c] = @ \ {e}]
    BY <1>10 DEF CloseEdge
  <2>2. UNCHANGED <<pc, target>> /\ pc[c] = "close" /\ open'[c] = open[c] \ {e}
    BY <1>10, <2>1 DEF CloseEdge, TypeOK
  <2>3. \A f \in edges' : f.relation = "supersedes" /\ f.src = target'[c].id => f \in open'[c]
    BY <2>1, <2>2 DEF ChainInv
  <2> QED
    BY <1>5, <2>1, <2>2, <2>3, ChainKept
<1>11. ASSUME NEW c \in Consolidators, Closed(c) PROVE ChainInv'
  <2>1. /\ UNCHANGED <<edges, target, open>> /\ pc[c] = "close" /\ open[c] = {}
        /\ \A d \in Consolidators \ {c} : pc'[d] = pc[d]
    BY <1>11 DEF Closed, store, Goto, TypeOK
  <2>2. \A e \in edges : e.relation = "supersedes" => e.src # target[c].id
    BY <2>1 DEF ChainInv
  <2> QED
    BY <1>5, <2>1, <2>2, ChainKept
<1>12. ASSUME NEW c \in Consolidators, Link(c) PROVE ChainInv'
  <2>1. /\ edges' = edges \cup {Supersedes(c)} /\ pc[c] = "link" /\ pc'[c] = "mark"
        /\ \A d \in Consolidators \ {c} : pc'[d] = pc[d]
    BY <1>12 DEF Link, Goto, TypeOK
  <2>2. \A d \in Consolidators \ {c} : pc'[d] = "idle"
    BY <1>5, <2>1
  <2>3. \A e \in edges : e.relation = "supersedes" => e.src # target[c].id
    BY <2>1 DEF ChainInv
  <2>4. Supersedes(c).src = target[c].id
    BY DEF Supersedes
  <2>5. SingleSuccessor'
    BY <2>1, <2>3, <2>4 DEF ChainInv, SingleSuccessor
  <2> QED
    BY <2>1, <2>2, <2>5 DEF ChainInv
<1>13. CASE UNCHANGED vars
  BY <1>1, <1>13 DEF vars, store, pass
<1> QED
  BY <1>2, <1>3, <1>4, <1>6, <1>7, <1>8, <1>9, <1>10, <1>11, <1>12, <1>13 DEF Next, Work

-----------------------------------------------------------------------------
(* A live fact can be found, and is there once.                            *)

\* The steps that write no row, and those that write one.
LEMMA RowsStay ==
  ASSUME NEW c \in Consolidators, Begin(c) \/ Work(c) \/ Abort(c) \/ Restart(c),
         ~WriteFact(c), ~Mark(c), ~Stamp(c)
  PROVE  mem' = mem
  BY ClassifyCases DEF Work, Begin, RetireNeighbors, CloseEdge, Closed, Link, Project, Finish,
     EdgeError, Abort, Restart, store

\* A live fact was live, with the same row, or is the fact just written.
LEMMA LiveIsWritten ==
  ASSUME TypeOK, PassInv, KindInv, [Next]_vars, NEW i \in Ids, Live(i)'
  PROVE  \/ Live(i) /\ mem'[i] = mem[i]
         \/ i = next /\ \E c \in Consolidators : WriteFact(c)
<1>1. CASE mem'[i] = mem[i]
  BY <1>1 DEF Live, Facts, Exists
<1>2. ASSUME mem'[i] # mem[i]
      PROVE  i = next /\ \E c \in Consolidators : WriteFact(c)
  <2>1. mem'[i] # None /\ mem'[i].layer = "semantic" /\ ~IsRetired(mem'[i])
    BY DEF Live, Facts, Exists
  <2>2. ASSUME NEW text \in Contents, Record(text) PROVE FALSE
    <3>1. mem'[i] = Episode(text)
      BY <1>2, <2>2 DEF Record, PutMemory, TypeOK
    <3> QED
      BY <2>1, <3>1, EpisodeRow
  <2>3. ASSUME NEW j \in Ids, Forget(j) PROVE FALSE
    BY <1>2, <2>1, <2>3 DEF Forget, PutMemory, TypeOK
  <2>4. ASSUME NEW c \in Consolidators, WriteFact(c) PROVE i = next
    BY <1>2, <2>4 DEF WriteFact, PutMemory, TypeOK
  <2>5. ASSUME NEW c \in Consolidators, Mark(c) PROVE FALSE
    <3>1. target[c] \in Memory /\ (verdict[c] = "UPDATE" => fact[c] \in Ids)
      BY <2>5 DEF Mark, PassInv, Holds
    <3>2. mem'[i] = MarkedRow(c)
      BY <1>2, <2>5 DEF Mark, PutMemory, MarkedRow, TypeOK
    <3> QED
      BY <2>1, <3>1, <3>2, MarkedRowFacts
  <2>6. ASSUME NEW c \in Consolidators, Stamp(c) PROVE FALSE
    <3>1. ep[c] \in Memory /\ ep[c].row.layer = "episodic"
      BY <2>6, KindsOfState DEF Stamp, PassInv, Holds
    <3>2. mem'[i] = StampedRow(c)
      BY <1>2, <2>6 DEF Stamp, PutMemory, StampedRow, TypeOK
    <3> QED
      BY <2>1, <3>1, <3>2, StampedRowFacts
  <2>7. UNCHANGED vars => mem' = mem
    BY DEF vars, store
  <2> QED
    BY <1>2, <2>2, <2>3, <2>4, <2>5, <2>6, <2>7, RowsStay DEF Next
<1> QED
  BY <1>1, <1>2

\* The fact a pass writes.
LEMMA WrittenFact ==
  ASSUME TypeOK, PassInv, NEW c \in Consolidators, WriteFact(c)
  PROVE  /\ next \in Ids /\ mem'[next].embedded
         /\ ~LLM => mem'[next].content = ep[c].row.content
<1>1. PICK text \in IF LLM THEN Contents ELSE {ep[c].row.content} :
        mem' = [mem EXCEPT ![next] = NewFact(c, text)]
  BY DEF WriteFact, PutMemory
<1>2. pc[c] = "write" /\ next \in Ids
  BY DEF WriteFact, TypeOK, Ids
<1>3. text \in Contents
  BY <1>1, <1>2 DEF PassInv, Holds, Memory, Row
<1>4. NewFact(c, text).embedded /\ NewFact(c, text).content = text
  BY <1>2, <1>3, FactRow DEF PassInv, Holds
<1> QED
  BY <1>1, <1>2, <1>4 DEF TypeOK

\* What a search of a consolidator that is alone may return: every live fact.
LEMMA HitsHaveLive ==
  ASSUME FoundInv, Alone, NEW c \in Consolidators, NEW i \in Ids, Live(i)
  PROVE  i \in Hits(c)
  BY DEF FoundInv, Hits, Live

\* Every step keeps live facts to be found.
LEMMA NextFound ==
  ASSUME TypeOK, PassInv, KindInv, FoundInv, [Next]_vars
  PROVE  FoundInv'
<1>1. ASSUME NEW i \in Ids, Live(i)' PROVE mem'[i].embedded
  BY <1>1, LiveIsWritten, WrittenFact DEF FoundInv
<1>2. ASSUME Alone, NEW c \in Consolidators, NEW i \in Ids, Live(i)',
             index'[c] # None \/ pc'[c] \notin {"idle", "select"}
      PROVE  i \in index'[c]
  <2>1. CASE \E d \in Consolidators : WriteFact(d)
    <3>1. WriteFact(c)
      BY <1>2, <2>1 DEF Alone
    <3>2. pc[c] = "write" /\ index'[c] = index[c] \cup {next}
      BY <3>1 DEF WriteFact, TypeOK
    <3> QED
      BY <1>2, <3>2, LiveIsWritten DEF FoundInv
  <2>2. CASE ~\E d \in Consolidators : WriteFact(d)
    <3>1. Live(i)
      BY <1>2, <2>2, LiveIsWritten
    <3>2. CASE UNCHANGED <<pc, index>>
      BY <1>2, <3>1, <3>2 DEF FoundInv
    <3>3. CASE Classify(c)
      <4>1. index'[c] = Hits(c)
        BY <3>3, ClassifyCases DEF TypeOK
      <4> QED
        BY <1>2, <3>1, <4>1, HitsHaveLive
    <3>4. CASE Begin(c)
      BY <1>2, <3>1, <3>4 DEF Begin, Goto, store, TypeOK, FoundInv
    <3>5. CASE Finish(c) \/ EdgeError(c) \/ Abort(c) \/ Restart(c)
      <4>1. Leave(c) /\ (index' = index \/ index' = [index EXCEPT ![c] = None])
        BY <3>5 DEF Finish, EdgeError, Abort, Restart, store
      <4>2. pc'[c] = "idle"
        BY <4>1, LeaveTyped
      <4> QED
        BY <1>2, <3>1, <4>1, <4>2 DEF FoundInv, TypeOK
    <3>6. CASE RetireNeighbors(c) \/ CloseEdge(c) \/ Closed(c) \/ Link(c) \/ Mark(c) \/ Project(c) \/ Stamp(c)
      <4>1. index' = index /\ pc[c] \notin {"idle", "select"}
        BY <3>6 DEF RetireNeighbors, CloseEdge, Closed, Link, Mark, Project, Stamp, store
      <4> QED
        BY <1>2, <3>1, <4>1 DEF FoundInv
    <3>7. ASSUME NEW d \in Consolidators PROVE d = c
      BY <1>2 DEF Alone
    <3>8. UNCHANGED vars \/ (\E text \in Contents : Record(text)) \/ (\E j \in Ids : Forget(j))
            => UNCHANGED <<pc, index>>
      BY DEF Record, Forget, vars, store, pass
    <3> QED
      BY <2>2, <3>2, <3>3, <3>4, <3>5, <3>6, <3>7, <3>8 DEF Next, Work
  <2> QED
    BY <2>1, <2>2
<1> QED
  BY <1>1, <1>2 DEF FoundInv, Alone

\* Without a classifier, where the search is not crowded, a content that a live
\* fact has is not written again.
LEMMA KnownIsNoop ==
  ASSUME TypeOK, FoundInv, Alone, ~LLM, Room, NEW c \in Consolidators, NEW text \in Contents,
         NEW similar \in Similar(c, text), NEW v \in Verdicts(similar, text),
         NEW i \in Ids, Live(i), mem[i].content = text
  PROVE  AfterVerdict(v) = "stamp"
<1>1. Cardinality(SameContent(text)) <= TopK
  BY DEF Room
<1>2. similar = Hits(c) \cap Facts
  BY <1>1 DEF Similar
<1>3. i \in similar
  BY <1>2, HitsHaveLive DEF Live
<1>4. v.act = "NOOP"
  BY <1>3 DEF Verdicts
<1> QED
  BY <1>4 DEF AfterVerdict

\* Every step of a consolidator that is alone keeps live facts apart.
LEMMA NextOnce ==
  ASSUME TypeOK, PassInv, KindInv, FoundInv, Alone, ~LLM, Room, OnceInv, [Next]_vars
  PROVE  OnceInv'
<1>1. ASSUME NEW i \in Ids, NEW j \in Ids, i # j, Live(i)', Live(j)'
      PROVE  mem'[i].content # mem'[j].content
  <2>1. CASE Live(i) /\ mem'[i] = mem[i] /\ Live(j) /\ mem'[j] = mem[j]
    BY <1>1, <2>1 DEF OnceInv, NoDuplicateLive
  <2>2. ASSUME NEW k \in Ids, NEW l \in Ids, k = next, Live(l), mem'[l] = mem[l],
               \E c \in Consolidators : WriteFact(c)
        PROVE  mem'[k].content # mem'[l].content
    <3>1. PICK c \in Consolidators : WriteFact(c)
      BY <2>2
    <3>2. pc[c] = "write" /\ mem'[k].content = ep[c].row.content
      BY <2>2, <3>1, WrittenFact DEF WriteFact
    <3> QED
      BY <2>2, <3>2 DEF OnceInv
  <2> QED
    BY <1>1, <2>1, <2>2, LiveIsWritten
<1>2. ASSUME NEW c \in Consolidators, NEW i \in Ids, pc'[c] = "write", Live(i)'
      PROVE  mem'[i].content # ep'[c].row.content
  <2>1. CASE Classify(c)
    <3>1. PICK e \in todo[c] :
            \/ UNCHANGED <<pc, ep, verdict, target>>
            \/ \E similar \in Similar(c, e.row.content) :
                 \E v \in Verdicts(similar, e.row.content) : TakenUp(c, e, v)
      BY <2>1, ClassifyCases
    <3>2. pc[c] = "select" /\ mem' = mem
      BY <2>1, ClassifyCases
    <3>3. PICK similar \in Similar(c, e.row.content) :
            \E v \in Verdicts(similar, e.row.content) : TakenUp(c, e, v)
      BY <1>2, <3>1, <3>2
    <3>4. PICK v \in Verdicts(similar, e.row.content) : TakenUp(c, e, v)
      BY <3>3
    <3>5. ep'[c] = e /\ AfterVerdict(v) = "write" /\ e.row.content \in Contents
      BY <1>2, <3>4 DEF TakenUp, Goto, TypeOK, Memory, Row
    <3>6. Live(i)
      BY <1>2, <3>2 DEF Live, Facts, Exists
    <3> QED
      BY <3>2, <3>5, <3>6, KnownIsNoop
  <2>2. CASE UNCHANGED <<pc, ep>> /\ ~\E d \in Consolidators : WriteFact(d)
    <3>1. Live(i) /\ mem'[i] = mem[i]
      BY <1>2, <2>2, LiveIsWritten
    <3> QED
      BY <1>2, <2>2, <3>1 DEF OnceInv
  <2>3. UNCHANGED vars \/ (\E text \in Contents : Record(text)) \/ (\E j \in Ids : Forget(j))
          => UNCHANGED <<pc, ep>> /\ ~\E d \in Consolidators : WriteFact(d)
    BY DEF Record, Forget, vars, store, pass, WriteFact, TypeOK
  <2>4. ASSUME Begin(c) \/ Work(c) \/ Abort(c) \/ Restart(c), ~Classify(c) PROVE FALSE
    <3>1. CASE Finish(c) \/ EdgeError(c) \/ Abort(c) \/ Restart(c)
      BY <1>2, <3>1, LeaveTyped DEF Finish, EdgeError, Abort, Restart
    <3>2. CASE ~(Finish(c) \/ EdgeError(c) \/ Abort(c) \/ Restart(c))
      BY <1>2, <2>4, <3>2 DEF Work, Begin, WriteFact, RetireNeighbors, CloseEdge, Closed, Link, Mark,
         Project, Stamp, Goto, TypeOK
    <3> QED
      BY <3>1, <3>2
  <2>5. \A d \in Consolidators : d = c
    BY DEF Alone
  <2> QED
    BY <2>1, <2>2, <2>3, <2>4, <2>5 DEF Next
<1> QED
  BY <1>1, <1>2 DEF OnceInv, NoDuplicateLive

-----------------------------------------------------------------------------

\* The empty store has it all.
LEMMA InitIInv == Init => IInv /\ OnceInv
<1> SUFFICES ASSUME Init PROVE IInv /\ OnceInv
  OBVIOUS
<1>1. TypeOK /\ PassInv
  BY InitTyped
<1>2. /\ \A i \in Ids : mem[i] = None
      /\ \A c \in Consolidators : todo[c] = {} /\ ep[c] = None /\ target[c] = None /\ pc[c] = "idle"
                                  /\ verdict[c] = "NOOP" /\ index[c] = None
      /\ edges = {} /\ forgotten = {}
  BY DEF Init
<1>3. Facts = {} /\ Episodes = {} /\ \A i \in Ids : ~EpisodeLike(i) /\ ~FactLike(i)
  BY <1>2 DEF Facts, Episodes, Exists, EpisodeLike, FactLike
<1>4. KindInv
  BY <1>2, <1>3 DEF KindInv
<1>5. LearnedInv
  BY <1>2, <1>3 DEF LearnedInv, FactsLearned, EpisodeLearned, StampedIsLearned
<1>6. ForgottenStaysDead /\ EdgeInv /\ ChainInv
  BY <1>2 DEF ForgottenStaysDead, EdgeInv, ChainInv, SingleSuccessor
<1>7. FoundInv /\ OnceInv
  BY <1>2, <1>3 DEF FoundInv, OnceInv, NoDuplicateLive, Live
<1> QED
  BY <1>1, <1>4, <1>5, <1>6, <1>7 DEF IInv

\* Every step of any number of passes keeps the invariant.
LEMMA NextIInv == IInv /\ [Next]_vars => IInv'
<1> SUFFICES ASSUME IInv, [Next]_vars PROVE IInv'
  OBVIOUS
<1>1. TypeOK' /\ PassInv'
  BY NextTyped DEF IInv
<1> QED
  BY <1>1, NextKind, NextLearned, NextForgotten, NextEdges, NextChain, NextFound DEF IInv

LEMMA Invariance == Spec => []IInv
<1>1. Init => IInv
  BY InitIInv
<1> QED
  BY <1>1, NextIInv, PTL DEF Spec

\* With no classifier, an episode is stamped only after what it says has been
\* written as a fact, however many passes run at once and wherever they stop.
THEOREM StampedIsLearnedTheorem == Spec => []StampedIsLearned
<1>1. IInv => StampedIsLearned
  BY DEF IInv, LearnedInv
<1> QED
  BY <1>1, Invariance, PTL

\* What a client forgot is never live or pending again, though a pass that holds
\* it may write its row back.
THEOREM ForgottenStaysDeadTheorem == Spec => []ForgottenStaysDead
<1>1. IInv => ForgottenStaysDead
  BY DEF IInv
<1> QED
  BY <1>1, Invariance, PTL

\* Once passes have ended and none has failed, a fact with a valid supersedes
\* edge is retired, whether or not passes exclude each other.
THEOREM SupersededIsRetiredTheorem == Spec => []SupersededIsRetired
<1>1. IInv => SupersededIsRetired
  BY DEF IInv, EdgeInv, SupersededIsRetired, Quiescent
<1> QED
  BY <1>1, Invariance, PTL

\* Under the worker lock every version has at most one successor, wherever
\* passes stop.
THEOREM SingleSuccessorTheorem == Spec => [](WorkerLock => SingleSuccessor)
<1>1. IInv => (WorkerLock => SingleSuccessor)
  BY DEF IInv, ChainInv
<1> QED
  BY <1>1, Invariance, PTL

\* A consolidator that is alone and has no classifier keeps each content live at
\* most once, and finds it, as long as no more memories share a content than a
\* search returns.
THEOREM OneFindableFactTheorem == Spec /\ []Room => [](Alone /\ ~LLM => OneFindableFact)
<1>1. Init => IInv /\ (Alone /\ ~LLM => OnceInv)
  BY InitIInv
<1>2. IInv /\ (Alone /\ ~LLM => OnceInv) /\ Room /\ [Next]_vars
        => IInv' /\ (Alone /\ ~LLM => OnceInv)'
  BY NextIInv, NextOnce DEF IInv, Alone
<1>3. IInv /\ (Alone /\ ~LLM => OnceInv) => (Alone /\ ~LLM => OneFindableFact)
  BY DEF IInv, FoundInv, OnceInv, OneFindableFact, LiveIsFindable
<1> QED
  BY <1>1, <1>2, <1>3, PTL DEF Spec

-----------------------------------------------------------------------------
(* Consolidation implements Knowledge.                                      *)

\* What a step adds to what passes have read comes from the store.
LEMMA StepReads ==
  ASSUME TypeOK, PassInv, [Next]_vars
  PROVE  \A d \in Consolidators :
           /\ \A m \in todo'[d] : m \in todo[d] \/ \E i \in Ids : Exists(i) /\ m = Snapshot(i)
           /\ ep'[d] # None => ep'[d] = ep[d] \/ ep'[d] \in todo[d]
           /\ target'[d] # None =>
                target'[d] = target[d] \/ \E i \in Facts : target'[d] = Snapshot(i)
<1> DEFINE Reads ==
      \A d \in Consolidators :
           /\ \A m \in todo'[d] : m \in todo[d] \/ \E i \in Ids : Exists(i) /\ m = Snapshot(i)
           /\ ep'[d] # None => ep'[d] = ep[d] \/ ep'[d] \in todo[d]
           /\ target'[d] # None =>
                target'[d] = target[d] \/ \E i \in Facts : target'[d] = Snapshot(i)
<1>1. CASE UNCHANGED <<todo, ep, target>>
  BY <1>1
<1>2. ASSUME NEW c \in Consolidators, Finish(c) \/ EdgeError(c) \/ Abort(c) \/ Restart(c) PROVE Reads
  BY <1>2, LeaveTyped DEF Finish, EdgeError, Abort, Restart
<1>3. ASSUME NEW c \in Consolidators, Begin(c) PROVE Reads
  BY <1>3 DEF Begin, TypeOK, Pending, Episodes
<1>4. ASSUME NEW c \in Consolidators, Stamp(c) PROVE Reads
  BY <1>4 DEF Stamp, TypeOK
<1>5. ASSUME NEW c \in Consolidators, Classify(c) PROVE Reads
  <2>1. PICK e \in todo[c] :
          /\ todo' = [todo EXCEPT ![c] = @ \ {e}]
          /\ \/ UNCHANGED <<pc, ep, verdict, target>>
             \/ \E similar \in Similar(c, e.row.content) :
                  \E v \in Verdicts(similar, e.row.content) : TakenUp(c, e, v)
    BY <1>5, ClassifyCases
  <2>2. \A d \in Consolidators : todo'[d] \subseteq todo[d]
    BY <2>1 DEF TypeOK
  <2>3. CASE UNCHANGED <<pc, ep, verdict, target>>
    BY <2>2, <2>3
  <2>4. ASSUME NEW similar \in Similar(c, e.row.content),
               NEW v \in Verdicts(similar, e.row.content), TakenUp(c, e, v)
        PROVE  Reads
    <3>1. v.top # None => v.top \in Facts
      BY HitsAreIds
    <3> QED
      BY <2>2, <2>4, <3>1 DEF TakenUp, TypeOK
  <2> QED
    BY <2>1, <2>3, <2>4
<1>6. ASSUME NEW c \in Consolidators,
             WriteFact(c) \/ RetireNeighbors(c) \/ CloseEdge(c) \/ Closed(c) \/ Link(c) \/ Mark(c)
               \/ Project(c)
      PROVE  UNCHANGED <<todo, ep, target>>
  BY <1>6 DEF WriteFact, RetireNeighbors, CloseEdge, Closed, Link, Mark, Project
<1>7. (\E text \in Contents : Record(text)) \/ (\E i \in Ids : Forget(i)) \/ UNCHANGED vars
        => UNCHANGED <<todo, ep, target>>
  BY DEF Record, Forget, vars, pass
<1> HIDE DEF Reads
<1>8. Reads
  BY <1>1, <1>2, <1>3, <1>4, <1>5, <1>6, <1>7 DEF Next, Work, Reads
<1> QED
  BY <1>8 DEF Reads

\* The steps that concern the rows, and all that they do to them.
Quiet == UNCHANGED <<mem, next, learned, forgotten>>

LEMMA StepWrites ==
  ASSUME TypeOK, PassInv, KindInv, [Next]_vars
  PROVE  \/ Quiet
         \/ /\ next \in Ids /\ next' = next + 1 /\ UNCHANGED <<learned, forgotten>>
            /\ \E text \in Contents : mem' = [mem EXCEPT ![next] = Episode(text)]
         \/ /\ UNCHANGED <<next, learned>>
            /\ \E i \in Ids : /\ Exists(i) /\ mem' = [mem EXCEPT ![i] = None]
                              /\ forgotten' = forgotten \cup {i}
         \/ \E c \in Consolidators : WriteFact(c)
         \/ \E c \in Consolidators : Mark(c) /\ UNCHANGED <<next, learned, forgotten>>
         \/ \E c \in Consolidators : Stamp(c) /\ UNCHANGED <<next, learned, forgotten>>
<1>0. next \in 1..(MaxId + 1)
  BY DEF TypeOK
<1>1. ASSUME NEW text \in Contents, Record(text)
      PROVE  /\ next \in Ids /\ next' = next + 1 /\ UNCHANGED <<learned, forgotten>>
             /\ mem' = [mem EXCEPT ![next] = Episode(text)]
  BY <1>0, <1>1 DEF Record, PutMemory, history, Ids
<1>2. ASSUME NEW i \in Ids, Forget(i)
      PROVE  /\ UNCHANGED <<next, learned>> /\ Exists(i) /\ mem' = [mem EXCEPT ![i] = None]
             /\ forgotten' = forgotten \cup {i}
  BY <1>2 DEF Forget, PutMemory
<1>3. ASSUME NEW c \in Consolidators, Begin(c) \/ Work(c) \/ Abort(c) \/ Restart(c),
             ~WriteFact(c), ~Mark(c), ~Stamp(c)
      PROVE  Quiet
  BY <1>3, ClassifyCases DEF Work, Begin, RetireNeighbors, CloseEdge, Closed, Link, Project, Finish,
     EdgeError, Abort, Restart, store, history, Quiet
<1>4. ASSUME NEW c \in Consolidators, Mark(c) \/ Stamp(c) PROVE UNCHANGED <<next, learned, forgotten>>
  BY <1>4 DEF Mark, Stamp, history
<1>5. UNCHANGED vars => Quiet
  BY DEF vars, store, history, Quiet
<1> QED
  BY <1>1, <1>2, <1>3, <1>4, <1>5 DEF Next

\* The three writes of a pass, row by row.
LEMMA Written ==
  ASSUME TypeOK, PassInv, KindInv, NEW c \in Consolidators
  PROVE  /\ WriteFact(c) =>
              /\ next \in Ids /\ next' = next + 1 /\ forgotten' = forgotten
              /\ pc[c] = "write" /\ ep[c] \in Memory
              /\ verdict[c] = "ADD" \/ (verdict[c] = "UPDATE" /\ target[c] \in Memory)
              /\ \E text \in Contents :
                   /\ ~LLM => text = ep[c].row.content
                   /\ learned' = learned \cup {text}
                   /\ NewFact(c, text) \in Row /\ NewFact(c, text).layer = "semantic"
                   /\ NewFact(c, text).content = text
                   /\ mem' = [mem EXCEPT ![next] = NewFact(c, text)]
         /\ Mark(c) =>
              /\ pc[c] = "mark" /\ target[c] \in Memory /\ FactLike(target[c].id)
              /\ verdict[c] \in {"UPDATE", "DELETE"}
              /\ MarkedRow(c) \in Row /\ IsRetired(MarkedRow(c)) /\ MarkedRow(c).layer = "semantic"
              /\ MarkedRow(c).content = target[c].row.content
              /\ mem' = [mem EXCEPT ![target[c].id] = MarkedRow(c)]
         /\ Stamp(c) =>
              /\ pc[c] = "stamp" /\ ep[c] \in Memory /\ EpisodeLike(ep[c].id)
              /\ StampedRow(c) \in Row /\ StampedRow(c).stamped /\ StampedRow(c).layer = "episodic"
              /\ StampedRow(c).content = ep[c].row.content
              /\ mem' = [mem EXCEPT ![ep[c].id] = StampedRow(c)]
<1>1. ASSUME WriteFact(c)
      PROVE  /\ next \in Ids /\ next' = next + 1 /\ forgotten' = forgotten
             /\ pc[c] = "write" /\ ep[c] \in Memory
             /\ verdict[c] = "ADD" \/ (verdict[c] = "UPDATE" /\ target[c] \in Memory)
             /\ \E text \in Contents :
                   /\ ~LLM => text = ep[c].row.content
                   /\ learned' = learned \cup {text}
                   /\ NewFact(c, text) \in Row /\ NewFact(c, text).layer = "semantic"
                   /\ NewFact(c, text).content = text
                   /\ mem' = [mem EXCEPT ![next] = NewFact(c, text)]
  <2>1. /\ next \in Ids /\ next' = next + 1 /\ forgotten' = forgotten
        /\ pc[c] = "write" /\ ep[c] \in Memory
        /\ verdict[c] = "ADD" \/ (verdict[c] = "UPDATE" /\ target[c] \in Memory)
    BY <1>1 DEF WriteFact, TypeOK, Ids, PassInv, Holds
  <2>2. PICK text \in IF LLM THEN Contents ELSE {ep[c].row.content} :
          mem' = [mem EXCEPT ![next] = NewFact(c, text)] /\ learned' = learned \cup {text}
    BY <1>1 DEF WriteFact, PutMemory
  <2>3. text \in Contents /\ (~LLM => text = ep[c].row.content)
    BY <2>1, <2>2 DEF Memory, Row
  <2>4. target[c] # None => target[c].row.layer = "semantic"
    BY DEF KindInv
  <2>5. NewFact(c, text) \in Row /\ NewFact(c, text).layer = "semantic"
        /\ NewFact(c, text).content = text
    BY <2>1, <2>3, <2>4, FactRow
  <2> QED
    BY <2>1, <2>2, <2>3, <2>5
<1>2. ASSUME Mark(c)
      PROVE  /\ pc[c] = "mark" /\ target[c] \in Memory /\ FactLike(target[c].id)
             /\ verdict[c] \in {"UPDATE", "DELETE"}
             /\ MarkedRow(c) \in Row /\ IsRetired(MarkedRow(c)) /\ MarkedRow(c).layer = "semantic"
             /\ MarkedRow(c).content = target[c].row.content
             /\ mem' = [mem EXCEPT ![target[c].id] = MarkedRow(c)]
  <2>1. /\ target[c] \in Memory /\ (verdict[c] = "UPDATE" => fact[c] \in Ids)
        /\ verdict[c] \in {"UPDATE", "DELETE"} /\ pc[c] = "mark"
        /\ mem' = [mem EXCEPT ![target[c].id] = MarkedRow(c)]
    BY <1>2 DEF Mark, PassInv, Holds, PutMemory, MarkedRow
  <2> QED
    BY <2>1, MarkedRowFacts, KindsOfState
<1>3. ASSUME Stamp(c)
      PROVE  /\ pc[c] = "stamp" /\ ep[c] \in Memory /\ EpisodeLike(ep[c].id)
             /\ StampedRow(c) \in Row /\ StampedRow(c).stamped /\ StampedRow(c).layer = "episodic"
             /\ StampedRow(c).content = ep[c].row.content
             /\ mem' = [mem EXCEPT ![ep[c].id] = StampedRow(c)]
  <2>1. /\ ep[c] \in Memory /\ pc[c] = "stamp"
        /\ mem' = [mem EXCEPT ![ep[c].id] = StampedRow(c)]
    BY <1>3 DEF Stamp, PassInv, Holds, PutMemory, StampedRow
  <2> QED
    BY <2>1, StampedRowFacts, KindsOfState
<1> QED
  BY <1>1, <1>2, <1>3

\* Who says something is known, and has an id that was handed out.
LEMMA SaidIsKnown ==
  ASSUME TypeOK, KindInv, NEW i \in Ids, NEW text, Says(i, text)
  PROVE  (EpisodeLike(i) \/ FactLike(i)) /\ i < next
<1>1. mem[i] # None => mem[i].layer \in {"episodic", "semantic"}
  BY DEF TypeOK, Row
<1>2. EpisodeLike(i) \/ FactLike(i)
  BY <1>1 DEF Says, EpisodeLike, FactLike
<1> QED
  BY <1>2 DEF KindInv

\* What passes read is what was said before.
LEMMA ReadIsSaid ==
  ASSUME TypeOK, PassInv, [Next]_vars, NEW i \in Ids, NEW text, Says(i, text)',
         ~(mem'[i] # None /\ mem'[i].content = text)
  PROVE  Says(i, text)
<1>1. CASE \E d \in Consolidators : \E m \in todo'[d] : m.id = i /\ m.row.content = text
  <2>0. PICK d \in Consolidators : \E m \in todo'[d] : m.id = i /\ m.row.content = text
    BY <1>1
  <2>1. PICK m \in todo'[d] : m.id = i /\ m.row.content = text
    BY <2>0
  <2>2. CASE m \in todo[d]
    BY <2>1, <2>2 DEF Says
  <2>3. ASSUME NEW j \in Ids, Exists(j), m = Snapshot(j) PROVE Says(i, text)
    BY <2>1, <2>3, SnapshotType DEF Says, Exists
  <2> QED
    BY <2>1, <2>2, <2>3, StepReads
<1>2. CASE \E d \in Consolidators : ep'[d] # None /\ ep'[d].id = i /\ ep'[d].row.content = text
  BY <1>2, StepReads DEF Says
<1>3. CASE \E d \in Consolidators :
             target'[d] # None /\ target'[d].id = i /\ target'[d].row.content = text
  <2>1. PICK d \in Consolidators :
          target'[d] # None /\ target'[d].id = i /\ target'[d].row.content = text
    BY <1>3
  <2>2. CASE target'[d] = target[d]
    BY <2>1, <2>2 DEF Says
  <2>3. ASSUME NEW j \in Facts, target'[d] = Snapshot(j) PROVE Says(i, text)
    BY <2>1, <2>3, SnapshotType DEF Says, Facts, Exists
  <2> QED
    BY <2>1, <2>2, <2>3, StepReads
<1> QED
  BY <1>1, <1>2, <1>3 DEF Says

\* What a step writes was said under this id before, or the id is new.
LEMMA WrittenIsSaid ==
  ASSUME TypeOK, PassInv, KindInv, [Next]_vars, NEW i \in Ids, mem'[i] # None
  PROVE  Says(i, mem'[i].content) \/ (i = next /\ next' = next + 1)
<1>1. CASE mem'[i] = mem[i]
  BY <1>1 DEF Says
<1>2. ASSUME mem' = [mem EXCEPT ![next] = mem'[next]] \/ \E j \in Ids : mem' = [mem EXCEPT ![j] = None]
      PROVE  i = next \/ mem'[i] = mem[i]
  BY <1>2 DEF TypeOK
<1>3. ASSUME NEW c \in Consolidators, Mark(c) PROVE Says(i, mem'[i].content)
  BY <1>3, Written DEF TypeOK, Memory, Says
<1>4. ASSUME NEW c \in Consolidators, Stamp(c) PROVE Says(i, mem'[i].content)
  BY <1>4, Written DEF TypeOK, Memory, Says
<1>5. ASSUME NEW c \in Consolidators, WriteFact(c) PROVE mem'[i] = mem[i] \/ (i = next /\ next' = next + 1)
  BY <1>5, Written DEF TypeOK
<1>6. ASSUME NEW text \in Contents, mem' = [mem EXCEPT ![next] = Episode(text)], next' = next + 1
      PROVE  mem'[i] = mem[i] \/ (i = next /\ next' = next + 1)
  BY <1>6 DEF TypeOK
<1>7. ASSUME NEW j \in Ids, mem' = [mem EXCEPT ![j] = None] PROVE mem'[i] = mem[i]
  BY <1>7 DEF TypeOK
<1> QED
  BY <1>1, <1>3, <1>4, <1>5, <1>6, <1>7, StepWrites DEF Quiet

\* Every step keeps the words under their ids.
LEMMA NextWords ==
  ASSUME TypeOK, PassInv, KindInv, WordsInv, [Next]_vars
  PROVE  WordsInv'
<1> SUFFICES ASSUME NEW i \in Ids, NEW s, NEW t, Says(i, s)', Says(i, t)' PROVE s = t
  BY DEF WordsInv
<1>1. CASE Says(i, s) /\ Says(i, t)
  BY <1>1 DEF WordsInv
<1>2. CASE mem'[i] # None /\ mem'[i].content = s /\ mem'[i].content = t
  BY <1>2
<1>3. ASSUME NEW u, Says(i, u)', ~Says(i, u)
      PROVE  mem'[i] # None /\ mem'[i].content = u /\ i = next
  BY <1>3, ReadIsSaid, WrittenIsSaid
<1>4. ASSUME i = next, NEW u, Says(i, u) PROVE FALSE
  BY <1>4, SaidIsKnown DEF TypeOK
<1> QED
  BY <1>1, <1>2, <1>3, <1>4

\* Every step leaves the rows it does not forget.
LEMMA NextGone ==
  ASSUME TypeOK, PassInv, KindInv, GoneInv, [Next]_vars
  PROVE  GoneInv'
<1>0. next \in Nat /\ Ids \subseteq Nat /\ None \notin Row
  BY DEF TypeOK, Ids
<1>1. CASE Quiet
  BY <1>1 DEF Quiet, GoneInv
<1>2. ASSUME NEW text \in Contents, next' = next + 1, forgotten' = forgotten,
             mem' = [mem EXCEPT ![next] = Episode(text)]
      PROVE  GoneInv'
  BY <1>0, <1>2, EpisodeRow DEF GoneInv, TypeOK
<1>3. ASSUME NEW j \in Ids, next' = next, mem' = [mem EXCEPT ![j] = None],
             forgotten' = forgotten \cup {j}
      PROVE  GoneInv'
  BY <1>3 DEF GoneInv, TypeOK
<1>4. ASSUME NEW c \in Consolidators, WriteFact(c) PROVE GoneInv'
  <2>1. PICK row \in Row : mem' = [mem EXCEPT ![next] = row]
    BY <1>4, Written
  <2>2. next' = next + 1 /\ forgotten' = forgotten
    BY <1>4, Written
  <2> QED
    BY <1>0, <2>1, <2>2 DEF GoneInv, TypeOK
<1>5. ASSUME NEW c \in Consolidators, Mark(c) \/ Stamp(c), UNCHANGED <<next, forgotten>> PROVE GoneInv'
  <2>1. PICK row \in Row, j \in Ids : mem' = [mem EXCEPT ![j] = row]
    BY <1>5, Written DEF Memory
  <2> QED
    BY <1>0, <1>5, <2>1 DEF GoneInv, TypeOK
<1> QED
  BY <1>1, <1>2, <1>3, <1>4, <1>5, StepWrites

\* A fact has an id that was handed out, and never an episode's.
LEMMA FactIds ==
  ASSUME TypeOK, KindInv, NEW i \in Facts
  PROVE  i \in Ids /\ i < next /\ i # next /\ FactLike(i)
<1>1. i \in Ids /\ mem[i] # None /\ mem[i].layer = "semantic"
  BY DEF Facts, Exists
<1>2. FactLike(i)
  BY <1>1 DEF FactLike
<1>3. i < next /\ next \in Nat /\ i \in Nat
  BY <1>1, <1>2 DEF KindInv, TypeOK, Ids
<1> QED
  BY <1>1, <1>2, <1>3

\* A row is a fact's for good, until a client forgets it; and what is out of use
\* stays out of use.
LEMMA FactsLast ==
  ASSUME TypeOK, PassInv, KindInv, [Next]_vars, NEW i \in Ids
  PROVE  /\ i \in Facts \cup forgotten => i \in Facts' \cup forgotten'
         /\ Live(i)' => Live(i) \/ i = next
<1>0. next \in Nat /\ None \notin Row /\ i \in Nat
  BY DEF TypeOK, Ids
<1> USE DEF Facts, Live, Exists
<1>1. CASE Quiet
  BY <1>1 DEF Quiet
<1>2. ASSUME NEW text \in Contents, next' = next + 1, forgotten' = forgotten,
             mem' = [mem EXCEPT ![next] = Episode(text)]
      PROVE  /\ i \in Facts \cup forgotten => i \in Facts' \cup forgotten'
             /\ Live(i)' => Live(i) \/ i = next
  <2>1. i \in Facts => i # next
    BY FactIds
  <2> QED
    BY <1>2, <2>1 DEF TypeOK
<1>3. ASSUME NEW j \in Ids, next' = next, mem' = [mem EXCEPT ![j] = None],
             forgotten' = forgotten \cup {j}
      PROVE  /\ i \in Facts \cup forgotten => i \in Facts' \cup forgotten'
             /\ Live(i)' => Live(i) \/ i = next
  BY <1>3 DEF TypeOK
<1>4. ASSUME NEW c \in Consolidators, WriteFact(c)
      PROVE  /\ i \in Facts \cup forgotten => i \in Facts' \cup forgotten'
             /\ Live(i)' => Live(i) \/ i = next
  <2>1. i \in Facts => i # next
    BY FactIds
  <2>2. mem'[i] = mem[i] \/ i = next
    BY <1>4, Written DEF TypeOK
  <2> QED
    BY <1>4, <2>1, <2>2, Written
<1>5. ASSUME NEW c \in Consolidators, Mark(c), UNCHANGED <<next, forgotten>>
      PROVE  /\ i \in Facts \cup forgotten => i \in Facts' \cup forgotten'
             /\ Live(i)' => Live(i) \/ i = next
  BY <1>0, <1>5, Written DEF TypeOK, Memory
<1>6. ASSUME NEW c \in Consolidators, Stamp(c), UNCHANGED <<next, forgotten>>
      PROVE  /\ i \in Facts \cup forgotten => i \in Facts' \cup forgotten'
             /\ Live(i)' => Live(i) \/ i = next
  <2>1. i \in Facts => i # ep[c].id
    BY <1>6, Written, KindsOfState DEF KindInv, Memory
  <2> QED
    BY <1>0, <1>6, <2>1, Written DEF TypeOK, Memory
<1> QED
  BY <1>1, <1>2, <1>3, <1>4, <1>5, <1>6, StepWrites

\* A pass that retires keeps its target, its verdict and its fact to its mark.
LEMMA StepTurns ==
  ASSUME TypeOK, PassInv, KindInv, [Next]_vars, NEW c \in Consolidators,
         pc'[c] \in {"neighbors", "close", "link", "mark"}, verdict'[c] = "UPDATE"
  PROVE  \/ /\ pc[c] \in {"neighbors", "close", "link", "mark"} /\ verdict[c] = "UPDATE"
            /\ target'[c] = target[c] /\ fact'[c] = fact[c]
         \/ WriteFact(c) /\ target'[c] = target[c] /\ fact'[c] = next
<1>1. CASE (\E text \in Contents : Record(text)) \/ (\E i \in Ids : Forget(i)) \/ UNCHANGED vars
  BY <1>1 DEF Record, Forget, vars, pass
<1>2. ASSUME NEW d \in Consolidators, Finish(d) \/ EdgeError(d) \/ Abort(d) \/ Restart(d)
      PROVE  /\ pc[c] \in {"neighbors", "close", "link", "mark"} /\ verdict[c] = "UPDATE"
             /\ target'[c] = target[c] /\ fact'[c] = fact[c]
  BY <1>2, LeaveTyped DEF Finish, EdgeError, Abort, Restart
<1>3. ASSUME NEW d \in Consolidators, Classify(d)
      PROVE  /\ pc[c] \in {"neighbors", "close", "link", "mark"} /\ verdict[c] = "UPDATE"
             /\ target'[c] = target[c] /\ fact'[c] = fact[c]
  <2>1. PICK e \in todo[d] :
          \/ UNCHANGED <<pc, ep, verdict, target>>
          \/ \E similar \in Similar(d, e.row.content) :
               \E v \in Verdicts(similar, e.row.content) : TakenUp(d, e, v)
    BY <1>3, ClassifyCases
  <2>2. UNCHANGED fact
    BY <1>3, ClassifyCases
  <2>3. CASE UNCHANGED <<pc, ep, verdict, target>>
    BY <2>2, <2>3
  <2>4. ASSUME NEW v, TakenUp(d, e, v)
        PROVE  /\ pc[c] \in {"neighbors", "close", "link", "mark"} /\ verdict[c] = "UPDATE"
               /\ target'[c] = target[c] /\ fact'[c] = fact[c]
    <3>1. d = c => verdict'[c] = v.act /\ pc'[c] = AfterVerdict(v)
      BY <2>4 DEF TakenUp, Goto, TypeOK
    <3>2. d # c
      BY <3>1 DEF AfterVerdict
    <3> QED
      BY <2>2, <2>4, <3>2 DEF TakenUp, Goto, TypeOK
  <2> QED
    BY <2>1, <2>3, <2>4
<1>4. ASSUME NEW d \in Consolidators, WriteFact(d)
      PROVE  \/ /\ pc[c] \in {"neighbors", "close", "link", "mark"} /\ verdict[c] = "UPDATE"
                /\ target'[c] = target[c] /\ fact'[c] = fact[c]
             \/ WriteFact(c) /\ target'[c] = target[c] /\ fact'[c] = next
  BY <1>4 DEF WriteFact, Goto, TypeOK
<1>5. ASSUME NEW d \in Consolidators,
             Begin(d) \/ RetireNeighbors(d) \/ CloseEdge(d) \/ Closed(d) \/ Link(d) \/ Mark(d)
               \/ Project(d) \/ Stamp(d)
      PROVE  /\ pc[c] \in {"neighbors", "close", "link", "mark"} /\ verdict[c] = "UPDATE"
             /\ target'[c] = target[c] /\ fact'[c] = fact[c]
  <2>1. CASE Begin(d) \/ Stamp(d)
    BY <2>1 DEF Begin, Stamp, Goto, TypeOK
  <2>2. CASE RetireNeighbors(d) \/ CloseEdge(d) \/ Closed(d) \/ Link(d)
    BY <2>2 DEF RetireNeighbors, CloseEdge, Closed, Link, Goto, TypeOK
  <2>3. CASE Mark(d) \/ Project(d)
    BY <2>3 DEF Mark, Project, Goto, TypeOK
  <2> QED
    BY <1>5, <2>1, <2>2, <2>3
<1> QED
  BY <1>1, <1>2, <1>3, <1>4, <1>5 DEF Next, Work

\* Every step keeps what passes know of the facts they retire.
LEMMA NextTurn ==
  ASSUME TypeOK, TypeOK', PassInv, PassInv', KindInv, TurnInv, [Next]_vars
  PROVE  TurnInv'
<1>0. next \in Nat /\ next' \in Nat /\ Ids \subseteq Nat /\ Facts \subseteq Ids /\ forgotten \subseteq Ids
  BY DEF TypeOK, Ids, Facts
<1>1. next' \in {next, next + 1}
  BY StepWrites, Written DEF Quiet
<1> SUFFICES ASSUME NEW c \in Consolidators
             PROVE  /\ target'[c] # None /\ IsRetired(target'[c].row) => ~(Live(target[c].id))'
                    /\ pc'[c] \in {"neighbors", "close", "link", "mark"} /\ verdict'[c] = "UPDATE" =>
                         /\ fact'[c] \in Facts' \cup forgotten'
                         /\ target'[c].id < fact'[c] /\ fact'[c] < next'
  BY DEF TurnInv, IsRetired
<1>2. ASSUME target'[c] # None, IsRetired(target'[c].row) PROVE ~(Live(target[c].id))'
  <2>1. target'[c].id \in Ids /\ ~Live(target'[c].id) /\ target'[c].id < next
    <3>1. CASE target'[c] = target[c]
      BY <1>2, <3>1, KindsOfState DEF TurnInv, TypeOK, Memory, KindInv
    <3>2. ASSUME NEW j \in Facts, target'[c] = Snapshot(j)
          PROVE  target'[c].id \in Ids /\ ~Live(target'[c].id) /\ target'[c].id < next
      BY <1>0, <1>2, <3>2, KindsOfState DEF Snapshot, Live, Facts, Exists, KindInv
    <3> QED
      BY <1>2, <3>1, <3>2, StepReads
  <2>2. PICK i \in Ids : i = target'[c].id
    BY <2>1
  <2>3. ~Live(i)'
    BY <1>0, <2>1, <2>2, FactsLast
  <2> QED
    BY <2>2, <2>3 DEF Live, Facts, Exists
<1>3. ASSUME pc'[c] \in {"neighbors", "close", "link", "mark"}, verdict'[c] = "UPDATE"
      PROVE  /\ fact'[c] \in Facts' \cup forgotten'
             /\ target'[c].id < fact'[c] /\ fact'[c] < next'
  <2>1. CASE /\ pc[c] \in {"neighbors", "close", "link", "mark"} /\ verdict[c] = "UPDATE"
             /\ target'[c] = target[c] /\ fact'[c] = fact[c]
    <3>1. fact[c] \in Facts \cup forgotten /\ target[c].id < fact[c] /\ fact[c] < next
      BY <2>1 DEF TurnInv
    <3>2. fact[c] \in Facts' \cup forgotten'
      BY <1>0, <3>1, FactsLast
    <3>3. target'[c].id < fact'[c]
      BY <2>1, <3>1
    <3>4. fact[c] \in Nat
      BY <1>0, <3>1
    <3>5. fact[c] < next'
      BY <1>0, <1>1, <3>1, <3>4
    <3> QED
      BY <2>1, <3>2, <3>3, <3>5
  <2>2. CASE WriteFact(c) /\ target'[c] = target[c] /\ fact'[c] = next
    <3>1. next \in Ids /\ next' = next + 1 /\ next \in Facts'
      BY <2>2, Written DEF Facts, Exists, TypeOK
    <3>2. target'[c] \in Memory
      BY <1>3 DEF PassInv, Holds
    <3>3. target[c].id < next
      BY <2>2, <3>2, KindsOfState DEF KindInv, Memory
    <3> QED
      BY <1>0, <2>2, <3>1, <3>3
  <2> QED
    BY <1>3, <2>1, <2>2, StepTurns
<1> QED
  BY <1>2, <1>3

\* What those who record see of a step that writes one row.
LEMMA OneRow ==
  ASSUME TypeOK, NEW j \in Ids, NEW r \in Row \cup {None}, mem' = [mem EXCEPT ![j] = r]
  PROVE  /\ Said(Pending)' = [Said(Pending) EXCEPT ![j] =
              IF r # None /\ r.layer = "episodic" /\ ~r.stamped THEN r.content ELSE None]
         /\ Said(Facts)' = [Said(Facts) EXCEPT ![j] =
              IF r # None /\ r.layer = "semantic" THEN r.content ELSE None]
         /\ {i \in Ids : Live(i)}' =
              IF r # None /\ r.layer = "semantic" /\ ~IsRetired(r)
                THEN {i \in Ids : Live(i)} \cup {j} ELSE {i \in Ids : Live(i)} \ {j}
<1>1. \A i \in Ids : mem'[i] = IF i = j THEN r ELSE mem[i]
  BY DEF TypeOK
<1>2. /\ \A i \in Ids : i \in Pending' <=>
           IF i = j THEN r # None /\ r.layer = "episodic" /\ ~r.stamped ELSE i \in Pending
      /\ \A i \in Ids : i \in Facts' <=>
           IF i = j THEN r # None /\ r.layer = "semantic" ELSE i \in Facts
  BY <1>1 DEF Pending, Episodes, Facts, Exists
<1>3. \A i \in Ids : Live(i)' <=>
        IF i = j THEN r # None /\ r.layer = "semantic" /\ ~IsRetired(r) ELSE Live(i)
  BY <1>1, <1>2 DEF Live, IsRetired
<1> DEFINE w == IF r # None /\ r.layer = "episodic" /\ ~r.stamped THEN r.content ELSE None
           f == IF r # None /\ r.layer = "semantic" THEN r.content ELSE None
<1>4. Said(Pending)' = [Said(Pending) EXCEPT ![j] = w]
  <2>1. Said(Pending)' = [i \in Ids |-> IF i \in Pending' THEN mem'[i].content ELSE None]
    BY DEF Said
  <2>2. \A i \in Ids : (IF i \in Pending' THEN mem'[i].content ELSE None)
                       = IF i = j THEN w ELSE IF i \in Pending THEN mem[i].content ELSE None
    BY <1>1, <1>2
  <2> HIDE DEF w
  <2>3. Said(Pending)' = [i \in Ids |-> IF i = j THEN w
                                       ELSE IF i \in Pending THEN mem[i].content ELSE None]
    BY <2>1, <2>2
  <2> QED
    BY <2>3 DEF Said
<1>5. Said(Facts)' = [Said(Facts) EXCEPT ![j] = f]
  <2>1. Said(Facts)' = [i \in Ids |-> IF i \in Facts' THEN mem'[i].content ELSE None]
    BY DEF Said
  <2>2. \A i \in Ids : (IF i \in Facts' THEN mem'[i].content ELSE None)
                       = IF i = j THEN f ELSE IF i \in Facts THEN mem[i].content ELSE None
    BY <1>1, <1>2
  <2> HIDE DEF f
  <2>3. Said(Facts)' = [i \in Ids |-> IF i = j THEN f
                                     ELSE IF i \in Facts THEN mem[i].content ELSE None]
    BY <2>1, <2>2
  <2> QED
    BY <2>3 DEF Said
<1>6. {i \in Ids : Live(i)}' =
        IF r # None /\ r.layer = "semantic" /\ ~IsRetired(r)
          THEN {i \in Ids : Live(i)} \cup {j} ELSE {i \in Ids : Live(i)} \ {j}
  BY <1>3
<1> QED
  BY <1>4, <1>5, <1>6

\* What they see of one id.
LEMMA SaidOf ==
  ASSUME TypeOK, NEW i \in Ids
  PROVE  /\ Said(Pending)[i] = IF mem[i] # None /\ mem[i].layer = "episodic" /\ ~mem[i].stamped
                                 THEN mem[i].content ELSE None
         /\ Said(Facts)[i] = IF mem[i] # None /\ mem[i].layer = "semantic"
                               THEN mem[i].content ELSE None
         /\ Live(i) <=> mem[i] # None /\ mem[i].layer = "semantic" /\ ~IsRetired(mem[i])
         /\ mem[i] # None => mem[i].content \in Contents /\ mem[i].content # None
  BY NoneAssumption DEF Said, Pending, Episodes, Facts, Exists, Live, TypeOK, Row

\* Both functions are functions of the ids.
LEMMA SaidFunctions ==
  /\ \A i \in Ids : \A t : t = Said(Pending)[i] => [Said(Pending) EXCEPT ![i] = t] = Said(Pending)
  /\ \A i \in Ids : \A t : t = Said(Facts)[i] => [Said(Facts) EXCEPT ![i] = t] = Said(Facts)
  BY DEF Said

\* An episode written where no fact is concerns what waits; a fact written where
\* no episode is, the facts.
LEMMA OneEpisode ==
  ASSUME TypeOK, NEW j \in Ids, NEW r \in Row, mem' = [mem EXCEPT ![j] = r],
         r.layer = "episodic", mem[j] # None => mem[j].layer = "episodic"
  PROVE  /\ Said(Pending)' = [Said(Pending) EXCEPT ![j] = IF r.stamped THEN None ELSE r.content]
         /\ Said(Facts)' = Said(Facts)
         /\ {i \in Ids : Live(i)}' = {i \in Ids : Live(i)}
<1>1. r # None /\ r.stamped \in BOOLEAN
  BY DEF Row
<1>2. Said(Facts)[j] = None /\ ~Live(j)
  BY SaidOf
<1>3. /\ Said(Pending)' = [Said(Pending) EXCEPT ![j] = IF ~r.stamped THEN r.content ELSE None]
      /\ Said(Facts)' = [Said(Facts) EXCEPT ![j] = None]
      /\ {i \in Ids : Live(i)}' = {i \in Ids : Live(i)} \ {j}
  BY <1>1, OneRow
<1>4. [Said(Facts) EXCEPT ![j] = None] = Said(Facts)
  BY <1>2, SaidFunctions
<1>5. (IF ~r.stamped THEN r.content ELSE None) = IF r.stamped THEN None ELSE r.content
  OBVIOUS
<1> QED
  BY <1>2, <1>3, <1>4, <1>5

LEMMA OneFact ==
  ASSUME TypeOK, NEW j \in Ids, NEW r \in Row, mem' = [mem EXCEPT ![j] = r],
         r.layer = "semantic", mem[j] # None => mem[j].layer = "semantic"
  PROVE  /\ Said(Pending)' = Said(Pending)
         /\ Said(Facts)' = [Said(Facts) EXCEPT ![j] = r.content]
         /\ {i \in Ids : Live(i)}' = IF IsRetired(r) THEN {i \in Ids : Live(i)} \ {j}
                                                    ELSE {i \in Ids : Live(i)} \cup {j}
<1>1. r # None
  OBVIOUS
<1>2. Said(Pending)[j] = None
  BY SaidOf
<1>3. /\ Said(Pending)' = [Said(Pending) EXCEPT ![j] = None]
      /\ Said(Facts)' = [Said(Facts) EXCEPT ![j] = r.content]
      /\ {i \in Ids : Live(i)}' = IF ~IsRetired(r) THEN {i \in Ids : Live(i)} \cup {j}
                                                  ELSE {i \in Ids : Live(i)} \ {j}
  BY <1>1, OneRow
<1>4. [Said(Pending) EXCEPT ![j] = None] = Said(Pending)
  BY <1>2, SaidFunctions
<1> QED
  BY <1>3, <1>4

\* The ids handed out.
Used == {i \in Ids : i < next}

LEMMA OnRecordIs ==
  ASSUME TypeOK, KindInv, NEW i \in Facts \cup forgotten
  PROVE  i \in Ids /\ i \in Used /\ KN!OnRecord(i)
<1>0. i \in Ids
  BY DEF Facts, TypeOK
<1>1. CASE i \in Facts
  <2>1. i \in Used /\ Said(Facts)[i] # None
    BY <1>0, <1>1, FactIds, SaidOf DEF Facts, Exists, Used
  <2> QED
    BY <1>0, <2>1 DEF KN!OnRecord, Used
<1>2. CASE i \in forgotten
  BY <1>0, <1>2 DEF KindInv, KN!OnRecord, Used
<1> QED
  BY <1>1, <1>2

\* An id that is no more is forgotten; one read as a fact holds a fact, one read
\* as an episode an episode.
LEMMA ReadRows ==
  ASSUME TypeOK, KindInv, GoneInv, WordsInv, NEW i \in Ids
  PROVE  /\ FactLike(i) => i < next /\ (i \in forgotten \/ i \in Facts)
         /\ EpisodeLike(i) => i < next /\ (i \in forgotten \/ i \in Episodes)
         /\ \A c \in Consolidators :
              /\ ep[c] # None /\ ep[c].id = i /\ mem[i] # None => mem[i].content = ep[c].row.content
              /\ target[c] # None /\ target[c].id = i /\ mem[i] # None
                   => mem[i].content = target[c].row.content
<1>1. mem[i] # None => mem[i].layer \in {"episodic", "semantic"}
  BY DEF TypeOK, Row
<1>2. ASSUME FactLike(i), mem[i] # None PROVE i \in Facts
  BY <1>1, <1>2, KindsOfState DEF KindInv, Facts, Exists
<1>3. ASSUME EpisodeLike(i), mem[i] # None PROVE i \in Episodes
  BY <1>1, <1>3, KindsOfState DEF KindInv, Episodes, Exists
<1>4. EpisodeLike(i) \/ FactLike(i) => i < next
  BY DEF KindInv
<1>5. mem[i] = None /\ i < next => i \in forgotten
  BY DEF GoneInv
<1>6. \A c \in Consolidators :
        /\ ep[c] # None /\ ep[c].id = i /\ mem[i] # None => mem[i].content = ep[c].row.content
        /\ target[c] # None /\ target[c].id = i /\ mem[i] # None
             => mem[i].content = target[c].row.content
  BY DEF WordsInv, Says
<1> QED
  BY <1>2, <1>3, <1>4, <1>5, <1>6

\* What a client records waits.
LEMMA RecordHears ==
  ASSUME TypeOK, KindInv, next \in Ids, next' = next + 1, UNCHANGED <<learned, forgotten>>,
         NEW text \in Contents, mem' = [mem EXCEPT ![next] = Episode(text)]
  PROVE  KN!Hear(next, text)
<1>1. /\ Episode(text) \in Row /\ Episode(text).layer = "episodic" /\ ~Episode(text).stamped
      /\ Episode(text).content = text /\ Episode(text) # None
  BY EpisodeRow DEF Episode
<1>2. ~FactLike(next) /\ ~EpisodeLike(next) /\ next \in Nat
  BY DEF KindInv, TypeOK
<1>3. mem[next] = None \/ mem[next].layer \in {"episodic", "semantic"}
  BY DEF TypeOK, Row
<1>4. mem[next] = None
  BY <1>2, <1>3, KindsOfState
<1>5. Said(Pending)' = [Said(Pending) EXCEPT ![next] = text]
  BY <1>1, <1>4, OneEpisode
<1>6. Said(Facts)' = Said(Facts)
  BY <1>1, <1>4, OneEpisode
<1>7. {i \in Ids : Live(i)}' = {i \in Ids : Live(i)}
  BY <1>1, <1>4, OneEpisode
<1>8. next \notin Used /\ Used' = Used \cup {next}
  BY <1>2 DEF Used, Ids
<1> QED
  BY <1>5, <1>6, <1>7, <1>8 DEF KN!Hear, Used

\* What a client forgets is gone.
LEMMA ForgetForgets ==
  ASSUME TypeOK, KindInv, UNCHANGED <<next, learned>>, NEW j \in Ids, Exists(j),
         mem' = [mem EXCEPT ![j] = None], forgotten' = forgotten \cup {j}
  PROVE  KN!Forget(j)
<1>1. /\ Said(Pending)' = [Said(Pending) EXCEPT ![j] = None]
      /\ Said(Facts)' = [Said(Facts) EXCEPT ![j] = None]
      /\ {i \in Ids : Live(i)}' = {i \in Ids : Live(i)} \ {j}
  BY OneRow
<1>2. mem[j].layer \in {"episodic", "semantic"}
  BY DEF Exists, TypeOK, Row
<1>3. j \in Used /\ Used' = Used
  BY <1>2, KindsOfState DEF Exists, KindInv, Used
<1> QED
  BY <1>1, <1>3 DEF KN!Forget, Used

\* What a pass writes as a fact waits, is known or was forgotten meanwhile.
LEMMA WriteLearns ==
  ASSUME TypeOK, PassInv, KindInv, LearnedInv, SaidInv, NEW c \in Consolidators, WriteFact(c)
  PROVE  \E text \in Contents : KN!Learn(next, text)
<1>1. /\ next \in Ids /\ next' = next + 1 /\ forgotten' = forgotten
      /\ pc[c] = "write" /\ ep[c] \in Memory
      /\ verdict[c] = "ADD" \/ (verdict[c] = "UPDATE" /\ target[c] \in Memory)
  BY Written
<1>2. PICK text \in Contents :
        /\ ~LLM => text = ep[c].row.content
        /\ learned' = learned \cup {text}
        /\ NewFact(c, text) \in Row /\ NewFact(c, text).layer = "semantic"
        /\ NewFact(c, text).content = text
        /\ mem' = [mem EXCEPT ![next] = NewFact(c, text)]
  BY Written
<1> DEFINE r == NewFact(c, text)
           live == {i \in Ids : Live(i)}
<1>3. ~FactLike(next) /\ ~EpisodeLike(next) /\ next \in Nat
  BY <1>1 DEF KindInv, TypeOK
<1>4. mem[next] = None
  BY <1>1, <1>3, KindsOfState DEF TypeOK, Row
<1>5. /\ Said(Pending)' = Said(Pending)
      /\ Said(Facts)' = [Said(Facts) EXCEPT ![next] = text]
      /\ live' = IF IsRetired(r) THEN live ELSE live \cup {next}
  <2>1. next \notin live
    BY <1>1, <1>4, SaidOf
  <2>2. PICK row \in Row :
          /\ row = NewFact(c, text) /\ row.layer = "semantic" /\ row.content = text
          /\ mem' = [mem EXCEPT ![next] = row]
    BY <1>2
  <2>3. /\ Said(Pending)' = Said(Pending)
        /\ Said(Facts)' = [Said(Facts) EXCEPT ![next] = row.content]
        /\ live' = IF IsRetired(row) THEN live \ {next} ELSE live \cup {next}
    BY <1>1, <1>4, <2>2, OneFact
  <2>4. live \ {next} = live
    BY <2>1
  <2> QED
    BY <2>2, <2>3, <2>4
<1>6. next \notin Used /\ Used' = Used \cup {next}
  BY <1>1, <1>3 DEF Used, Ids
<1>7. ~LLM => text \in learned \cup {Said(Pending)[j] : j \in Ids} \/ forgotten # {}
  <2> SUFFICES ASSUME ~LLM, forgotten = {} PROVE text \in learned \cup {Said(Pending)[j] : j \in Ids}
    OBVIOUS
  <2>1. PICK e \in Ids : e = ep[c].id
    BY <1>1 DEF Memory
  <2>2. EpisodeLike(e)
    BY <1>1, <2>1, KindsOfState
  <2>3. e \in Episodes /\ mem[e].content = text
    BY <1>1, <1>2, <2>1, <2>2, ReadRows DEF SaidInv, Episodes, Exists
  <2>4. CASE mem[e].stamped
    BY <2>3, <2>4 DEF LearnedInv, StampedIsLearned
  <2>5. CASE ~mem[e].stamped
    BY <2>3, <2>5, SaidOf DEF Episodes, Exists
  <2> QED
    BY <2>4, <2>5
<1>8. IsRetired(r) => \E j \in Ids : KN!OnRecord(j) /\ ~Live(j)
  <2> SUFFICES ASSUME IsRetired(r) PROVE \E j \in Ids : KN!OnRecord(j) /\ ~Live(j)
    OBVIOUS
  <2>1. verdict[c] # "ADD"
    BY DEF NewFact, Episode, IsRetired
  <2>2. /\ target[c] \in Memory /\ target[c].row \in Row
        /\ r = [target[c].row EXCEPT !.content = text, !.embedded = TRUE]
    BY <1>1, <2>1 DEF NewFact, Memory
  <2>3. IsRetired(target[c].row)
    BY <2>2 DEF IsRetired, Row
  <2>4. PICK j \in Ids : j = target[c].id
    BY <2>2 DEF Memory
  <2>5. ~Live(j) /\ FactLike(j)
    BY <2>2, <2>3, <2>4, KindsOfState DEF SaidInv, TurnInv
  <2>6. KN!OnRecord(j)
    BY <2>5, ReadRows, OnRecordIs DEF SaidInv
  <2> QED
    BY <2>5, <2>6
<1> HIDE DEF r
<1> QED
  BY <1>1, <1>2, <1>5, <1>6, <1>7, <1>8 DEF KN!Learn, Used

\* A mark retires a fact in use, writes a forgotten one back out of use, or
\* changes nothing that is said.
LEMMA MarkRetires ==
  ASSUME TypeOK, PassInv, KindInv, LearnedInv, SaidInv, NEW c \in Consolidators, Mark(c),
         UNCHANGED <<next, learned, forgotten>>
  PROVE  [KN!Next]_(KN!vars)
<1>1. /\ pc[c] = "mark" /\ target[c] \in Memory /\ FactLike(target[c].id)
      /\ verdict[c] \in {"UPDATE", "DELETE"}
      /\ MarkedRow(c) \in Row /\ IsRetired(MarkedRow(c)) /\ MarkedRow(c).layer = "semantic"
      /\ MarkedRow(c).content = target[c].row.content
      /\ mem' = [mem EXCEPT ![target[c].id] = MarkedRow(c)]
  BY Written
<1>2. PICK t \in Ids : t = target[c].id
  BY <1>1 DEF Memory
<1>3. PICK text \in Contents : text = target[c].row.content
  BY <1>1 DEF Memory, Row
<1> DEFINE live == {i \in Ids : Live(i)}
<1>4. t < next /\ (t \in forgotten \/ t \in Facts) /\ (mem[t] # None => mem[t].content = text)
      /\ text \in learned
  BY <1>1, <1>2, <1>3, ReadRows DEF SaidInv, LearnedInv, FactsLearned
<1>5. mem[t] # None => mem[t].layer = "semantic"
  BY <1>1, <1>2, KindsOfState DEF KindInv, TypeOK, Row
<1>6. /\ Said(Pending)' = Said(Pending)
      /\ Said(Facts)' = [Said(Facts) EXCEPT ![t] = text]
      /\ live' = live \ {t}
  BY <1>1, <1>2, <1>3, <1>5, OneFact
<1>7. Used' = Used
  BY DEF Used
<1>8. CASE mem[t] = None
  <2>1. t \in forgotten /\ Said(Facts)[t] = None /\ live' = live
    BY <1>4, <1>6, <1>8, SaidOf DEF Facts, Exists
  <2>2. KN!Resurface(t, text)
    BY <1>4, <1>6, <1>7, <2>1 DEF KN!Resurface, Used
  <2> QED
    BY <2>2 DEF KN!Next
<1>9. CASE mem[t] # None
  <2>1. Said(Facts)' = Said(Facts)
    BY <1>4, <1>5, <1>6, <1>9, SaidOf, SaidFunctions
  <2>2. CASE t \in live
    <3>1. ~LLM => \E j \in Ids : j > t /\ KN!OnRecord(j)
      <4> SUFFICES ASSUME ~LLM PROVE \E j \in Ids : j > t /\ KN!OnRecord(j)
        OBVIOUS
      <4>1. verdict[c] = "UPDATE"
        BY <1>1 DEF LearnedInv, EpisodeLearned
      <4>2. fact[c] \in Facts \cup forgotten /\ t < fact[c]
        BY <1>1, <1>2, <4>1 DEF SaidInv, TurnInv
      <4>3. fact[c] \in Ids /\ KN!OnRecord(fact[c])
        BY <4>2, OnRecordIs
      <4> QED
        BY <4>2, <4>3 DEF Ids
    <3>2. KN!Retire(t)
      BY <1>6, <1>7, <2>1, <2>2, <3>1 DEF KN!Retire, Used
    <3> QED
      BY <3>2 DEF KN!Next
  <2>3. CASE t \notin live
    BY <1>6, <1>7, <2>1, <2>3 DEF KN!vars, Used
  <2> QED
    BY <2>2, <2>3
<1> QED
  BY <1>8, <1>9

\* A stamp settles an episode that waits, or changes nothing that is said.
LEMMA StampSettles ==
  ASSUME TypeOK, PassInv, KindInv, LearnedInv, SaidInv, NEW c \in Consolidators, Stamp(c),
         UNCHANGED <<next, learned, forgotten>>
  PROVE  [KN!Next]_(KN!vars)
<1>1. /\ pc[c] = "stamp" /\ ep[c] \in Memory /\ EpisodeLike(ep[c].id)
      /\ StampedRow(c) \in Row /\ StampedRow(c).stamped /\ StampedRow(c).layer = "episodic"
      /\ mem' = [mem EXCEPT ![ep[c].id] = StampedRow(c)]
  BY Written
<1>2. PICK e \in Ids : e = ep[c].id
  BY <1>1 DEF Memory
<1> DEFINE live == {i \in Ids : Live(i)}
<1>3. mem[e] # None => mem[e].layer = "episodic" /\ mem[e].content = ep[c].row.content
  BY <1>1, <1>2, ReadRows, KindsOfState DEF SaidInv, KindInv, TypeOK, Row
<1>4. /\ Said(Pending)' = [Said(Pending) EXCEPT ![e] = None]
      /\ Said(Facts)' = Said(Facts) /\ live' = live
  BY <1>1, <1>2, <1>3, OneEpisode
<1>5. Used' = Used
  BY DEF Used
<1>6. CASE Said(Pending)[e] = None
  BY <1>4, <1>5, <1>6, SaidFunctions DEF KN!vars, Used
<1>7. CASE Said(Pending)[e] # None
  <2>1. mem[e] # None /\ Said(Pending)[e] = ep[c].row.content
    BY <1>3, <1>7, SaidOf
  <2>2. ~LLM => Said(Pending)[e] \in learned
    BY <1>1, <2>1 DEF LearnedInv, EpisodeLearned
  <2>3. KN!Settle(e)
    BY <1>4, <1>5, <1>7, <2>2 DEF KN!Settle, Used
  <2> QED
    BY <2>3 DEF KN!Next
<1> QED
  BY <1>6, <1>7

\* Every step is one that those who record were promised, or nothing to them.
LEMMA KnowledgeStep ==
  ASSUME TypeOK, PassInv, KindInv, LearnedInv, SaidInv, [Next]_vars
  PROVE  [KN!Next]_(KN!vars)
<1>1. CASE Quiet
  BY <1>1 DEF Quiet, KN!vars, Said, Pending, Episodes, Facts, Exists, Live
<1>2. ASSUME next \in Ids, next' = next + 1, UNCHANGED <<learned, forgotten>>,
             NEW text \in Contents, mem' = [mem EXCEPT ![next] = Episode(text)]
      PROVE  KN!Next
  BY <1>2, RecordHears DEF KN!Next
<1>3. ASSUME UNCHANGED <<next, learned>>, NEW i \in Ids, Exists(i),
             mem' = [mem EXCEPT ![i] = None], forgotten' = forgotten \cup {i}
      PROVE  KN!Next
  BY <1>3, ForgetForgets DEF KN!Next
<1>4. ASSUME NEW c \in Consolidators, WriteFact(c) PROVE KN!Next
  BY <1>4, WriteLearns, Written DEF KN!Next
<1>5. ASSUME NEW c \in Consolidators, Mark(c) \/ Stamp(c), UNCHANGED <<next, learned, forgotten>>
      PROVE  [KN!Next]_(KN!vars)
  BY <1>5, MarkRetires, StampSettles
<1> QED
  BY <1>1, <1>2, <1>3, <1>4, <1>5, StepWrites

\* Consolidation keeps its promise to those who record, for any number of passes
\* side by side, whether or not they exclude each other, with and without a
\* classifier, wherever passes stop and whatever clients forget meanwhile.
THEOREM ImplementsKnowledgeTheorem == Spec => ImplementsKnowledge
<1> DEFINE Inv == IInv /\ SaidInv
<1>1. Init => Inv /\ KN!Init
  <2> SUFFICES ASSUME Init PROVE SaidInv /\ KN!Init
    BY InitIInv
  <2>1. /\ \A i \in Ids : mem[i] = None /\ ~(i < next)
        /\ \A c \in Consolidators : todo[c] = {} /\ ep[c] = None /\ target[c] = None /\ pc[c] = "idle"
        /\ learned = {} /\ forgotten = {}
    BY DEF Init, Ids
  <2>2. Pending = {} /\ Facts = {} /\ \A i \in Ids : ~Live(i)
    BY <2>1 DEF Pending, Episodes, Facts, Exists, Live
  <2>3. SaidInv
    BY <2>1 DEF SaidInv, WordsInv, Says, GoneInv, TurnInv
  <2> QED
    BY <2>1, <2>2, <2>3 DEF KN!Init, Said
<1>2. Inv /\ [Next]_vars => Inv' /\ [KN!Next]_(KN!vars)
  <2> SUFFICES ASSUME Inv, [Next]_vars PROVE Inv' /\ [KN!Next]_(KN!vars)
    OBVIOUS
  <2>1. IInv'
    BY NextIInv
  <2>2. SaidInv'
    BY <2>1, NextWords, NextGone, NextTurn DEF IInv, SaidInv
  <2> QED
    BY <2>1, <2>2, KnowledgeStep DEF IInv
<1> HIDE DEF Inv
<1> QED
  BY <1>1, <1>2, PTL DEF Spec, ImplementsKnowledge, KN!Spec
=============================================================================
