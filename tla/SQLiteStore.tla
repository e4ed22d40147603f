----------------------------- MODULE SQLiteStore -----------------------------
(***************************************************************************)
(* storage/store_sqlite.go: the table `memories` with its `embedding`      *)
(* column, shared by every process that opens the database file, and the   *)
(* in-process vector index each process keeps beside it.                   *)
(*                                                                         *)
(* A write is two steps that no lock joins: the SQL statement, on the only *)
(* connection of the pool, and the index mutation, under the read half of  *)
(* indexMu.  The index is warmed from the table on the first VectorSearch, *)
(* under the write half.  A row is abstracted to the contents of its       *)
(* embedding column.                                                       *)
(***************************************************************************)
EXTENDS FiniteSets

CONSTANTS Procs,      \* processes that have the database open
          Threads,    \* goroutines serving requests
          Home,       \* the process a thread runs in
          Ids,        \* memory ids
          FileIds,    \* the ids of the code memories of one indexed file
          Vecs,       \* embeddings of the configured dimension
          BadVec,     \* an embedding of another dimension
          Null,       \* a row whose embedding column is NULL
          Absent,     \* no such row, no such index entry
          Nobody,     \* no process
          Overlap     \* may two requests of a process be at work on one id?

ASSUME StoreAssumption ==
  /\ Home \in [Threads -> Procs]
  /\ FileIds \subseteq Ids
  /\ BadVec \notin Vecs
  /\ Null \notin Vecs \cup {BadVec}
  /\ Absent \notin Vecs \cup {BadVec, Null}
  /\ Nobody \notin Procs
  /\ Overlap \in BOOLEAN

VARIABLES
  db,     \* id -> the embedding column of its row, or Absent
  index,  \* process -> id -> the vector the in-memory index holds, or Absent
  warm,   \* process -> indexWarm
  pc,     \* thread -> where it stands in the call it is serving
  ids,    \* thread -> the ids its pending index mutation is about
  vec,    \* thread -> the vector its pending Upsert carries
  snap,   \* process -> the rows a running warm has selected
  wrote   \* history: id -> the process that last set or deleted the embedding
          \* and still owes, or has done, the matching index mutation

vars == <<db, index, warm, pc, ids, vec, snap, wrote>>

Columns == Vecs \cup {BadVec, Null, Absent}
Points  == {"idle", "upsert", "delete", "files", "ensure", "select", "fill", "search"}
NoEntry == [i \in Ids |-> Absent]

TypeOK ==
  /\ db \in [Ids -> Columns]
  /\ index \in [Procs -> [Ids -> Vecs \cup {Absent}]]
  /\ warm \in [Procs -> BOOLEAN]
  /\ pc \in [Threads -> Points]
  /\ ids \in [Threads -> SUBSET Ids]
  /\ vec \in [Threads -> Vecs \cup {BadVec, Null}]
  /\ snap \in [Procs -> [Ids -> Columns]]
  /\ wrote \in [Ids -> Procs \cup {Nobody}]

Init ==
  /\ db = NoEntry
  /\ index = [p \in Procs |-> NoEntry]
  /\ warm = [p \in Procs |-> FALSE]
  /\ pc = [t \in Threads |-> "idle"]
  /\ ids = [t \in Threads |-> {}]
  /\ vec = [t \in Threads |-> Null]
  /\ snap = [p \in Procs |-> NoEntry]
  /\ wrote = [i \in Ids |-> Nobody]

-----------------------------------------------------------------------------
(* The two resources of a process: indexMu and the pool's one connection.  *)

\* indexMu can be read-locked: no warm of this process holds the write half.
IndexMuFree(p) == \A t \in Threads : Home[t] = p => pc[t] \notin {"select", "fill"}

\* SetMaxOpenConns(1): the rows of a warm's SELECT hold the connection.
ConnFree(p) == \A t \in Threads : Home[t] = p => pc[t] # "fill"

\* The ids the call in progress on t is about.
Claim(t) == CASE pc[t] \in {"upsert", "delete"} -> ids[t]
              [] pc[t] = "files"                -> FileIds
              [] OTHER                          -> {}

\* t may begin a call about the ids S.
MayStart(t, S) ==
  /\ pc[t] = "idle"
  /\ ConnFree(Home[t])
  /\ Overlap \/ \A u \in Threads : Home[u] = Home[t] => Claim(u) \cap S = {}

Goto(t, point) == pc' = [pc EXCEPT ![t] = point]

Return(t) ==
  /\ Goto(t, "idle")
  /\ ids' = [ids EXCEPT ![t] = {}]
  /\ vec' = [vec EXCEPT ![t] = Null]

-----------------------------------------------------------------------------
(* Writes: the SQL statement.                                              *)

\* The statement has set row i to v; the Upsert of a non-nil vector follows.
Stored(t, i, v) ==
  /\ db' = [db EXCEPT ![i] = v]
  /\ wrote' = [wrote EXCEPT ![i] = Home[t]]
  /\ IF v = Null
       THEN UNCHANGED <<pc, ids, vec>>
       ELSE /\ Goto(t, "upsert")
            /\ ids' = [ids EXCEPT ![t] = {i}]
            /\ vec' = [vec EXCEPT ![t] = v]
  /\ UNCHANGED <<index, warm, snap>>

\* A nil vector NULLs the column.
PutMemory(t, i, v) ==
  /\ MayStart(t, {i})
  /\ v \in Vecs \cup {BadVec, Null}
  /\ Stored(t, i, v)

\* With a vector; without one the embedding column is left alone.
UpdateMemoryContent(t, i, v) ==
  /\ MayStart(t, {i})
  /\ v \in Vecs \cup {BadVec}
  /\ db[i] # Absent                       \* RowsAffected > 0
  /\ Stored(t, i, v)

DeleteMemory(t, i) ==
  /\ MayStart(t, {i})
  /\ db' = [db EXCEPT ![i] = Absent]
  /\ wrote' = [wrote EXCEPT ![i] = Home[t]]
  /\ Goto(t, "delete")
  /\ ids' = [ids EXCEPT ![t] = {i}]
  /\ UNCHANGED <<index, warm, vec, snap>>

\* DeleteCodeArtifactsByFile: the ids are selected, then the rows deleted,
\* then exactly the selected ids leave the index.
SelectFileMemories(t) ==
  /\ MayStart(t, FileIds)
  /\ Goto(t, "files")
  /\ ids' = [ids EXCEPT ![t] = {i \in FileIds : db[i] # Absent}]
  /\ UNCHANGED <<db, index, warm, vec, snap, wrote>>

DeleteFileMemories(t) ==
  /\ pc[t] = "files"
  /\ ConnFree(Home[t])
  /\ db' = [i \in Ids |-> IF i \in FileIds THEN Absent ELSE db[i]]
  /\ wrote' = [i \in Ids |-> IF i \in ids[t] THEN Home[t]
                             ELSE IF i \in FileIds /\ db[i] # Absent THEN Nobody
                             ELSE wrote[i]]
  /\ Goto(t, "delete")
  /\ UNCHANGED <<index, warm, ids, vec, snap>>

\* DeleteMemoriesByTypeSource and DeleteSymbolMemories leave the index alone.
BulkDelete(t, S) ==
  /\ MayStart(t, S)
  /\ db' = [i \in Ids |-> IF i \in S THEN Absent ELSE db[i]]
  /\ wrote' = [i \in Ids |-> IF i \in S /\ db[i] # Absent THEN Nobody ELSE wrote[i]]
  /\ UNCHANGED <<index, warm, pc, ids, vec, snap>>

-----------------------------------------------------------------------------
(* Writes: the index mutation, under indexMu.RLock.                        *)

\* Upsert refuses a vector of the wrong dimension; the row stays as written.
MutIndexUpsert(t) ==
  /\ pc[t] = "upsert"
  /\ IndexMuFree(Home[t])
  /\ index' = [index EXCEPT ![Home[t]] =
                 [i \in Ids |-> IF i \in ids[t] /\ vec[t] \in Vecs /\ index[Home[t]][i] = Absent
                                THEN vec[t] ELSE index[Home[t]][i]]]
  /\ Return(t)
  /\ UNCHANGED <<db, warm, snap, wrote>>

IndexUpsert(t) ==
  /\ pc[t] = "upsert"
  /\ IndexMuFree(Home[t])
  /\ index' = [index EXCEPT ![Home[t]] =
                 [i \in Ids |-> IF i \in ids[t] /\ vec[t] \in Vecs
                                THEN vec[t] ELSE index[Home[t]][i]]]
  /\ Return(t)
  /\ UNCHANGED <<db, warm, snap, wrote>>

IndexDelete(t) ==
  /\ pc[t] = "delete"
  /\ IndexMuFree(Home[t])
  /\ index' = [index EXCEPT ![Home[t]] =
                 [i \in Ids |-> IF i \in ids[t] THEN Absent ELSE index[Home[t]][i]]]
  /\ Return(t)
  /\ UNCHANGED <<db, warm, snap, wrote>>

-----------------------------------------------------------------------------
(* VectorSearch: ensureIndex, then the search under indexMu.RLock.         *)

VectorSearch(t) ==
  /\ pc[t] = "idle"
  /\ Goto(t, "ensure")
  /\ UNCHANGED <<db, index, warm, ids, vec, snap, wrote>>

EnsureIndex(t) ==
  /\ pc[t] = "ensure"
  /\ IndexMuFree(Home[t])
  /\ Goto(t, IF warm[Home[t]] THEN "search" ELSE "select")
  /\ UNCHANGED <<db, index, warm, ids, vec, snap, wrote>>

WarmSelect(t) ==
  /\ pc[t] = "select"
  /\ ConnFree(Home[t])
  /\ Goto(t, "fill")
  /\ snap' = [snap EXCEPT ![Home[t]] = db]
  /\ UNCHANGED <<db, index, warm, ids, vec, wrote>>

\* The index of p after the selected rows with ids in S have been upserted.
\* Rows of the wrong dimension are skipped, and nothing is removed.
MutLoaded(p, S) == [i \in Ids |-> IF i \in S /\ snap[p][i] \in Vecs /\ index[p][i] = Absent
                                  THEN snap[p][i] ELSE index[p][i]]

MutLoadedUnchecked(p, S) == [i \in Ids |-> IF i \in S THEN snap[p][i] ELSE index[p][i]]

Loaded(p, S) == [i \in Ids |-> IF i \in S /\ snap[p][i] \in Vecs
                               THEN snap[p][i] ELSE index[p][i]]

WarmDone(t) ==
  /\ Goto(t, "search")
  /\ snap' = [snap EXCEPT ![Home[t]] = NoEntry]
  /\ UNCHANGED <<db, ids, vec, wrote>>

WarmFill(t) ==
  /\ pc[t] = "fill"
  /\ index' = [index EXCEPT ![Home[t]] = Loaded(Home[t], Ids)]
  /\ warm' = [warm EXCEPT ![Home[t]] = TRUE]
  /\ WarmDone(t)

\* The query fails, or the iteration does after the rows S: the index stays
\* cold, with what has been upserted, and the search goes on without the rest.
WarmFail(t) ==
  /\ \/ pc[t] = "select" /\ UNCHANGED index
     \/ pc[t] = "fill" /\ \E S \in SUBSET Ids :
          index' = [index EXCEPT ![Home[t]] = Loaded(Home[t], S)]
  /\ UNCHANGED warm
  /\ WarmDone(t)

Search(t) ==
  /\ pc[t] = "search"
  /\ IndexMuFree(Home[t])
  /\ Return(t)
  /\ UNCHANGED <<db, index, warm, snap, wrote>>

-----------------------------------------------------------------------------

\* Process p ends, at any point, and is started again: NewStore opens the
\* database with an empty, cold index.
Reopen(p) ==
  /\ index' = [index EXCEPT ![p] = NoEntry]
  /\ warm' = [warm EXCEPT ![p] = FALSE]
  /\ snap' = [snap EXCEPT ![p] = NoEntry]
  /\ pc' = [t \in Threads |-> IF Home[t] = p THEN "idle" ELSE pc[t]]
  /\ ids' = [t \in Threads |-> IF Home[t] = p THEN {} ELSE ids[t]]
  /\ vec' = [t \in Threads |-> IF Home[t] = p THEN Null ELSE vec[t]]
  /\ UNCHANGED <<db, wrote>>

\* A step of the call t is serving.
Continue(t) ==
  \/ DeleteFileMemories(t)
  \/ IndexUpsert(t)
  \/ IndexDelete(t)
  \/ EnsureIndex(t)
  \/ WarmSelect(t)
  \/ WarmFill(t)
  \/ WarmFail(t)
  \/ Search(t)

\* A call begins on t.
Begin(t) ==
  \/ \E i \in Ids, v \in Vecs \cup {BadVec, Null} : PutMemory(t, i, v)
  \/ \E i \in Ids, v \in Vecs \cup {BadVec} : UpdateMemoryContent(t, i, v)
  \/ \E i \in Ids : DeleteMemory(t, i)
  \/ SelectFileMemories(t)
  \/ \E S \in SUBSET FileIds : BulkDelete(t, S)
  \/ VectorSearch(t)

Next ==
  \/ \E t \in Threads : Begin(t) \/ Continue(t)
  \/ \E p \in Procs : Reopen(p)

Spec == Init /\ [][Next]_vars

\* A goroutine that can run eventually runs; Go's RWMutex and the connection
\* pool serve waiters in order, so a call is not passed over for ever.
FairSpec == Spec /\ \A t \in Threads : SF_vars(Continue(t))

-----------------------------------------------------------------------------

\* No call of process p on id i is between its statement and its mutation.
Quiet(p, i) == \A t \in Threads : Home[t] = p => i \notin Claim(t)

(* A process finds what it wrote: once its calls on an id are over, a warm  *)
(* index holds the very embedding the row holds if this process wrote it    *)
(* last, whatever warms, failed warms, restarts and other processes did in  *)
(* between (ensureIndex's comment: an update never has "its fresh vector    *)
(* overwritten by warm's stale snapshot").                                  *)
OwnWritesWin ==
  \A p \in Procs, i \in Ids :
    warm[p] /\ wrote[i] = p /\ Quiet(p, i) /\ db[i] \in Vecs => index[p][i] = db[i]

(* A row this process deleted through DeleteMemory or the file clean-up is  *)
(* out of its index, cold or warm, once the call has returned: no warm, no  *)
(* partial warm and no late Upsert brings it back.                          *)
DeletedStaysGone ==
  \A p \in Procs, i \in Ids :
    wrote[i] = p /\ Quiet(p, i) /\ db[i] = Absent => index[p][i] = Absent

(* Both: of the ids a process wrote last its index says what the rows say,  *)
(* the embedding or that there is none.                                     *)
IndexFollowsOwnWrites == OwnWritesWin /\ DeletedStaysGone

\* The ids of the calls of p between their statement and their mutation.
Unfinished(p) == {i \in Ids : ~Quiet(p, i)}

\* What a search of p finds if nothing more is written.
View(p) == [i \in Ids |-> IF ~warm[p] /\ db[i] \in Vecs THEN db[i] ELSE index[p][i]]

VS == INSTANCE VectorStore
        WITH rows <- db, owner <- wrote, open <- [p \in Procs |-> Unfinished(p)],
             found <- [p \in Procs |-> View(p)]

(* The store keeps the promise every Store makes: a process finds what it   *)
(* wrote from the moment its call returns, a restart finds all there is,    *)
(* and a warm, whole or failed, changes only what it finds of the writes of *)
(* others, whichever calls are half done while it runs.                     *)
ImplementsVectorStore == VS!Spec

(* Every call returns: no cycle of waits between indexMu and the pool's one *)
(* connection, and a failed warm lets the search it serves go on.           *)
CallsReturn == \A t \in Threads : pc[t] # "idle" ~> pc[t] = "idle"
=============================================================================
