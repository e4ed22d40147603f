----------------------------- MODULE PostgresOpen -----------------------------
(***************************************************************************)
(* engine.New over PostgreSQL: NewPostgresStore connects and creates what  *)
(* is missing of the schema, under a session advisory lock both times, and *)
(* enforceEmbeddingDim holds the configured dimension against `meta`.  The *)
(* dimension is in the database twice: in `meta` and in the type of the    *)
(* column `embedding`, which only the first CREATE TABLE and               *)
(* RebuildVectorIndex set, and which refuses vectors of another one.       *)
(***************************************************************************)
EXTENDS Naturals, Sequences

CONSTANTS PgEngines,  \* processes that open the database
          PgDims,     \* dimensions they may be configured with
          PgIds,      \* memory ids
          PgLapse,    \* may an open that was cut short be left at that?
          PgNull,     \* a row without embedding
          PgNone      \* no row, no value, no engine

ASSUME PgAssumption == PgNone \notin PgEngines \cup PgDims

VARIABLES
  pgObjects,  \* what the database has of the schema
  pgColumn,   \* the dimension of memories.embedding
  pgMeta,     \* meta["embedding_dim"]
  pgRows,     \* id -> the dimension of its embedding, PgNull, or PgNone
  pgLock,     \* the engine whose session holds schemaSetupAdvisoryKey
  pgAt,       \* engine -> where New stands
  pgDim,      \* engine -> its dimension
  pgAllow,    \* engine -> embedding.allow_dim_change
  pgCreate,   \* engine -> the objects it has still to create if they are missing
  pgMissing,  \* engine -> has the statement it runs found its object missing?
  pgTodo,     \* engine -> the memories reembedAll has still to write
  pgRaced,    \* history: has a CREATE .. IF NOT EXISTS met an object it had found missing?
  pgOwed,     \* history: the dimension of an open that was cut short
  pgUnbuilt   \* history: has the last rebuild failed, with no memory left to tell?

pgDatabase == <<pgObjects, pgColumn, pgMeta, pgRows>>
pgEngine   == <<pgAt, pgDim, pgAllow, pgCreate, pgMissing, pgTodo>>
pgVars     == <<pgDatabase, pgLock, pgEngine, pgRaced, pgOwed, pgUnbuilt>>

\* The statements of pgSchema, in their order: one object for each kind that
\* another step relies on.
Schema == <<"vector", "memories", "meta">>

PgInit ==
  /\ pgObjects = {} /\ pgColumn = PgNone /\ pgMeta = PgNone
  /\ pgRows = [i \in PgIds |-> PgNone]
  /\ pgLock = PgNone
  /\ pgAt = [e \in PgEngines |-> "closed"]
  /\ pgDim = [e \in PgEngines |-> PgNone]
  /\ pgAllow = [e \in PgEngines |-> FALSE]
  /\ pgCreate = [e \in PgEngines |-> << >>]
  /\ pgMissing = [e \in PgEngines |-> FALSE]
  /\ pgTodo = [e \in PgEngines |-> {}]
  /\ pgRaced = FALSE
  /\ pgOwed = PgNone /\ pgUnbuilt = FALSE

-----------------------------------------------------------------------------

PgGoto(e, point) == pgAt' = [pgAt EXCEPT ![e] = point]

\* Replicas are configured alike; an open that was cut short is tried again.
PgOpen(e, d, a) ==
  /\ pgAt[e] = "closed"
  /\ \A f \in PgEngines : pgAt[f] # "closed" => pgDim[f] = d
  /\ ~PgLapse => pgOwed \in {d, PgNone}
  /\ PgGoto(e, "connect")
  /\ pgDim' = [pgDim EXCEPT ![e] = d]
  /\ pgAllow' = [pgAllow EXCEPT ![e] = a]
  /\ UNCHANGED <<pgDatabase, pgLock, pgCreate, pgMissing, pgTodo, pgRaced, pgUnbuilt, pgOwed>>

\* New returns an error, the process is closed, or it is killed: its session
\* ends, and with it the advisory lock.
PgStop(e) ==
  /\ PgGoto(e, "closed")
  /\ pgDim' = [pgDim EXCEPT ![e] = PgNone]
  /\ pgAllow' = [pgAllow EXCEPT ![e] = FALSE]
  /\ pgCreate' = [pgCreate EXCEPT ![e] = << >>]
  /\ pgMissing' = [pgMissing EXCEPT ![e] = FALSE]
  /\ pgTodo' = [pgTodo EXCEPT ![e] = {}]
  /\ pgLock' = IF pgLock = e THEN PgNone ELSE pgLock

PgCutShort(e) == pgOwed' = IF pgAt[e] = "open" THEN pgOwed ELSE pgDim[e]

PgClose(e) ==
  /\ pgAt[e] # "closed"
  /\ PgStop(e)
  /\ PgCutShort(e)
  /\ UNCHANGED <<pgDatabase, pgRaced, pgUnbuilt>>

-----------------------------------------------------------------------------
(* The schema.                                                             *)

\* AfterConnect: the lock, then the extension.
MutAfterConnect(e) ==
  /\ pgAt[e] = "connect"
  /\ PgGoto(e, "hook")
  /\ pgCreate' = [pgCreate EXCEPT ![e] = <<"vector">>]
  /\ UNCHANGED <<pgDatabase, pgLock, pgDim, pgAllow, pgMissing, pgTodo, pgRaced, pgUnbuilt, pgOwed>>

AfterConnect(e) ==
  /\ pgAt[e] = "connect" /\ pgLock = PgNone
  /\ pgLock' = e
  /\ PgGoto(e, "hook")
  /\ pgCreate' = [pgCreate EXCEPT ![e] = <<"vector">>]
  /\ UNCHANGED <<pgDatabase, pgDim, pgAllow, pgMissing, pgTodo, pgRaced, pgUnbuilt, pgOwed>>

\* applyPGSchema: the lock, then every statement.
ApplyPGSchema(e) ==
  /\ pgAt[e] = "schema" /\ pgLock = PgNone
  /\ pgLock' = e
  /\ PgGoto(e, "tables")
  /\ pgCreate' = [pgCreate EXCEPT ![e] = Schema]
  /\ UNCHANGED <<pgDatabase, pgDim, pgAllow, pgMissing, pgTodo, pgRaced, pgUnbuilt, pgOwed>>

\* CREATE .. IF NOT EXISTS looks first, and creates then.
LookFor(e) ==
  /\ pgAt[e] \in {"hook", "tables"} /\ pgCreate[e] # << >> /\ ~pgMissing[e]
  /\ IF Head(pgCreate[e]) \in pgObjects
       THEN pgCreate' = [pgCreate EXCEPT ![e] = Tail(@)] /\ UNCHANGED pgMissing
       ELSE pgMissing' = [pgMissing EXCEPT ![e] = TRUE] /\ UNCHANGED pgCreate
  /\ UNCHANGED <<pgDatabase, pgLock, pgAt, pgDim, pgAllow, pgTodo, pgRaced, pgUnbuilt, pgOwed>>

CreateMissing(e) ==
  /\ pgAt[e] \in {"hook", "tables"} /\ pgMissing[e]
  /\ LET object == Head(pgCreate[e]) IN
       IF object \in pgObjects
         THEN /\ pgRaced' = TRUE
              /\ PgStop(e)
              /\ PgCutShort(e)
              /\ UNCHANGED <<pgDatabase, pgUnbuilt>>
         ELSE /\ pgObjects' = pgObjects \cup {object}
              /\ pgColumn' = IF object = "memories" THEN pgDim[e] ELSE pgColumn
              /\ pgCreate' = [pgCreate EXCEPT ![e] = Tail(@)]
              /\ pgMissing' = [pgMissing EXCEPT ![e] = FALSE]
              /\ UNCHANGED <<pgMeta, pgRows, pgLock, pgAt, pgDim, pgAllow, pgTodo, pgRaced, pgUnbuilt,
                           pgOwed>>

\* The unlock; after the hook comes the schema, after the schema `meta`.
Unlock(e) ==
  /\ pgAt[e] \in {"hook", "tables"} /\ pgCreate[e] = << >>
  /\ pgLock' = IF pgLock = e THEN PgNone ELSE pgLock
  /\ PgGoto(e, IF pgAt[e] = "hook" THEN "schema" ELSE "dim")
  /\ UNCHANGED <<pgDatabase, pgDim, pgAllow, pgCreate, pgMissing, pgTodo, pgRaced, pgUnbuilt, pgOwed>>

-----------------------------------------------------------------------------
(* enforceEmbeddingDim.                                                    *)

\* The open engine owes nothing any more.
PgOpened(e) ==
  /\ PgGoto(e, "open")
  /\ pgOwed' = IF pgOwed = pgDim[e] THEN PgNone ELSE pgOwed

PgCompareDim(e) ==
  /\ pgAt[e] = "dim"
  /\ CASE pgMeta = PgNone ->
            pgMeta' = pgDim[e] /\ PgOpened(e) /\ UNCHANGED <<pgLock, pgDim, pgAllow, pgCreate, pgMissing, pgTodo>>
       [] pgMeta = pgDim[e] ->
            PgOpened(e) /\ UNCHANGED <<pgMeta, pgLock, pgDim, pgAllow, pgCreate, pgMissing, pgTodo>>
       [] pgMeta \notin {PgNone, pgDim[e]} /\ pgAllow[e] ->
            PgGoto(e, "rebuild") /\ UNCHANGED <<pgMeta, pgLock, pgDim, pgAllow, pgCreate, pgMissing, pgTodo, pgOwed>>
       [] OTHER -> PgStop(e) /\ UNCHANGED <<pgMeta, pgOwed>>
  /\ UNCHANGED <<pgObjects, pgColumn, pgRows, pgRaced, pgUnbuilt>>

PgPresent == {i \in PgIds : pgRows[i] # PgNone}

\* RebuildVectorIndex is one transaction, and a failure of it only a warning;
\* reembedAll reads every memory in either case.  A column that kept its type
\* shows when the first of them is written; if there is none, it does not.
MutRebuildVectorIndex(e) ==
  /\ pgAt[e] = "rebuild"
  /\ pgRows' = [i \in PgIds |-> IF pgRows[i] = PgNone THEN PgNone ELSE PgNull]
  /\ pgTodo' = [pgTodo EXCEPT ![e] = PgPresent]
  /\ pgUnbuilt' = FALSE
  /\ PgGoto(e, "reembed")
  /\ UNCHANGED <<pgObjects, pgColumn, pgMeta, pgLock, pgDim, pgAllow, pgCreate, pgMissing, pgRaced, pgOwed>>

RebuildVectorIndex(e) ==
  /\ pgAt[e] = "rebuild"
  /\ \/ /\ pgRows' = [i \in PgIds |-> IF pgRows[i] = PgNone THEN PgNone ELSE PgNull]
        /\ pgColumn' = pgDim[e]
        /\ pgUnbuilt' = FALSE
     \/ /\ UNCHANGED <<pgRows, pgColumn>>
        /\ pgUnbuilt' = (pgUnbuilt \/ (PgPresent = {} /\ pgColumn # pgDim[e]))
  /\ pgTodo' = [pgTodo EXCEPT ![e] = PgPresent]
  /\ PgGoto(e, "reembed")
  /\ UNCHANGED <<pgObjects, pgMeta, pgLock, pgDim, pgAllow, pgCreate, pgMissing, pgRaced, pgOwed>>

\* PutMemory of one row that was read; the column refuses another dimension.
PgReembed(e, i) ==
  /\ pgAt[e] = "reembed" /\ i \in pgTodo[e]
  /\ IF pgColumn = pgDim[e]
       THEN /\ pgRows' = [pgRows EXCEPT ![i] = pgDim[e]]
            /\ pgTodo' = [pgTodo EXCEPT ![e] = @ \ {i}]
            /\ UNCHANGED <<pgLock, pgAt, pgDim, pgAllow, pgCreate, pgMissing, pgOwed>>
       ELSE PgStop(e) /\ PgCutShort(e) /\ UNCHANGED pgRows
  /\ UNCHANGED <<pgObjects, pgColumn, pgMeta, pgRaced, pgUnbuilt>>

PgRecordDim(e) ==
  /\ pgAt[e] = "reembed" /\ pgTodo[e] = {}
  /\ pgMeta' = pgDim[e]
  /\ PgOpened(e)
  /\ UNCHANGED <<pgObjects, pgColumn, pgRows, pgLock, pgDim, pgAllow, pgCreate, pgMissing, pgTodo, pgRaced, pgUnbuilt>>

\* An open engine writes memories, if the column takes them, and deletes them.
PgWrite(e, i, v) ==
  /\ pgAt[e] = "open"
  /\ v \in {pgDim[e], PgNull, PgNone} /\ (v = pgDim[e] => pgColumn = v)
  /\ pgRows' = [pgRows EXCEPT ![i] = v]
  /\ UNCHANGED <<pgObjects, pgColumn, pgMeta, pgLock, pgEngine, pgRaced, pgUnbuilt, pgOwed>>

PgNext ==
  \E e \in PgEngines :
    \/ \E d \in PgDims, a \in BOOLEAN : PgOpen(e, d, a)
    \/ PgClose(e)
    \/ AfterConnect(e) \/ ApplyPGSchema(e) \/ LookFor(e) \/ CreateMissing(e) \/ Unlock(e)
    \/ PgCompareDim(e) \/ RebuildVectorIndex(e) \/ PgRecordDim(e)
    \/ \E i \in PgIds : PgReembed(e, i)
    \/ \E i \in PgIds, v \in PgDims \cup {PgNull, PgNone} : PgWrite(e, i, v)

PgSpec == PgInit /\ [][PgNext]_pgVars

-----------------------------------------------------------------------------

PgTypeOK ==
  /\ pgObjects \subseteq {Schema[n] : n \in 1..Len(Schema)}
  /\ {pgColumn, pgMeta, pgOwed} \subseteq PgDims \cup {PgNone}
  /\ pgRows \in [PgIds -> PgDims \cup {PgNull, PgNone}]
  /\ pgLock \in PgEngines \cup {PgNone}
  /\ pgDim \in [PgEngines -> PgDims \cup {PgNone}]
  /\ pgTodo \in [PgEngines -> SUBSET PgIds]

(* Processes that open a fresh database together do not make each other     *)
(* fail: no CREATE .. IF NOT EXISTS meets an object that another process    *)
(* created after it looked, in the connection hook or in the schema setup,  *)
(* whoever is killed while holding the lock.                                *)
SetupNeverRaces == ~pgRaced

(* An open engine can store what it embeds: the column has the dimension of *)
(* its vectors, wherever an earlier open was cut short between creating the *)
(* table, rebuilding the column, re-embedding and recording the dimension,  *)
(* and wherever a rebuild has failed, as long as an open that was cut short *)
(* is tried again.  The one exception is a rebuild that failed over a table *)
(* without memories: RebuildVectorIndex only warns, nothing is re-embedded  *)
(* that would be refused, and the new dimension is recorded beside the old  *)
(* column, until another rebuild succeeds.                                  *)
WritesFit == \A e \in PgEngines : pgAt[e] = "open" => pgColumn = pgDim[e] \/ pgUnbuilt
=============================================================================
