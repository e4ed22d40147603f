---------------------------- MODULE PostgresCalls ----------------------------
(***************************************************************************)
(* The calls of PostgresStore.  Every statement commits by itself and runs *)
(* on a connection of the process's pool, taken for it and given back; an  *)
(* advisory lock keeps the connection it was taken on until its release,   *)
(* and the calls it guards need another one.                               *)
(*                                                                         *)
(* The data are the code tables of one file: the memories of its symbols,  *)
(* their projections in code_symbols (one per memory, and gone with it)    *)
(* and the references in code_refs, which are names and no foreign keys.   *)
(***************************************************************************)
EXTENDS Naturals, FiniteSets

CONSTANTS PoolProcs,    \* processes, each with a pool
          PoolThreads,  \* their goroutines
          PoolHome,     \* goroutine -> its process
          PoolSize,     \* pool_max_conns
          Names,        \* qualified names of the symbols of the file
          PoolFree      \* no goroutine

ASSUME PoolAssumption ==
  /\ PoolFree \notin PoolThreads
  /\ PoolHome \in [PoolThreads -> PoolProcs]
  /\ PoolSize \in Nat \ {0}

PoolLocks == {"index", "worker"}  \* indexLockAdvisoryKey, workerLockAdvisoryKey

\* What the symbols refer to: each other, and symbols of other files.
Callees == Names \cup {"external"}

VARIABLES
  memories,  \* the names that have a memory
  symbols,   \* the names that have a row of code_symbols
  refs,      \* code_refs: <<src_symbol, dst_symbol>>
  holder,    \* lock -> the goroutine whose connection holds it
  at,        \* goroutine -> the statement its call has to run next
  taken,     \* goroutine -> has it a connection for that statement?
  spare,     \* process -> the connections its pool has left
  call,      \* goroutine -> "index", "worker", or another call
  want,      \* goroutine -> the symbols its pass has still to write
  batch,     \* goroutine -> the references its pass will insert
  forgot     \* history: the names whose memory was deleted other than by file

tables   == <<memories, symbols, refs>>
request  == <<call, want, batch>>
poolVars == <<tables, holder, at, taken, spare, request, forgot>>

PoolInit ==
  /\ memories = {} /\ symbols = {} /\ refs = {}
  /\ holder = [l \in PoolLocks |-> PoolFree]
  /\ at = [t \in PoolThreads |-> "idle"]
  /\ taken = [t \in PoolThreads |-> FALSE] /\ spare = [p \in PoolProcs |-> PoolSize]
  /\ call = [t \in PoolThreads |-> "read"]
  /\ want = [t \in PoolThreads |-> {}]
  /\ batch = [t \in PoolThreads |-> {}]
  /\ forgot = {}

-----------------------------------------------------------------------------
(* The pool.                                                               *)

Of(p) == {t \in PoolThreads : PoolHome[t] = p}

\* The connections of p: one for each statement that runs, one for each lock.
InUse(p) == Cardinality({t \in Of(p) : taken[t]}) + Cardinality({l \in PoolLocks : holder[l] \in Of(p)})

\* pool.Acquire, by Exec, Query, Begin or tryAdvisoryLock: it waits for a
\* connection.  The unlock runs on the connection of the lock.
Acquire(t) ==
  /\ at[t] \notin {"idle", "unlock"} /\ ~taken[t]
  /\ spare[PoolHome[t]] > 0
  /\ spare' = [spare EXCEPT ![PoolHome[t]] = @ - 1]
  /\ taken' = [taken EXCEPT ![t] = TRUE]
  /\ UNCHANGED <<tables, holder, at, request, forgot>>

\* The statement has run; its connection goes back, unless it holds a lock now.
PoolKeep(t, point) ==
  /\ at' = [at EXCEPT ![t] = point]
  /\ taken' = [taken EXCEPT ![t] = FALSE]

PoolThen(t, point) ==
  /\ PoolKeep(t, point)
  /\ spare' = [spare EXCEPT ![PoolHome[t]] = @ + 1]

\* The calls of the goroutines S are over.
Forget(S) ==
  /\ call' = [t \in PoolThreads |-> IF t \in S THEN "read" ELSE call[t]]
  /\ want' = [t \in PoolThreads |-> IF t \in S THEN {} ELSE want[t]]
  /\ batch' = [t \in PoolThreads |-> IF t \in S THEN {} ELSE batch[t]]

Run(t, point) == at[t] = point /\ taken[t]

\* After an error the call returns, through its deferred release.
Failed(t) == PoolThen(t, IF call[t] \in PoolLocks THEN "unlock" ELSE "idle")

-----------------------------------------------------------------------------
(* The calls: a pass of the code indexer over one file, a cycle of the     *)
(* worker, a memory forgotten, and any call of one statement.              *)

PoolBegin(t, c, S, R) ==
  /\ at[t] = "idle"
  /\ call' = [call EXCEPT ![t] = c]
  /\ want' = [want EXCEPT ![t] = S]
  /\ batch' = [batch EXCEPT ![t] = R]
  /\ at' = [at EXCEPT ![t] = IF c \in PoolLocks THEN "lock" ELSE c]
  /\ UNCHANGED <<tables, holder, taken, spare, forgot>>

\* tryAdvisoryLock: on contention the connection goes back and the call is over.
MutTryAdvisoryLock(t) ==
  /\ Run(t, "lock")
  /\ LET l == call[t] IN
       IF holder[l] = PoolFree
         THEN /\ holder' = [holder EXCEPT ![l] = t]
              /\ PoolKeep(t, IF l = "index" THEN "refs" ELSE "read")
         ELSE /\ PoolKeep(t, "idle")
              /\ UNCHANGED holder
  /\ UNCHANGED <<tables, spare, request, forgot>>

TryAdvisoryLock(t) ==
  /\ Run(t, "lock")
  /\ LET l == call[t] IN
       IF holder[l] = PoolFree
         THEN /\ holder' = [holder EXCEPT ![l] = t]
              /\ PoolKeep(t, IF l = "index" THEN "refs" ELSE "read")
              /\ UNCHANGED spare
         ELSE /\ PoolThen(t, "idle")
              /\ UNCHANGED holder
  /\ UNCHANGED <<tables, request, forgot>>

MutReleaseLock(t) ==
  /\ at[t] = "unlock"
  /\ holder' = [l \in PoolLocks |-> IF holder[l] = t THEN PoolFree ELSE holder[l]]
  /\ PoolKeep(t, "idle")
  /\ Forget({t})
  /\ UNCHANGED <<tables, spare, forgot>>

ReleaseLock(t) ==
  /\ at[t] = "unlock"
  /\ holder' = [l \in PoolLocks |-> IF holder[l] = t THEN PoolFree ELSE holder[l]]
  /\ PoolThen(t, "idle")
  /\ Forget({t})
  /\ UNCHANGED <<tables, forgot>>

\* DeleteCodeArtifactsByFile, three statements: the references are found
\* through the projections, which go next.
MutDeleteRefs(t) ==
  /\ Run(t, "refs")
  /\ refs' = {r \in refs : r[2] \notin symbols}
  /\ PoolThen(t, "symbols")
  /\ UNCHANGED <<memories, symbols, holder, request, forgot>>

DeleteRefs(t) ==
  /\ Run(t, "refs")
  /\ refs' = {r \in refs : r[1] \notin symbols /\ r[2] \notin symbols}
  /\ PoolThen(t, "symbols")
  /\ UNCHANGED <<memories, symbols, holder, request, forgot>>

DeleteSymbols(t) ==
  /\ Run(t, "symbols")
  /\ symbols' = {}
  /\ PoolThen(t, "memories")
  /\ UNCHANGED <<memories, refs, holder, request, forgot>>

DeleteMemories(t) ==
  /\ Run(t, "memories")
  /\ memories' = {} /\ symbols' = {}
  /\ PoolThen(t, "put")
  /\ UNCHANGED <<refs, holder, request, forgot>>

\* A new symbol: its memory, and then its projection, which needs the memory.
PutSymbolMemory(t, n) ==
  /\ Run(t, "put") /\ n \in want[t]
  /\ memories' = memories \cup {n}
  /\ PoolThen(t, "project")
  /\ UNCHANGED <<symbols, refs, holder, request, forgot>>

PutCodeSymbol(t, n) ==
  /\ Run(t, "project") /\ n \in want[t]
  /\ IF n \in memories
       THEN /\ symbols' = symbols \cup {n}
            /\ want' = [want EXCEPT ![t] = @ \ {n}]
            /\ PoolThen(t, IF want[t] = {n} THEN "insert" ELSE "put")
       ELSE /\ Failed(t)
            /\ UNCHANGED <<symbols, want>>
  /\ UNCHANGED <<memories, refs, holder, call, batch, forgot>>

\* One transaction: all of the references or none.
PutCodeRefs(t) ==
  /\ Run(t, "insert")
  /\ refs' = refs \cup batch[t]
  /\ PoolThen(t, "unlock")
  /\ UNCHANGED <<memories, symbols, holder, request, forgot>>

\* DeleteMemory of a symbol's memory takes the projection with it.
ForgetSymbol(t, n) ==
  /\ Run(t, "forget")
  /\ memories' = memories \ {n} /\ symbols' = symbols \ {n}
  /\ forgot' = forgot \cup (symbols \cap {n})
  /\ PoolThen(t, "idle")
  /\ UNCHANGED <<refs, holder, request>>

\* Any statement that leaves these tables alone; a worker's cycle runs some.
OtherStatement(t) ==
  /\ Run(t, "read")
  /\ \/ call[t] = "worker" /\ PoolThen(t, "read")
     \/ Failed(t)
  /\ UNCHANGED <<tables, holder, request, forgot>>

\* A statement of the pass fails.
StatementFails(t) ==
  /\ taken[t] /\ at[t] \notin {"lock", "read", "forget"}
  /\ Failed(t)
  /\ UNCHANGED <<tables, holder, request, forgot>>

\* A crashed process drops its sessions, and the locks with them.
PoolCrash(p) ==
  /\ at' = [t \in PoolThreads |-> IF t \in Of(p) THEN "idle" ELSE at[t]]
  /\ taken' = [t \in PoolThreads |-> taken[t] /\ t \notin Of(p)]
  /\ spare' = [spare EXCEPT ![p] = PoolSize]
  /\ holder' = [l \in PoolLocks |-> IF holder[l] \in Of(p) THEN PoolFree ELSE holder[l]]
  /\ Forget(Of(p))
  /\ UNCHANGED <<tables, forgot>>

\* A statement of the call on t, other than one more of a cycle.
PoolStep(t) ==
  \/ TryAdvisoryLock(t) \/ ReleaseLock(t)
  \/ DeleteRefs(t) \/ DeleteSymbols(t) \/ DeleteMemories(t)
  \/ \E n \in Names : PutSymbolMemory(t, n) \/ PutCodeSymbol(t, n) \/ ForgetSymbol(t, n)
  \/ PutCodeRefs(t) \/ OtherStatement(t) \/ StatementFails(t)

PoolNext ==
  \/ \E t \in PoolThreads :
       \/ \E S \in SUBSET Names \ {{}} : \E R \in {{}, S \X Callees} : PoolBegin(t, "index", S, R)
       \/ \E c \in {"worker", "read", "forget"} : PoolBegin(t, c, {}, {})
       \/ Acquire(t)
       \/ PoolStep(t)
  \/ \E p \in PoolProcs : PoolCrash(p)

PoolSpec == PoolInit /\ [][PoolNext]_poolVars

\* pgxpool serves those who wait for a connection in turn, a statement that
\* runs ends, and a cycle of the worker does.
PoolFairness ==
  \A t \in PoolThreads :
    /\ SF_poolVars(Acquire(t))
    /\ WF_poolVars(PoolStep(t))
    /\ SF_poolVars(OtherStatement(t) /\ at'[t] # "read")

-----------------------------------------------------------------------------

PoolTypeOK ==
  /\ symbols \subseteq memories /\ memories \subseteq Names
  /\ refs \subseteq Names \X Callees
  /\ holder \in [PoolLocks -> PoolThreads \cup {PoolFree}]
  /\ \A p \in PoolProcs : InUse(p) + spare[p] = PoolSize

(* No reference is left behind: each starts at a symbol the tables have, so *)
(* that the next clean-up of its file finds it, wherever a pass was cut     *)
(* short or killed.  (A symbol whose memory is forgotten by hand leaves     *)
(* its references for good.)                                                *)
RefsAreFound == \A r \in refs : r[1] \in symbols \cup forgot

(* Every call returns: goroutines that hold an advisory lock and need a     *)
(* second connection never wait for each other, if the pool has more        *)
(* connections than there are locks; a killed process holds up nobody.      *)
PoolCallsReturn == \A t \in PoolThreads : at[t] # "idle" ~> at[t] = "idle"

\* A call that its pool does not keep waiting: it has its connection, or there
\* is one to be had, or it gives back the one of its lock.
GoesOn(t) == at[t] # "idle" /\ (taken[t] \/ at[t] = "unlock" \/ spare[PoolHome[t]] > 0)

(* Never does everyone wait for everyone: while a call is in progress some  *)
(* call of the same process goes on, if the pool has more connections than  *)
(* there are locks.                                                         *)
NoStandstill ==
  PoolSize > Cardinality(PoolLocks) =>
    \A t \in PoolThreads : at[t] # "idle" => \E u \in Of(PoolHome[t]) : GoesOn(u)
=============================================================================
