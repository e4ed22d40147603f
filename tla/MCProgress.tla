----------------------------- MODULE MCProgress -----------------------------
(* Small instances of what must go on: the calls of a SQLite and of a       *)
(* Postgres store, and the upkeep of the worker's cycles.  They share no    *)
(* state as they are modelled, so a behaviour is one of one of them,        *)
(* `part`, and the others stay where they begin.                            *)
EXTENDS SQLiteStore, PostgresCalls, Maintenance

CONSTANTS home, thread1, thread2

VARIABLE part

\* Two goroutines of one process.
OneHome == [t \in {thread1, thread2} |-> home]

MCAlike == {<<2, 1>>, <<3, 1>>}

MCInit ==
  /\ part \in {"sqlite", "postgres", "upkeep"}
  /\ Init /\ PoolInit /\ UpInit
  /\ part # "upkeep" => known = {} /\ offline

MCNext ==
  \/ part = "sqlite" /\ Next /\ UNCHANGED <<part, poolVars, upVars>>
  \/ part = "postgres" /\ PoolNext /\ UNCHANGED <<part, vars, upVars>>
  \/ part = "upkeep" /\ UpNext /\ UNCHANGED <<part, vars, poolVars>>

\* The fairness of each module in the behaviours of its part: SF of Continue(t);
\* PoolFairness; UpFairness.  What is asked for in different parts shares a
\* formula, for TLC takes time exponential in their number.
progressVars == <<part, vars, poolVars, upVars>>
Sqlite   == part = "sqlite" /\ UNCHANGED <<part, poolVars, upVars>>
Postgres == part = "postgres" /\ UNCHANGED <<part, vars, upVars>>
Upkeep   == part = "upkeep" /\ UNCHANGED <<part, vars, poolVars>>
CallGoesOn(t) == (Sqlite /\ Continue(t)) \/ (Postgres /\ Acquire(t))
OtherReturns(t) == Postgres /\ OtherStatement(t) /\ at'[t] # "read"
Classes(e) == Upkeep /\ BackfillOne(e)
MCSpec ==
  /\ MCInit /\ [][MCNext]_progressVars
  /\ WF_progressVars((Postgres /\ PoolStep(thread1)) \/ (Upkeep /\ UpStep))
  /\ WF_progressVars(Postgres /\ PoolStep(thread2))
  /\ SF_progressVars(CallGoesOn(thread1) \/ (Upkeep /\ DecayDelete))
  /\ SF_progressVars(CallGoesOn(thread2) \/ (Upkeep /\ BackfillEpisodes))
  /\ SF_progressVars(OtherReturns(thread1) \/ Classes(1))
  /\ SF_progressVars(OtherReturns(thread2) \/ Classes(2))
  /\ SF_progressVars(Classes(3))

\* Every component's state is of its type.
TypesOK == TypeOK /\ PoolTypeOK /\ UpTypeOK

\* A call of either store returns: indexMu, the one connection of SQLite's pool,
\* the connections of Postgres's and its advisory locks never wait for each other
\* for ever, if that pool has more connections than there are locks.
EveryCallReturns == CallsReturn /\ PoolCallsReturn
=============================================================================
