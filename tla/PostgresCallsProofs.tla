-------------------------- MODULE PostgresCallsProofs --------------------------
(***************************************************************************)
(* Postgres's calls, for any processes, goroutines, pools and symbols: no  *)
(* reference of the code tables is left without its symbol, and calls      *)
(* never all wait for each other.  At the end, the types of Maintenance.   *)
(*                                                                         *)
(* For the references, the inductive invariant: a pass that is past the    *)
(* lock holds it, so that one pass at a time is between the deletion of a  *)
(* file's rows and their insertion; from the deletion of the references    *)
(* on, none is left but those of symbols forgotten by hand; and what the   *)
(* pass will insert is of symbols it has written or has still to write.    *)
(***************************************************************************)
EXTENDS StoreProofs, MCProgress, FiniteSetTheorems, TLAPS

Typed ==
  /\ DOMAIN at = PoolThreads /\ DOMAIN holder = PoolLocks
  /\ DOMAIN want = PoolThreads /\ DOMAIN batch = PoolThreads

\* The statements of a pass, which run under the lock.
Guarded == {"refs", "symbols", "memories", "put", "project", "insert"}

HoldsLock(t) == at[t] \in Guarded => holder["index"] = t

Emptied(t) == at[t] \in {"symbols", "memories"} => \A r \in refs : r[1] \in forgot

Prepared(t) ==
  /\ at[t] \in {"lock", "refs", "symbols", "memories"} => \A r \in batch[t] : r[1] \in want[t]
  /\ at[t] \in {"put", "project"} => \A r \in batch[t] : r[1] \in want[t] \cup symbols \cup forgot
  /\ at[t] = "insert" => \A r \in batch[t] : r[1] \in symbols \cup forgot

RefsInv ==
  /\ Typed
  /\ RefsAreFound
  /\ \A t \in PoolThreads : HoldsLock(t) /\ Emptied(t) /\ Prepared(t)

-----------------------------------------------------------------------------

LEMMA InitRefs == PoolInit => RefsInv
<1> SUFFICES ASSUME PoolInit PROVE RefsInv
  OBVIOUS
<1>1. Typed
  BY DEF PoolInit, Typed
<1>2. RefsAreFound
  BY DEF PoolInit, RefsAreFound
<1>3. ASSUME NEW t \in PoolThreads PROVE at[t] = "idle"
  BY DEF PoolInit
<1>4. ASSUME NEW t \in PoolThreads PROVE HoldsLock(t) /\ Emptied(t) /\ Prepared(t)
  BY <1>3 DEF HoldsLock, Emptied, Prepared, Guarded
<1> QED
  BY <1>1, <1>2, <1>4 DEF RefsInv

(* One pass at a time is past the lock.                                     *)
LEMMA OnePass ==
  ASSUME RefsInv, NEW t \in PoolThreads, NEW u \in PoolThreads,
         at[t] \in Guarded, at[u] \in Guarded
  PROVE  t = u
  BY DEF RefsInv, HoldsLock

(* A step of t that leaves tables, lock and what t will insert as they are, *)
(* and comes to a statement that asks for no more than the one before.      *)
LEMMA QuietInv ==
  ASSUME RefsInv, NEW t \in PoolThreads, NEW point,
         at' = [at EXCEPT ![t] = point],
         UNCHANGED <<symbols, refs, holder, request, forgot>>,
         \/ point \notin Guarded \cup {"lock"}
         \/ at[t] = "put" /\ point = "project"
  PROVE  RefsInv'
<1> USE DEF request
<1>1. Typed'
  BY DEF RefsInv, Typed
<1>2. RefsAreFound'
  BY DEF RefsInv, RefsAreFound
<1>3. ASSUME NEW u \in PoolThreads PROVE (HoldsLock(u) /\ Emptied(u) /\ Prepared(u))'
  <2>1. at'[u] = IF u = t THEN point ELSE at[u]
    BY DEF RefsInv, Typed
  <2>2. HoldsLock(u) /\ Emptied(u) /\ Prepared(u)
    BY DEF RefsInv
  <2> QED
    BY <2>1, <2>2 DEF HoldsLock, Emptied, Prepared, Guarded
<1> QED
  BY <1>1, <1>2, <1>3 DEF RefsInv

LEMMA BeginInv ==
  ASSUME RefsInv, NEW t \in PoolThreads, NEW c \in {"index", "worker", "read", "forget"},
         NEW W \in SUBSET Names, NEW R \in SUBSET (W \X Callees), PoolBegin(t, c, W, R)
  PROVE  RefsInv'
<1> USE DEF PoolBegin
<1>1. Typed'
  BY DEF RefsInv, Typed
<1>2. RefsAreFound'
  BY DEF RefsInv, RefsAreFound, tables
<1>3. ASSUME NEW u \in PoolThreads PROVE (HoldsLock(u) /\ Emptied(u) /\ Prepared(u))'
  <2>1. HoldsLock(u) /\ Emptied(u) /\ Prepared(u)
    BY DEF RefsInv
  <2>2. CASE u = t
    <3>1. at'[t] \notin Guarded /\ want'[t] = W /\ batch'[t] = R
      BY DEF RefsInv, Typed, PoolLocks, Guarded
    <3>2. \A r \in R : r[1] \in W
      OBVIOUS
    <3> QED
      BY <2>2, <3>1, <3>2 DEF HoldsLock, Emptied, Prepared, Guarded
  <2>3. CASE u # t
    <3>1. at'[u] = at[u] /\ want'[u] = want[u] /\ batch'[u] = batch[u]
      BY <2>3 DEF RefsInv, Typed
    <3> QED
      BY <2>1, <3>1 DEF HoldsLock, Emptied, Prepared, tables
  <2> QED
    BY <2>2, <2>3
<1> QED
  BY <1>1, <1>2, <1>3 DEF RefsInv

(* The lock is given to one goroutine that found it free.                   *)
LEMMA TryInv ==
  ASSUME RefsInv, NEW t \in PoolThreads, TryAdvisoryLock(t)
  PROVE  RefsInv'
<1> USE DEF tables, request
<1>1. CASE holder[call[t]] # PoolFree
  <2>1. at' = [at EXCEPT ![t] = "idle"] /\ holder' = holder
    BY <1>1 DEF TryAdvisoryLock, PoolThen, PoolKeep
  <2>2. UNCHANGED <<symbols, refs, holder, request, forgot>>
    BY <2>1 DEF TryAdvisoryLock
  <2>3. "idle" \notin Guarded \cup {"lock"}
    BY DEF Guarded
  <2> QED
    BY <2>1, <2>2, <2>3, QuietInv
<1>2. CASE holder[call[t]] = PoolFree
  <2>1. /\ at[t] = "lock"
        /\ holder' = [holder EXCEPT ![call[t]] = t]
        /\ at' = [at EXCEPT ![t] = IF call[t] = "index" THEN "refs" ELSE "read"]
        /\ UNCHANGED <<symbols, refs, call, want, batch, forgot>>
    BY <1>2 DEF TryAdvisoryLock, PoolKeep, Run
  <2>2. Typed'
    BY <2>1 DEF RefsInv, Typed
  <2>3. RefsAreFound'
    BY <2>1 DEF RefsInv, RefsAreFound
  <2>4. ASSUME NEW u \in PoolThreads PROVE (HoldsLock(u) /\ Emptied(u) /\ Prepared(u))'
    <3>1. HoldsLock(u) /\ Emptied(u) /\ Prepared(u)
      BY DEF RefsInv
    <3>2. CASE u = t
      <4>1. at'[t] = IF call[t] = "index" THEN "refs" ELSE "read"
        BY <2>1 DEF RefsInv, Typed
      <4>2. call[t] = "index" => holder'["index"] = t
        BY <2>1 DEF RefsInv, Typed, PoolLocks
      <4> QED
        BY <2>1, <3>1, <3>2, <4>1, <4>2 DEF HoldsLock, Emptied, Prepared, Guarded
    <3>3. CASE u # t
      <4>1. at'[u] = at[u]
        BY <2>1, <3>3 DEF RefsInv, Typed
      <4>2. at[u] \in Guarded => holder'["index"] = holder["index"]
        BY <1>2, <2>1, <3>1, PoolAssumption DEF RefsInv, Typed, PoolLocks, HoldsLock
      <4> QED
        BY <2>1, <3>1, <4>1, <4>2 DEF HoldsLock, Emptied, Prepared
    <3> QED
      BY <3>2, <3>3
  <2> QED
    BY <2>2, <2>3, <2>4 DEF RefsInv
<1> QED
  BY <1>1, <1>2

(* Only what is past the lock needs it, and releases nobody else's.         *)
LEMMA ReleaseInv ==
  ASSUME RefsInv, NEW S \in SUBSET PoolThreads,
         \A u \in PoolThreads : at'[u] = IF u \in S THEN "idle" ELSE at[u],
         DOMAIN at' = PoolThreads,
         holder' = [l \in PoolLocks |-> IF holder[l] \in S THEN PoolFree ELSE holder[l]],
         Forget(S), UNCHANGED <<symbols, refs, forgot>>
  PROVE  RefsInv'
<1> USE DEF Forget
<1>1. Typed'
  BY DEF RefsInv, Typed
<1>2. RefsAreFound'
  BY DEF RefsInv, RefsAreFound
<1>3. ASSUME NEW u \in PoolThreads PROVE (HoldsLock(u) /\ Emptied(u) /\ Prepared(u))'
  <2>1. HoldsLock(u) /\ Emptied(u) /\ Prepared(u)
    BY DEF RefsInv
  <2>2. CASE u \in S
    BY <2>2 DEF HoldsLock, Emptied, Prepared, Guarded
  <2>3. CASE u \notin S
    <3>1. at'[u] = at[u] /\ want'[u] = want[u] /\ batch'[u] = batch[u]
      BY <2>3
    <3>2. holder["index"] = u => holder'["index"] = u
      BY <2>3 DEF PoolLocks
    <3> QED
      BY <2>1, <3>1, <3>2 DEF HoldsLock, Emptied, Prepared
  <2> QED
    BY <2>2, <2>3
<1> QED
  BY <1>1, <1>2, <1>3 DEF RefsInv

(* A step of t that keeps the lock and changes the tables.                  *)
LEMMA TableStep ==
  ASSUME RefsInv, NEW t \in PoolThreads, NEW point,
         at[t] \in Guarded, at' = [at EXCEPT ![t] = point],
         holder' = holder, DOMAIN want' = PoolThreads, batch' = batch,
         \A u \in PoolThreads \ {t} : want'[u] = want[u],
         RefsAreFound', forgot' = forgot,
         (Emptied(t) /\ Prepared(t))'
  PROVE  RefsInv'
<1>1. Typed'
  BY DEF RefsInv, Typed
<1>2. ASSUME NEW u \in PoolThreads PROVE (HoldsLock(u) /\ Emptied(u) /\ Prepared(u))'
  <2>1. HoldsLock(u) /\ HoldsLock(t) /\ Emptied(u) /\ Prepared(u)
    BY DEF RefsInv
  <2>2. CASE u = t
    <3>1. HoldsLock(t)'
      BY <2>1 DEF HoldsLock
    <3> QED
      BY <2>2, <3>1
  <2>3. CASE u # t
    <3>1. at'[u] = at[u] /\ at[u] \notin Guarded
      BY <2>3, OnePass DEF RefsInv, Typed
    <3> QED
      BY <2>1, <2>3, <3>1 DEF HoldsLock, Emptied, Prepared, Guarded
  <2> QED
    BY <2>2, <2>3
<1> QED
  BY <1>1, <1>2 DEF RefsInv

(* The references of the file's symbols go while the symbols are there.     *)
LEMMA DeleteRowsInv ==
  ASSUME RefsInv, NEW t \in PoolThreads,
         DeleteRefs(t) \/ DeleteSymbols(t) \/ DeleteMemories(t)
  PROVE  RefsInv'
<1> USE DEF PoolThen, PoolKeep, Run, request
<1>1. RefsAreFound /\ Emptied(t) /\ Prepared(t) /\ t \in DOMAIN at /\ DOMAIN want = PoolThreads
  BY DEF RefsInv, Typed
<1>2. CASE DeleteRefs(t)
  <2>1. /\ at[t] = "refs" /\ at' = [at EXCEPT ![t] = "symbols"]
        /\ refs' = {r \in refs : r[1] \notin symbols /\ r[2] \notin symbols}
        /\ UNCHANGED <<symbols, holder, want, batch, forgot>>
    BY <1>2 DEF DeleteRefs
  <2>2. at'[t] = "symbols" /\ at[t] \in Guarded
    BY <1>1, <2>1 DEF Guarded
  <2>3. RefsAreFound' /\ (Emptied(t) /\ Prepared(t))'
    BY <1>1, <2>1, <2>2 DEF RefsAreFound, Emptied, Prepared
  <2> QED
    BY <1>1, <2>1, <2>2, <2>3, TableStep
<1>3. CASE DeleteSymbols(t)
  <2>1. /\ at[t] = "symbols" /\ at' = [at EXCEPT ![t] = "memories"]
        /\ symbols' = {}
        /\ UNCHANGED <<refs, holder, want, batch, forgot>>
    BY <1>3 DEF DeleteSymbols
  <2>2. at'[t] = "memories" /\ at[t] \in Guarded
    BY <1>1, <2>1 DEF Guarded
  <2>3. RefsAreFound' /\ (Emptied(t) /\ Prepared(t))'
    BY <1>1, <2>1, <2>2 DEF RefsAreFound, Emptied, Prepared
  <2> QED
    BY <1>1, <2>1, <2>2, <2>3, TableStep
<1>4. CASE DeleteMemories(t)
  <2>1. /\ at[t] = "memories" /\ at' = [at EXCEPT ![t] = "put"]
        /\ symbols' = {}
        /\ UNCHANGED <<refs, holder, want, batch, forgot>>
    BY <1>4 DEF DeleteMemories
  <2>2. at'[t] = "put" /\ at[t] \in Guarded
    BY <1>1, <2>1 DEF Guarded
  <2>3. RefsAreFound' /\ (Emptied(t) /\ Prepared(t))'
    BY <1>1, <2>1, <2>2 DEF RefsAreFound, Emptied, Prepared
  <2> QED
    BY <1>1, <2>1, <2>2, <2>3, TableStep
<1> QED
  BY <1>2, <1>3, <1>4

(* A symbol is written before the references that start at it.              *)
LEMMA PutInv ==
  ASSUME RefsInv, NEW t \in PoolThreads,
         (\E n \in Names : PutSymbolMemory(t, n) \/ PutCodeSymbol(t, n)) \/ PutCodeRefs(t)
  PROVE  RefsInv'
<1> USE DEF PoolThen, PoolKeep, Run, request
<1>1. RefsAreFound /\ Emptied(t) /\ Prepared(t) /\ t \in DOMAIN at /\ DOMAIN want = PoolThreads
  BY DEF RefsInv, Typed
<1>2. ASSUME NEW n \in Names, PutSymbolMemory(t, n) PROVE RefsInv'
  BY <1>2, QuietInv DEF PutSymbolMemory
<1>3. ASSUME NEW n \in Names, PutCodeSymbol(t, n) PROVE RefsInv'
  <2>1. CASE n \notin memories
    <3>1. PICK point \in {"unlock", "idle"} : at' = [at EXCEPT ![t] = point]
      BY <1>3, <2>1 DEF PutCodeSymbol, Failed
    <3>2. UNCHANGED <<symbols, refs, holder, request, forgot>>
      BY <1>3, <2>1 DEF PutCodeSymbol
    <3>3. point \notin Guarded \cup {"lock"}
      BY DEF Guarded
    <3> QED
      BY <3>1, <3>2, <3>3, QuietInv
  <2>2. CASE n \in memories
    <3>1. /\ at[t] = "project"
          /\ at' = [at EXCEPT ![t] = IF want[t] = {n} THEN "insert" ELSE "put"]
          /\ symbols' = symbols \cup {n}
          /\ want' = [want EXCEPT ![t] = @ \ {n}]
          /\ UNCHANGED <<refs, holder, batch, forgot>>
      BY <1>3, <2>2 DEF PutCodeSymbol
    <3>2. /\ at'[t] = IF want[t] = {n} THEN "insert" ELSE "put"
          /\ want'[t] = want[t] \ {n} /\ at[t] \in Guarded
      BY <1>1, <3>1 DEF Guarded
    <3>3. RefsAreFound' /\ Emptied(t)'
      BY <1>1, <3>1, <3>2 DEF RefsAreFound, Emptied
    <3>4. Prepared(t)'
      BY <1>1, <3>1, <3>2 DEF Prepared
    <3>5. \A u \in PoolThreads \ {t} : want'[u] = want[u]
      BY <1>1, <3>1
    <3>6. DOMAIN want' = PoolThreads
      BY <1>1, <3>1
    <3> QED
      BY <3>1, <3>2, <3>3, <3>4, <3>5, <3>6, TableStep
  <2> QED
    BY <2>1, <2>2
<1>4. CASE PutCodeRefs(t)
  <2>1. /\ at[t] = "insert" /\ at' = [at EXCEPT ![t] = "unlock"]
        /\ refs' = refs \cup batch[t]
        /\ UNCHANGED <<symbols, holder, want, batch, forgot>>
    BY <1>4 DEF PutCodeRefs
  <2>2. at'[t] = "unlock" /\ at[t] \in Guarded
    BY <1>1, <2>1 DEF Guarded
  <2>3. RefsAreFound' /\ (Emptied(t) /\ Prepared(t))'
    BY <1>1, <2>1, <2>2 DEF RefsAreFound, Emptied, Prepared
  <2> QED
    BY <1>1, <2>1, <2>2, <2>3, TableStep
<1> QED
  BY <1>2, <1>3, <1>4

(* A symbol that is forgotten by hand moves from one set to the other.      *)
LEMMA ForgetInv ==
  ASSUME RefsInv, NEW t \in PoolThreads, NEW n \in Names, ForgetSymbol(t, n)
  PROVE  RefsInv'
<1> USE DEF PoolThen, PoolKeep, Run, request
<1>1. /\ at' = [at EXCEPT ![t] = "idle"]
      /\ symbols' \cup forgot' = symbols \cup forgot /\ forgot \subseteq forgot'
      /\ UNCHANGED <<refs, holder, want, batch>>
  BY DEF ForgetSymbol
<1>2. Typed' /\ RefsAreFound'
  BY <1>1 DEF RefsInv, Typed, RefsAreFound
<1>3. ASSUME NEW u \in PoolThreads PROVE (HoldsLock(u) /\ Emptied(u) /\ Prepared(u))'
  <2>1. HoldsLock(u) /\ Emptied(u) /\ Prepared(u)
    BY DEF RefsInv
  <2>2. at'[u] = IF u = t THEN "idle" ELSE at[u]
    BY <1>1 DEF RefsInv, Typed
  <2>3. (HoldsLock(u) /\ Emptied(u))'
    BY <1>1, <2>1, <2>2 DEF HoldsLock, Emptied, Guarded
  <2>4. Prepared(u)'
    BY <1>1, <2>1, <2>2 DEF Prepared
  <2> QED
    BY <2>3, <2>4
<1> QED
  BY <1>2, <1>3 DEF RefsInv

(* Any other step of a call: to its next statement, to its release, or out. *)
LEMMA StepInv ==
  ASSUME RefsInv, NEW t \in PoolThreads, PoolStep(t)
  PROVE  RefsInv'
<1> USE DEF PoolThen, PoolKeep, Run
<1>1. ASSUME NEW point \in {"unlock", "idle", "read"}, at' = [at EXCEPT ![t] = point],
             UNCHANGED <<tables, holder, request, forgot>>
      PROVE  RefsInv'
  <2>1. point \notin Guarded \cup {"lock"}
    BY DEF Guarded
  <2> QED
    BY <1>1, <2>1, QuietInv DEF tables
<1>2. CASE TryAdvisoryLock(t)
  BY <1>2, TryInv
<1>3. CASE ReleaseLock(t)
  <2>1. /\ at' = [at EXCEPT ![t] = "idle"]
        /\ holder' = [l \in PoolLocks |-> IF holder[l] \in {t} THEN PoolFree ELSE holder[l]]
        /\ Forget({t})
        /\ UNCHANGED <<symbols, refs, forgot>>
    BY <1>3 DEF ReleaseLock, tables
  <2>2. /\ DOMAIN at' = PoolThreads
        /\ \A u \in PoolThreads : at'[u] = IF u \in {t} THEN "idle" ELSE at[u]
    BY <2>1 DEF RefsInv, Typed
  <2> QED
    BY <2>1, <2>2, ReleaseInv
<1>4. CASE DeleteRefs(t) \/ DeleteSymbols(t) \/ DeleteMemories(t)
  BY <1>4, DeleteRowsInv
<1>5. CASE (\E n \in Names : PutSymbolMemory(t, n) \/ PutCodeSymbol(t, n)) \/ PutCodeRefs(t)
  BY <1>5, PutInv
<1>6. ASSUME NEW n \in Names, ForgetSymbol(t, n) PROVE RefsInv'
  BY <1>6, ForgetInv
<1>7. CASE OtherStatement(t)
  BY <1>1, <1>7 DEF OtherStatement, Failed
<1>8. CASE StatementFails(t)
  BY <1>1, <1>8 DEF StatementFails, Failed
<1> QED
  BY <1>2, <1>3, <1>4, <1>5, <1>6, <1>7, <1>8 DEF PoolStep

LEMMA NextRefs == RefsInv /\ [PoolNext]_poolVars => RefsInv'
<1> SUFFICES ASSUME RefsInv, [PoolNext]_poolVars PROVE RefsInv'
  OBVIOUS
<1>1. ASSUME UNCHANGED <<tables, holder, at, request, forgot>> PROVE RefsInv'
  BY <1>1 DEF RefsInv, Typed, RefsAreFound, HoldsLock, Emptied, Prepared, tables, request
<1>2. ASSUME NEW t \in PoolThreads, NEW S \in SUBSET Names, NEW R \in {{}, S \X Callees},
             PoolBegin(t, "index", S, R)
      PROVE  RefsInv'
  <2>1. R \in SUBSET (S \X Callees)
    OBVIOUS
  <2> QED
    BY <1>2, <2>1, BeginInv
<1>3. ASSUME NEW t \in PoolThreads, NEW c \in {"worker", "read", "forget"}, PoolBegin(t, c, {}, {})
      PROVE  RefsInv'
  BY <1>3, BeginInv
<1>4. ASSUME NEW t \in PoolThreads, Acquire(t) PROVE RefsInv'
  BY <1>1, <1>4 DEF Acquire
<1>5. ASSUME NEW p \in PoolProcs, PoolCrash(p) PROVE RefsInv'
  BY <1>5, ReleaseInv DEF PoolCrash, Of, tables
<1>6. CASE UNCHANGED poolVars
  BY <1>1, <1>6 DEF poolVars
<1> QED
  BY <1>2, <1>3, <1>4, <1>5, <1>6, StepInv DEF PoolNext

-----------------------------------------------------------------------------

(* Every reference of code_refs starts at a symbol that code_symbols has,   *)
(* or had until its memory was forgotten by hand: the next                  *)
(* DeleteCodeArtifactsByFile of the file finds it, wherever passes failed   *)
(* or were killed, in any number of processes and goroutines.               *)
THEOREM RefsAreFoundTheorem == PoolSpec => []RefsAreFound
<1>1. RefsInv => RefsAreFound
  BY DEF RefsInv
<1> QED
  BY InitRefs, NextRefs, <1>1, PTL DEF PoolSpec

-----------------------------------------------------------------------------
(***************************************************************************)
(* The pool.  What is out of it is the connections of the statements that  *)
(* run and of the locks that are held, and a call that gives one back had  *)
(* exactly one: the statement's while it runs, the lock's when it unlocks. *)
(***************************************************************************)

Users(p) == {t \in Of(p) : taken[t]}
LocksOf(p) == {l \in PoolLocks : holder[l] \in Of(p)}

\* Who holds a lock is in the call that is guarded by it, past its beginning
\* and not at its end.
Placed(t) ==
  /\ at[t] \in {"idle", "unlock"} => ~taken[t]
  /\ at[t] \in {"lock", "unlock"} => call[t] \in PoolLocks
  /\ at[t] \in Guarded => call[t] = "index"
  /\ at[t] = "forget" => call[t] \notin PoolLocks
  /\ \A l \in PoolLocks : holder[l] = t <=> call[t] = l /\ at[t] \notin {"idle", "lock"}

Balanced(p) ==
  /\ IsFiniteSet(Users(p)) /\ spare[p] \in Nat
  /\ Cardinality(Users(p)) + Cardinality(LocksOf(p)) + spare[p] = PoolSize

PoolTyped ==
  /\ DOMAIN at = PoolThreads /\ DOMAIN call = PoolThreads
  /\ taken \in [PoolThreads -> BOOLEAN]
  /\ holder \in [PoolLocks -> PoolThreads \cup {PoolFree}]
  /\ DOMAIN spare = PoolProcs

PoolInv ==
  /\ PoolTyped
  /\ \A t \in PoolThreads : Placed(t)
  /\ \A p \in PoolProcs : Balanced(p)

LEMMA FewLocks ==
  ASSUME NEW p
  PROVE  IsFiniteSet(LocksOf(p)) /\ Cardinality(LocksOf(p)) \in Nat
         /\ Cardinality(LocksOf(p)) <= Cardinality(PoolLocks) /\ Cardinality(PoolLocks) \in Nat
<1>1. IsFiniteSet(PoolLocks)
  <2>1. IsFiniteSet({"index"})
    BY FS_Singleton
  <2>2. PoolLocks = {"index"} \cup {"worker"}
    BY DEF PoolLocks
  <2> QED
    BY <2>1, <2>2, FS_AddElement
<1>2. LocksOf(p) \subseteq PoolLocks
  BY DEF LocksOf
<1> QED
  BY <1>1, <1>2, FS_Subset, FS_CardinalityType

LEMMA InitPool == PoolInit => PoolInv
<1> SUFFICES ASSUME PoolInit PROVE PoolInv
  OBVIOUS
<1>1. PoolTyped
  BY PoolAssumption DEF PoolInit, PoolTyped
<1>2. ASSUME NEW t \in PoolThreads PROVE Placed(t)
  BY PoolAssumption DEF PoolInit, Placed, Guarded, PoolLocks
<1>3. ASSUME NEW p \in PoolProcs PROVE Balanced(p)
  <2>1. Users(p) = {} /\ LocksOf(p) = {} /\ spare[p] = PoolSize
    BY PoolAssumption DEF PoolInit, Users, LocksOf, Of
  <2> QED
    BY <2>1, PoolAssumption, FS_EmptySet DEF Balanced
<1> QED
  BY <1>1, <1>2, <1>3 DEF PoolInv

(* The accounts of a process in which nothing changes.                      *)
LEMMA BalanceKept ==
  ASSUME PoolInv, NEW p \in PoolProcs,
         spare'[p] = spare[p],
         \A t \in Of(p) : taken'[t] = taken[t],
         \A l \in PoolLocks : holder'[l] \in Of(p) <=> holder[l] \in Of(p)
  PROVE  Balanced(p)'
<1>1. Users(p)' = Users(p) /\ LocksOf(p)' = LocksOf(p)
  BY DEF Users, LocksOf, Of
<1> QED
  BY <1>1 DEF PoolInv, Balanced

(* A statement gives its connection back.                                   *)
LEMMA BalanceThen ==
  ASSUME PoolInv, NEW t \in PoolThreads, taken[t],
         taken' = [taken EXCEPT ![t] = FALSE], holder' = holder,
         spare' = [spare EXCEPT ![PoolHome[t]] = @ + 1],
         NEW p \in PoolProcs
  PROVE  Balanced(p)'
<1>1. CASE p # PoolHome[t]
  BY <1>1, BalanceKept DEF PoolInv, PoolTyped, Of
<1>2. CASE p = PoolHome[t]
  <2>1. Users(p)' = Users(p) \ {t} /\ t \in Users(p) /\ LocksOf(p)' = LocksOf(p)
    BY <1>2 DEF PoolInv, PoolTyped, Users, LocksOf, Of
  <2>2. /\ IsFiniteSet(Users(p)) /\ spare[p] \in Nat /\ PoolSize \in Nat
        /\ Cardinality(Users(p)) + Cardinality(LocksOf(p)) + spare[p] = PoolSize
    BY PoolAssumption DEF PoolInv, Balanced
  <2>3. /\ IsFiniteSet(Users(p) \ {t}) /\ Cardinality(Users(p)) \in Nat
        /\ Cardinality(Users(p) \ {t}) = Cardinality(Users(p)) - 1
    BY <2>1, <2>2, FS_RemoveElement, FS_CardinalityType
  <2>4. spare'[p] = spare[p] + 1
    BY <1>2 DEF PoolInv, PoolTyped
  <2> QED
    BY <2>1, <2>2, <2>3, <2>4, FewLocks DEF Balanced
<1> QED
  BY <1>1, <1>2

(* A statement gets one.                                                    *)
LEMMA BalanceAcquire ==
  ASSUME PoolInv, NEW t \in PoolThreads, Acquire(t), NEW p \in PoolProcs
  PROVE  Balanced(p)'
<1>1. CASE p # PoolHome[t]
  BY <1>1, BalanceKept DEF PoolInv, PoolTyped, Of, Acquire
<1>2. CASE p = PoolHome[t]
  <2>1. Users(p)' = Users(p) \cup {t} /\ t \notin Users(p) /\ LocksOf(p)' = LocksOf(p)
    BY <1>2 DEF PoolInv, PoolTyped, Users, LocksOf, Of, Acquire
  <2>2. /\ IsFiniteSet(Users(p)) /\ spare[p] \in Nat /\ PoolSize \in Nat
        /\ Cardinality(Users(p)) + Cardinality(LocksOf(p)) + spare[p] = PoolSize
    BY PoolAssumption DEF PoolInv, Balanced
  <2>3. /\ IsFiniteSet(Users(p) \cup {t}) /\ Cardinality(Users(p)) \in Nat
        /\ Cardinality(Users(p) \cup {t}) = Cardinality(Users(p)) + 1
    BY <2>1, <2>2, FS_AddElement, FS_CardinalityType
  <2>4. spare'[p] = spare[p] - 1 /\ spare[p] > 0
    BY <1>2 DEF PoolInv, PoolTyped, Acquire
  <2> QED
    BY <2>1, <2>2, <2>3, <2>4, FewLocks DEF Balanced
<1> QED
  BY <1>1, <1>2

(* The connection of tryAdvisoryLock becomes the connection of the lock.    *)
LEMMA BalanceLock ==
  ASSUME PoolInv, NEW t \in PoolThreads, taken[t], NEW l \in PoolLocks, holder[l] = PoolFree,
         taken' = [taken EXCEPT ![t] = FALSE], holder' = [holder EXCEPT ![l] = t],
         spare' = spare, NEW p \in PoolProcs
  PROVE  Balanced(p)'
<1> USE PoolAssumption
<1>1. CASE p # PoolHome[t]
  <2>1. \A m \in PoolLocks : holder'[m] \in Of(p) <=> holder[m] \in Of(p)
    BY <1>1 DEF PoolInv, PoolTyped, Of
  <2> QED
    BY <1>1, <2>1, BalanceKept DEF PoolInv, PoolTyped, Of
<1>2. CASE p = PoolHome[t]
  <2>1. Users(p)' = Users(p) \ {t} /\ t \in Users(p)
    BY <1>2 DEF PoolInv, PoolTyped, Users, Of
  <2>2. LocksOf(p)' = LocksOf(p) \cup {l} /\ l \notin LocksOf(p)
    BY <1>2 DEF PoolInv, PoolTyped, LocksOf, Of
  <2>3. /\ IsFiniteSet(Users(p)) /\ spare[p] \in Nat
        /\ Cardinality(Users(p)) + Cardinality(LocksOf(p)) + spare[p] = PoolSize
    BY DEF PoolInv, Balanced
  <2>4. /\ IsFiniteSet(Users(p) \ {t}) /\ Cardinality(Users(p)) \in Nat
        /\ Cardinality(Users(p) \ {t}) = Cardinality(Users(p)) - 1
    BY <2>1, <2>3, FS_RemoveElement, FS_CardinalityType
  <2>5. Cardinality(LocksOf(p) \cup {l}) = Cardinality(LocksOf(p)) + 1
    BY <2>2, FewLocks, FS_AddElement
  <2> QED
    BY <2>1, <2>2, <2>3, <2>4, <2>5, FewLocks DEF Balanced
<1> QED
  BY <1>1, <1>2

(* And goes back to the pool with it.                                       *)
LEMMA BalanceUnlock ==
  ASSUME PoolInv, NEW t \in PoolThreads, ReleaseLock(t), NEW p \in PoolProcs
  PROVE  Balanced(p)'
<1> DEFINE l == call[t]
<1>1. /\ l \in PoolLocks /\ holder[l] = t /\ ~taken[t] /\ taken' = taken
      /\ \A m \in PoolLocks : holder[m] = t <=> m = l
      /\ \A m \in PoolLocks : holder'[m] = IF m = l THEN PoolFree ELSE holder[m]
      /\ spare' = [spare EXCEPT ![PoolHome[t]] = @ + 1]
  BY DEF PoolInv, PoolTyped, Placed, ReleaseLock, PoolThen, PoolKeep
<1> HIDE DEF l
<1>2. CASE p # PoolHome[t]
  <2>1. \A m \in PoolLocks : holder'[m] \in Of(p) <=> holder[m] \in Of(p)
    BY <1>1, <1>2, PoolAssumption DEF Of
  <2> QED
    BY <1>1, <1>2, <2>1, BalanceKept DEF PoolInv, PoolTyped
<1>3. CASE p = PoolHome[t]
  <2>1. Users(p)' = Users(p)
    BY <1>1 DEF Users, Of
  <2>2. LocksOf(p)' = LocksOf(p) \ {l} /\ l \in LocksOf(p)
    BY <1>1, <1>3, PoolAssumption DEF LocksOf, Of
  <2>3. /\ IsFiniteSet(Users(p)) /\ spare[p] \in Nat
        /\ Cardinality(Users(p)) + Cardinality(LocksOf(p)) + spare[p] = PoolSize
        /\ Cardinality(Users(p)) \in Nat
    BY FS_CardinalityType DEF PoolInv, Balanced
  <2>4. Cardinality(LocksOf(p) \ {l}) = Cardinality(LocksOf(p)) - 1
    BY <2>2, FewLocks, FS_RemoveElement
  <2>5. spare'[p] = spare[p] + 1
    BY <1>1, <1>3 DEF PoolInv, PoolTyped
  <2> QED
    BY <2>1, <2>2, <2>3, <2>4, <2>5, FewLocks DEF Balanced
<1> QED
  BY <1>2, <1>3

(* Where t stands after a step that leaves the locks and all others alone.  *)
LEMMA PlacedThen ==
  ASSUME PoolInv, NEW t \in PoolThreads, NEW point, at[t] \notin {"idle", "lock", "unlock"},
         at' = [at EXCEPT ![t] = point], taken' = [taken EXCEPT ![t] = FALSE],
         UNCHANGED <<holder, call>>,
         point # "lock",
         point = "idle" => call[t] \notin PoolLocks,
         point = "unlock" => call[t] \in PoolLocks,
         point \in Guarded => call[t] = "index",
         point = "forget" => call[t] \notin PoolLocks
  PROVE  \A u \in PoolThreads : Placed(u)'
<1> TAKE u \in PoolThreads
<1>1. Placed(u)
  BY DEF PoolInv
<1>2. CASE u # t
  BY <1>1, <1>2 DEF Placed, PoolInv, PoolTyped
<1>3. CASE u = t
  <2>1. at'[t] = point /\ taken'[t] = FALSE
    BY DEF PoolInv, PoolTyped
  <2>2. \A l \in PoolLocks : holder'[l] = t <=> call'[t] = l /\ at'[t] \notin {"idle", "lock"}
    BY <1>1, <1>3, <2>1 DEF Placed
  <2> QED
    BY <1>3, <2>1, <2>2 DEF Placed
<1> QED
  BY <1>2, <1>3

LEMMA ThenPool ==
  ASSUME PoolInv, NEW t \in PoolThreads, NEW point, taken[t], PoolThen(t, point),
         at[t] # "lock",
         UNCHANGED <<holder, call>>,
         point # "lock",
         point = "idle" => call[t] \notin PoolLocks,
         point = "unlock" => call[t] \in PoolLocks,
         point \in Guarded => call[t] = "index",
         point = "forget" => call[t] \notin PoolLocks
  PROVE  PoolInv'
<1>1. PoolTyped'
  BY DEF PoolInv, PoolTyped, PoolThen, PoolKeep
<1>2. at[t] \notin {"idle", "lock", "unlock"}
  BY DEF PoolInv, Placed
<1>3. \A u \in PoolThreads : Placed(u)'
  BY <1>2, PlacedThen DEF PoolThen, PoolKeep
<1>4. \A p \in PoolProcs : Balanced(p)'
  BY BalanceThen DEF PoolThen, PoolKeep
<1> QED
  BY <1>1, <1>3, <1>4 DEF PoolInv

LEMMA FailedPool ==
  ASSUME PoolInv, NEW t \in PoolThreads, taken[t], at[t] # "lock", Failed(t),
         UNCHANGED <<holder, call>>
  PROVE  PoolInv'
<1>1. CASE call[t] \in PoolLocks
  <2>1. PoolThen(t, "unlock")
    BY <1>1 DEF Failed
  <2> QED
    BY <1>1, <2>1, ThenPool DEF Guarded
<1>2. CASE call[t] \notin PoolLocks
  <2>1. PoolThen(t, "idle")
    BY <1>2 DEF Failed
  <2> QED
    BY <1>2, <2>1, ThenPool DEF Guarded
<1> QED
  BY <1>1, <1>2

LEMMA TryPool ==
  ASSUME PoolInv, NEW t \in PoolThreads, TryAdvisoryLock(t)
  PROVE  PoolInv'
<1> DEFINE l == call[t]
<1>1. l \in PoolLocks /\ at[t] = "lock" /\ taken[t] /\ call' = call
  BY DEF TryAdvisoryLock, Run, PoolInv, Placed, request
<1>2. CASE holder[l] = PoolFree
  <2> DEFINE point == IF l = "index" THEN "refs" ELSE "read"
  <2>1. /\ holder' = [holder EXCEPT ![l] = t] /\ at' = [at EXCEPT ![t] = point]
        /\ taken' = [taken EXCEPT ![t] = FALSE] /\ spare' = spare
    BY <1>2 DEF TryAdvisoryLock, PoolKeep
  <2>2. PoolTyped'
    BY <1>1, <2>1 DEF PoolInv, PoolTyped
  <2>3. ASSUME NEW u \in PoolThreads, u # t PROVE Placed(u)'
    <3>1. Placed(u) /\ u # PoolFree
      BY PoolAssumption DEF PoolInv
    <3>2. at'[u] = at[u] /\ taken'[u] = taken[u] /\ call'[u] = call[u]
      BY <1>1, <2>1, <2>3 DEF PoolInv, PoolTyped
    <3>3. \A m \in PoolLocks : holder'[m] = u <=> holder[m] = u
      BY <1>1, <1>2, <2>1, <2>3, <3>1 DEF PoolInv, PoolTyped
    <3> QED
      BY <3>1, <3>2, <3>3 DEF Placed
  <2>4. Placed(t)'
    <3>1. Placed(t)
      BY DEF PoolInv
    <3>2. at'[t] = point /\ taken'[t] = FALSE /\ call'[t] = l
      BY <1>1, <2>1 DEF PoolInv, PoolTyped
    <3>3. \A m \in PoolLocks : holder'[m] = t <=> m = l
      BY <1>1, <2>1, <3>1 DEF PoolInv, PoolTyped, Placed
    <3> QED
      BY <3>2, <3>3 DEF Placed, Guarded
  <2>5. \A p \in PoolProcs : Balanced(p)'
    BY <1>1, <1>2, <2>1, BalanceLock
  <2> QED
    BY <2>2, <2>3, <2>4, <2>5 DEF PoolInv
<1>3. CASE holder[l] # PoolFree
  <2>1. /\ holder' = holder /\ at' = [at EXCEPT ![t] = "idle"]
        /\ taken' = [taken EXCEPT ![t] = FALSE]
        /\ spare' = [spare EXCEPT ![PoolHome[t]] = @ + 1]
    BY <1>3 DEF TryAdvisoryLock, PoolThen, PoolKeep
  <2>2. PoolTyped'
    BY <2>1, <1>1 DEF PoolInv, PoolTyped
  <2>3. \A u \in PoolThreads : Placed(u)'
    BY <1>1, <2>1 DEF PoolInv, PoolTyped, Placed, Guarded
  <2>4. \A p \in PoolProcs : Balanced(p)'
    BY <1>1, <2>1, BalanceThen
  <2> QED
    BY <2>2, <2>3, <2>4 DEF PoolInv
<1> QED
  BY <1>2, <1>3

LEMMA ReleasePool ==
  ASSUME PoolInv, NEW t \in PoolThreads, ReleaseLock(t)
  PROVE  PoolInv'
<1>1. PoolTyped'
  BY DEF PoolInv, PoolTyped, ReleaseLock, PoolThen, PoolKeep, Forget
<1>2. ASSUME NEW u \in PoolThreads PROVE Placed(u)'
  <2>1. Placed(u) /\ u # PoolFree
    BY PoolAssumption DEF PoolInv
  <2>2. \A m \in PoolLocks : holder'[m] = IF holder[m] = t THEN PoolFree ELSE holder[m]
    BY DEF ReleaseLock
  <2>3. CASE u = t
    BY <2>1, <2>2, <2>3
       DEF PoolInv, PoolTyped, Placed, Guarded, ReleaseLock, PoolThen, PoolKeep, Forget
  <2>4. CASE u # t
    <3>1. at'[u] = at[u] /\ taken'[u] = taken[u] /\ call'[u] = call[u]
      BY <2>4 DEF PoolInv, PoolTyped, ReleaseLock, PoolThen, PoolKeep, Forget
    <3> QED
      BY <2>1, <2>2, <2>4, <3>1 DEF Placed
  <2> QED
    BY <2>3, <2>4
<1> QED
  BY <1>1, <1>2, BalanceUnlock DEF PoolInv

LEMMA CrashPool ==
  ASSUME PoolInv, NEW p \in PoolProcs, PoolCrash(p)
  PROVE  PoolInv'
<1>1. PoolTyped'
  BY DEF PoolInv, PoolTyped, PoolCrash, Forget
<1>2. \A m \in PoolLocks : holder'[m] = IF holder[m] \in Of(p) THEN PoolFree ELSE holder[m]
  BY DEF PoolCrash
<1>3. ASSUME NEW u \in PoolThreads PROVE Placed(u)'
  <2>1. Placed(u) /\ u # PoolFree
    BY PoolAssumption DEF PoolInv
  <2>2. CASE u \in Of(p)
    <3>1. at'[u] = "idle" /\ ~taken'[u]
      BY <2>2 DEF PoolCrash
    <3> QED
      BY <1>2, <2>1, <2>2, <3>1 DEF Placed, Guarded
  <2>3. CASE u \notin Of(p)
    <3>1. at'[u] = at[u] /\ taken'[u] = taken[u] /\ call'[u] = call[u]
      BY <2>3 DEF PoolInv, PoolTyped, PoolCrash, Forget
    <3> QED
      BY <1>2, <2>1, <2>3, <3>1 DEF Placed
  <2> QED
    BY <2>2, <2>3
<1>4. ASSUME NEW q \in PoolProcs PROVE Balanced(q)'
  <2>1. CASE q = p
    <3>1. Users(q)' = {} /\ LocksOf(q)' = {} /\ spare'[q] = PoolSize
      BY <1>2, <2>1, PoolAssumption
         DEF Users, LocksOf, Of, PoolCrash, PoolInv, PoolTyped
    <3> QED
      BY <3>1, PoolAssumption, FS_EmptySet DEF Balanced
  <2>2. CASE q # p
    <3>1. \A t \in Of(q) : taken'[t] = taken[t]
      BY <2>2 DEF PoolCrash, Of, PoolInv, PoolTyped
    <3>2. \A l \in PoolLocks : holder'[l] \in Of(q) <=> holder[l] \in Of(q)
      BY <1>2, <2>2, PoolAssumption DEF Of
    <3>3. spare'[q] = spare[q]
      BY <2>2 DEF PoolCrash, PoolInv, PoolTyped
    <3> QED
      BY <3>1, <3>2, <3>3, BalanceKept
  <2> QED
    BY <2>1, <2>2
<1> QED
  BY <1>1, <1>3, <1>4 DEF PoolInv

LEMMA StatementPool ==
  ASSUME PoolInv, NEW t \in PoolThreads, PoolStep(t)
  PROVE  PoolInv'
<1> USE DEF Run
<1>0. Placed(t)
  BY DEF PoolInv
<1>1. CASE TryAdvisoryLock(t)
  BY <1>1, TryPool
<1>2. CASE ReleaseLock(t)
  BY <1>2, ReleasePool
<1>3. CASE DeleteRefs(t)
  BY <1>0, <1>3, ThenPool DEF DeleteRefs, request, Placed, Guarded
<1>4. CASE DeleteSymbols(t)
  BY <1>0, <1>4, ThenPool DEF DeleteSymbols, request, Placed, Guarded
<1>5. CASE DeleteMemories(t)
  BY <1>0, <1>5, ThenPool DEF DeleteMemories, request, Placed, Guarded
<1>6. ASSUME NEW n \in Names, PutSymbolMemory(t, n) PROVE PoolInv'
  BY <1>0, <1>6, ThenPool DEF PutSymbolMemory, request, Placed, Guarded
<1>7. ASSUME NEW n \in Names, PutCodeSymbol(t, n) PROVE PoolInv'
  <2>1. CASE n \in memories
    BY <1>0, <1>7, <2>1, ThenPool DEF PutCodeSymbol, Placed, Guarded
  <2>2. CASE n \notin memories
    BY <1>7, <2>2, FailedPool DEF PutCodeSymbol
  <2> QED
    BY <2>1, <2>2
<1>8. ASSUME NEW n \in Names, ForgetSymbol(t, n) PROVE PoolInv'
  BY <1>0, <1>8, ThenPool DEF ForgetSymbol, request, Placed, Guarded
<1>9. CASE PutCodeRefs(t)
  BY <1>0, <1>9, ThenPool DEF PutCodeRefs, request, Placed, Guarded, PoolLocks
<1>10. CASE OtherStatement(t)
  <2>1. CASE call[t] = "worker" /\ PoolThen(t, "read")
    BY <1>10, <2>1, ThenPool DEF OtherStatement, request, Guarded
  <2>2. CASE Failed(t)
    BY <1>10, <2>2, FailedPool DEF OtherStatement, request
  <2> QED
    BY <1>10, <2>1, <2>2 DEF OtherStatement
<1>11. CASE StatementFails(t)
  BY <1>11, FailedPool DEF StatementFails, request
<1> QED
  BY <1>1, <1>2, <1>3, <1>4, <1>5, <1>6, <1>7, <1>8, <1>9, <1>10, <1>11 DEF PoolStep

LEMMA BeginPool ==
  ASSUME PoolInv, NEW t \in PoolThreads, NEW c \in PoolLocks \cup {"read", "forget"},
         NEW S, NEW R, PoolBegin(t, c, S, R)
  PROVE  PoolInv'
<1> DEFINE point == IF c \in PoolLocks THEN "lock" ELSE c
<1>1. /\ at[t] = "idle" /\ at' = [at EXCEPT ![t] = point] /\ call' = [call EXCEPT ![t] = c]
      /\ UNCHANGED <<holder, taken, spare>>
  BY DEF PoolBegin
<1>2. PoolTyped'
  BY <1>1 DEF PoolInv, PoolTyped
<1>3. ASSUME NEW u \in PoolThreads PROVE Placed(u)'
  <2>1. Placed(u)
    BY DEF PoolInv
  <2>2. CASE u # t
    BY <1>1, <2>1, <2>2 DEF Placed, PoolInv, PoolTyped
  <2>3. CASE u = t
    <3>1. at'[t] = point /\ call'[t] = c /\ taken'[t] = FALSE
      BY <1>1, <2>1, <2>3 DEF Placed, PoolInv, PoolTyped
    <3>2. \A l \in PoolLocks : holder'[l] # t
      BY <1>1, <2>1, <2>3 DEF Placed
    <3> QED
      BY <2>3, <3>1, <3>2 DEF Placed, Guarded, PoolLocks
  <2> QED
    BY <2>2, <2>3
<1>4. \A p \in PoolProcs : Balanced(p)'
  BY <1>1, BalanceKept
<1> QED
  BY <1>2, <1>3, <1>4 DEF PoolInv

LEMMA NextPool == PoolInv /\ [PoolNext]_poolVars => PoolInv'
<1> SUFFICES ASSUME PoolInv, [PoolNext]_poolVars PROVE PoolInv'
  OBVIOUS
<1>1. ASSUME NEW t \in PoolThreads, NEW S \in SUBSET Names, NEW R, PoolBegin(t, "index", S, R)
      PROVE  PoolInv'
  BY <1>1, BeginPool DEF PoolLocks
<1>2. ASSUME NEW t \in PoolThreads, NEW c \in {"worker", "read", "forget"}, PoolBegin(t, c, {}, {})
      PROVE  PoolInv'
  BY <1>2, BeginPool DEF PoolLocks
<1>3. ASSUME NEW t \in PoolThreads, Acquire(t) PROVE PoolInv'
  <2>1. PoolTyped'
    BY <1>3 DEF PoolInv, PoolTyped, Acquire, request
  <2>2. \A u \in PoolThreads : Placed(u)'
    BY <1>3 DEF PoolInv, PoolTyped, Placed, Acquire, request
  <2> QED
    BY <1>3, <2>1, <2>2, BalanceAcquire DEF PoolInv
<1>4. ASSUME NEW p \in PoolProcs, PoolCrash(p) PROVE PoolInv'
  BY <1>4, CrashPool
<1>5. CASE UNCHANGED poolVars
  <2>1. UNCHANGED <<at, call, taken, holder, spare>>
    BY <1>5 DEF poolVars, request
  <2> QED
    BY <2>1, BalanceKept DEF PoolInv, PoolTyped, Placed
<1> QED
  BY <1>1, <1>2, <1>3, <1>4, <1>5, StatementPool DEF PoolNext

LEMMA PoolInvariance == PoolSpec => []PoolInv
BY InitPool, NextPool, PTL DEF PoolSpec

(* Never does everyone wait for everyone, for any processes and goroutines, *)
(* if a pool has more connections than there are locks: when none is left,  *)
(* the locks have not taken all of them, and a statement runs.              *)
THEOREM NoStandstillTheorem == PoolSpec => []NoStandstill
<1>1. PoolInv => NoStandstill
  <2> SUFFICES ASSUME PoolInv, PoolSize > Cardinality(PoolLocks),
                      NEW t \in PoolThreads, at[t] # "idle"
               PROVE  \E u \in Of(PoolHome[t]) : GoesOn(u)
    BY DEF NoStandstill
  <2> DEFINE p == PoolHome[t]
  <2>1. p \in PoolProcs /\ t \in Of(p) /\ PoolSize \in Nat
    BY PoolAssumption DEF Of
  <2>2. Balanced(p)
    BY <2>1 DEF PoolInv
  <2>3. CASE spare[p] > 0
    BY <2>1, <2>3 DEF GoesOn
  <2>4. CASE spare[p] = 0
    <3>1. Cardinality(Users(p)) # 0
      BY <2>1, <2>2, <2>4, FewLocks, FS_CardinalityType DEF Balanced
    <3>2. PICK u \in Users(p) : TRUE
      BY <2>2, <3>1, FS_EmptySet DEF Balanced
    <3>3. u \in PoolThreads /\ taken[u] /\ at[u] # "idle"
      BY <3>2 DEF Users, Of, PoolInv, Placed
    <3> QED
      BY <3>2, <3>3 DEF Users, GoesOn
  <2> QED
    BY <2>2, <2>3, <2>4 DEF Balanced
<1> QED
  BY <1>1, PoolInvariance, PTL

-----------------------------------------------------------------------------
(* The tables: a projection has its memory, and a reference is of symbols.  *)

TablesTyped ==
  /\ symbols \subseteq memories /\ memories \subseteq Names
  /\ refs \subseteq Names \X Callees
  /\ batch \in [PoolThreads -> SUBSET (Names \X Callees)]

LEMMA NextTables == TablesTyped /\ [PoolNext]_poolVars => TablesTyped'
<1> SUFFICES ASSUME TablesTyped, [PoolNext]_poolVars PROVE TablesTyped'
  OBVIOUS
<1>1. ASSUME UNCHANGED <<tables, batch>> PROVE TablesTyped'
  BY <1>1 DEF TablesTyped, tables
<1>2. ASSUME NEW t \in PoolThreads, NEW S \in SUBSET Names, NEW R \in {{}, S \X Callees},
             PoolBegin(t, "index", S, R)
      PROVE  TablesTyped'
  BY <1>2 DEF TablesTyped, PoolBegin, tables
<1>3. ASSUME NEW t \in PoolThreads, NEW c, PoolBegin(t, c, {}, {})
      PROVE  TablesTyped'
  BY <1>3 DEF TablesTyped, PoolBegin, tables
<1>4. ASSUME NEW t \in PoolThreads, PoolStep(t) PROVE TablesTyped'
  <2>1. CASE TryAdvisoryLock(t) \/ OtherStatement(t) \/ StatementFails(t)
    BY <1>1, <2>1 DEF TryAdvisoryLock, OtherStatement, StatementFails, request
  <2>2. CASE ReleaseLock(t)
    BY <2>2 DEF TablesTyped, ReleaseLock, Forget, tables
  <2>3. CASE DeleteRefs(t) \/ DeleteSymbols(t) \/ DeleteMemories(t)
    BY <2>3 DEF TablesTyped, DeleteRefs, DeleteSymbols, DeleteMemories, request
  <2>4. CASE \E n \in Names : PutSymbolMemory(t, n) \/ PutCodeSymbol(t, n) \/ ForgetSymbol(t, n)
    BY <2>4 DEF TablesTyped, PutSymbolMemory, PutCodeSymbol, ForgetSymbol, request
  <2>5. CASE PutCodeRefs(t)
    BY <2>5 DEF TablesTyped, PutCodeRefs, request
  <2> QED
    BY <1>4, <2>1, <2>2, <2>3, <2>4, <2>5 DEF PoolStep
<1>5. ASSUME NEW p \in PoolProcs, PoolCrash(p) PROVE TablesTyped'
  BY <1>5 DEF TablesTyped, PoolCrash, Forget, tables
<1>6. CASE (\E t \in PoolThreads : Acquire(t)) \/ UNCHANGED poolVars
  BY <1>1, <1>6 DEF Acquire, request, poolVars
<1> QED
  BY <1>2, <1>3, <1>4, <1>5, <1>6 DEF PoolNext

(* The accounts of a pool balance and the tables are of their types.        *)
THEOREM PoolTypeCorrect == PoolSpec => []PoolTypeOK
<1>1. PoolInit => TablesTyped
  BY DEF PoolInit, TablesTyped
<1>2. PoolInv /\ TablesTyped => PoolTypeOK
  <2> SUFFICES ASSUME PoolInv, TablesTyped, NEW p \in PoolProcs
               PROVE  InUse(p) + spare[p] = PoolSize
    BY DEF PoolTypeOK, TablesTyped, PoolInv, PoolTyped
  <2>1. InUse(p) = Cardinality(Users(p)) + Cardinality(LocksOf(p))
    BY DEF InUse, Users, LocksOf
  <2> QED
    BY <2>1 DEF PoolInv, Balanced
<1> QED
  BY <1>1, <1>2, NextTables, PoolInvariance, PTL DEF PoolSpec

-----------------------------------------------------------------------------
(* Upkeep (Maintenance): classes and links are of episodes that are stored, *)
(* although a rewrite stores a row that was forgotten meanwhile.            *)
THEOREM UpTypeCorrect ==
  ASSUME LinkingBudget \in Nat
  PROVE  UpInit /\ [][UpNext]_upVars => []UpTypeOK
<1> USE DEF UpTypeOK
<1>1. UpInit => UpTypeOK
  BY DEF UpInit
<1>2. UpTypeOK /\ [UpNext]_upVars => UpTypeOK'
  <2> SUFFICES ASSUME UpTypeOK, [UpNext]_upVars PROVE UpTypeOK'
    OBVIOUS
  <2>1. ASSUME NEW e \in Eps, RecordEpisode(e) \/ ForgetEpisode(e) PROVE UpTypeOK'
    BY <2>1 DEF RecordEpisode, ForgetEpisode, Deleted, upCycle
  <2>2. ASSUME NEW e \in Eps, BackfillOne(e) PROVE UpTypeOK'
    BY <2>2 DEF BackfillOne
  <2>3. CASE DecayDelete
    BY <2>3 DEF DecayDelete, Deleted
  <2>4. CASE Decay \/ BackfillEpisodes \/ UpDone \/ UpFail
    BY <2>4 DEF Decay, BackfillEpisodes, UpDone, UpFail
  <2>5. CASE LinkEpisodes
    <3>1. UNCHANGED <<live, operates, class>> /\ budget' \in {budget, LinkingBudget}
      BY <2>5, Zenon DEF LinkEpisodes
    <3> QED
      BY <3>1
  <2>6. ASSUME NEW q \in Pairs, AskPair(q) PROVE UpTypeOK'
    BY <2>6 DEF AskPair
  <2>7. CASE UNCHANGED upVars
    BY <2>7 DEF upVars, upCycle
  <2> QED
    BY <2>1, <2>2, <2>3, <2>4, <2>5, <2>6, <2>7 DEF UpNext, UpStep
<1> QED
  BY <1>1, <1>2, PTL
-----------------------------------------------------------------------------
(* MCProgress, the composition that is model-checked, adds nothing to its   *)
(* parts: whatever is proved of a part holds of it.                         *)

LEMMA ProgressParts ==
  MCSpec => /\ Spec
            /\ PoolSpec
            /\ UpInit /\ [][UpNext]_upVars
<1>1. MCInit => Init /\ PoolInit /\ UpInit
  BY DEF MCInit
<1>2. [MCNext]_progressVars => [Next]_vars
  BY DEF MCNext, progressVars
<1>3. [MCNext]_progressVars => [PoolNext]_poolVars
  BY DEF MCNext, progressVars
<1>4. [MCNext]_progressVars => [UpNext]_upVars
  BY DEF MCNext, progressVars
<1>5. MCSpec => MCInit /\ [][MCNext]_progressVars
  BY PTL DEF MCSpec
<1> QED
  BY <1>1, <1>2, <1>3, <1>4, <1>5, PTL DEF Spec, PoolSpec

(* In the composition every part is typed.                                  *)
THEOREM ProgressTypeCorrect == LinkingBudget \in Nat => (MCSpec => []TypesOK)
<1> SUFFICES ASSUME LinkingBudget \in Nat PROVE MCSpec => []TypesOK
  OBVIOUS
<1>1. UpInit /\ [][UpNext]_upVars => []UpTypeOK
  BY UpTypeCorrect
<1> QED
  BY <1>1, ProgressParts, TypeCorrect, PoolTypeCorrect, PTL DEF TypesOK
=============================================================================
