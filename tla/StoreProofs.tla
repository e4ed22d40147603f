--------------------------- MODULE StoreProofs ---------------------------
(***************************************************************************)
(* The SQLite store and its in-memory index, for any processes, goroutines, *)
(* rows and vectors.                                                       *)
(***************************************************************************)
EXTENDS SQLiteStore, VectorIndex, SequenceTheorems, TLAPS

-----------------------------------------------------------------------------
(***************************************************************************)
(* For any number of processes, goroutines, rows and vectors: SQLiteStore  *)
(* is type correct, and where the calls of a process on one id do not      *)
(* overlap its index agrees with what it wrote last.                       *)
(***************************************************************************)

\* A running warm is alone in its process: it holds the write half of indexMu.
OneWarm ==
  \A t, u \in Threads :
    t # u /\ Home[t] = Home[u] => ~(pc[t] \in {"select", "fill"} /\ pc[u] \in {"select", "fill"})

\* While a warm runs no call of its process changes a row: what it selected of
\* the rows the process wrote last is what they still hold.
SnapCurrent ==
  \A t \in Threads, i \in Ids :
    pc[t] = "fill" /\ wrote[i] = Home[t] => snap[Home[t]][i] = db[i]

\* The file clean-up only selects the file's rows.
FileClaim == \A t \in Threads : pc[t] = "files" => ids[t] \subseteq FileIds

Disjoint ==
  \A t, u \in Threads :
    t # u /\ Home[t] = Home[u] => Claim(t) \cap Claim(u) = {}

\* A pending mutation is about what the row holds, unless another process has
\* written the row since.
PendingAgrees ==
  \A t \in Threads, i \in Ids :
    i \in ids[t] /\ wrote[i] = Home[t] =>
      /\ pc[t] = "upsert" => db[i] = vec[t]
      /\ pc[t] = "delete" => db[i] = Absent

Pending(p, i) ==
  \E t \in Threads : Home[t] = p /\ pc[t] \in {"upsert", "delete"} /\ i \in ids[t]

Settled ==
  \A p \in Procs, i \in Ids :
    wrote[i] = p /\ ~Pending(p, i) =>
      /\ db[i] = Absent => index[p][i] = Absent
      /\ warm[p] /\ db[i] \in Vecs => index[p][i] = db[i]

IInv ==
  /\ TypeOK
  /\ OneWarm
  /\ SnapCurrent
  /\ FileClaim
  /\ ~Overlap => Disjoint /\ PendingAgrees /\ Settled

-----------------------------------------------------------------------------
USE StoreAssumption

\* The initial state is typed.
LEMMA InitTypeOK == Init => TypeOK
  BY DEF Init, TypeOK, NoEntry, Columns, Points

\* A thread that moves stands at a point.
LEMMA GotoType ==
  ASSUME NEW t \in Threads, NEW point \in Points, pc \in [Threads -> Points], Goto(t, point)
  PROVE  pc' \in [Threads -> Points]
  BY DEF Goto

\* Every step keeps the types.
LEMMA NextTypeOK == TypeOK /\ [Next]_vars => TypeOK'
<1> SUFFICES ASSUME TypeOK, [Next]_vars PROVE TypeOK'
  OBVIOUS
<1> USE DEF TypeOK, Columns, Points, NoEntry
<1>0. ASSUME NEW t \in Threads, NEW i \in Ids, NEW v \in Vecs \cup {BadVec, Null},
             Stored(t, i, v)
      PROVE  TypeOK'
  <2>1. db' \in [Ids -> Columns] /\ wrote' \in [Ids -> Procs \cup {Nobody}]
    BY <1>0 DEF Stored
  <2>2. CASE v = Null
    BY <2>1, <2>2, <1>0 DEF Stored
  <2>3. CASE v # Null
    <3>0. "upsert" \in Points
      OBVIOUS
    <3>1. pc' \in [Threads -> Points]
      BY <3>0, <2>3, <1>0, GotoType DEF Stored
    <3>4. ids' \in [Threads -> SUBSET Ids]
      <4>1. ids' = [ids EXCEPT ![t] = {i}]
        BY <2>3, <1>0 DEF Stored
      <4> QED
        BY <4>1
    <3>2. vec' \in [Threads -> Vecs \cup {BadVec, Null}]
      BY <2>3, <1>0 DEF Stored
    <3> QED
      BY <2>1, <3>1, <3>2, <3>4, <1>0 DEF Stored
  <2> QED
    BY <2>2, <2>3
<1>1. ASSUME NEW t \in Threads, NEW i \in Ids, NEW v \in Vecs \cup {BadVec, Null},
             PutMemory(t, i, v)
      PROVE  TypeOK'
  BY <1>0, <1>1 DEF PutMemory
<1>2. ASSUME NEW t \in Threads, NEW i \in Ids, NEW v \in Vecs \cup {BadVec},
             UpdateMemoryContent(t, i, v)
      PROVE  TypeOK'
  BY <1>0, <1>2 DEF UpdateMemoryContent
<1>3. ASSUME NEW t \in Threads, NEW i \in Ids, DeleteMemory(t, i) PROVE TypeOK'
  BY <1>3 DEF DeleteMemory, Goto
<1>4. ASSUME NEW t \in Threads, SelectFileMemories(t) PROVE TypeOK'
  BY <1>4 DEF SelectFileMemories, Goto
<1>5. ASSUME NEW t \in Threads, DeleteFileMemories(t) PROVE TypeOK'
  BY <1>5 DEF DeleteFileMemories, Goto
<1>6. ASSUME NEW t \in Threads, NEW S \in SUBSET FileIds, BulkDelete(t, S) PROVE TypeOK'
  BY <1>6 DEF BulkDelete
<1>7. ASSUME NEW t \in Threads, IndexUpsert(t) PROVE TypeOK'
  BY <1>7 DEF IndexUpsert, Return, Goto
<1>8. ASSUME NEW t \in Threads, IndexDelete(t) PROVE TypeOK'
  BY <1>8 DEF IndexDelete, Return, Goto
<1>9. ASSUME NEW t \in Threads, VectorSearch(t) \/ EnsureIndex(t) \/ WarmSelect(t) \/ Search(t)
      PROVE  TypeOK'
  <2>1. CASE VectorSearch(t)
    BY <2>1 DEF VectorSearch, Goto
  <2>2. CASE EnsureIndex(t)
    BY <2>2 DEF EnsureIndex, Goto
  <2>3. CASE WarmSelect(t)
    BY <2>3 DEF WarmSelect, Goto
  <2>4. CASE Search(t)
    BY <2>4 DEF Search, Return, Goto
  <2> QED
    BY <2>1, <2>2, <2>3, <2>4, <1>9
<1>10. ASSUME NEW t \in Threads, WarmFill(t) PROVE TypeOK'
  BY <1>10 DEF WarmFill, WarmDone, Loaded, Goto
<1>11. ASSUME NEW t \in Threads, WarmFail(t) PROVE TypeOK'
  <2>1. index' \in [Procs -> [Ids -> Vecs \cup {Absent}]]
    <3>1. CASE UNCHANGED index
      BY <3>1
    <3>2. ASSUME NEW S \in SUBSET Ids,
                 index' = [index EXCEPT ![Home[t]] = Loaded(Home[t], S)]
          PROVE  index' \in [Procs -> [Ids -> Vecs \cup {Absent}]]
      BY <3>2 DEF Loaded
    <3> QED
      BY <3>1, <3>2, <1>11 DEF WarmFail
  <2>2. pc' \in [Threads -> Points] /\ snap' \in [Procs -> [Ids -> Columns]]
    BY <1>11 DEF WarmFail, WarmDone, Goto
  <2> QED
    BY <2>1, <2>2, <1>11 DEF WarmFail, WarmDone
<1>12. ASSUME NEW p \in Procs, Reopen(p) PROVE TypeOK'
  BY <1>12 DEF Reopen
<1>13. CASE UNCHANGED vars
  BY <1>13 DEF vars
<1> QED
  BY <1>1, <1>2, <1>3, <1>4, <1>5, <1>6, <1>7, <1>8, <1>9, <1>10, <1>11, <1>12, <1>13
     DEF Next, Begin, Continue

\* Type correctness of the store, whatever the overlap of calls.
THEOREM TypeCorrect == Spec => []TypeOK
<1>1. Init => TypeOK
  BY InitTypeOK
<1>2. TypeOK /\ [Next]_vars => TypeOK'
  BY NextTypeOK
<1> QED
  BY <1>1, <1>2, PTL DEF Spec

\* A step that only moves threads which owe no mutation keeps what is settled.
LEMMA SettledKept ==
  ASSUME TypeOK, Settled, NEW t \in Threads, pc[t] \notin {"upsert", "delete"},
         UNCHANGED <<db, index, warm, wrote>>,
         \A u \in Threads \ {t} : pc'[u] = pc[u] /\ ids'[u] = ids[u]
  PROVE  Settled'
<1> SUFFICES ASSUME NEW p \in Procs, NEW j \in Ids, wrote'[j] = p, ~Pending(p, j)'
             PROVE  /\ db'[j] = Absent => index'[p][j] = Absent
                    /\ warm'[p] /\ db'[j] \in Vecs => index'[p][j] = db'[j]
  BY DEF Settled
<1>1. ~Pending(p, j)
  <2> SUFFICES ASSUME NEW u \in Threads, Home[u] = p, pc[u] \in {"upsert", "delete"}, j \in ids[u]
               PROVE  FALSE
    BY DEF Pending
  <2>1. u \in Threads \ {t}
    OBVIOUS
  <2>2. pc'[u] = pc[u] /\ ids'[u] = ids[u]
    BY <2>1
  <2> QED
    BY <2>2 DEF Pending
<1> QED
  BY <1>1 DEF Settled

\* PutMemory keeps the invariant.
LEMMA PutMemoryInv ==
  ASSUME IInv, TypeOK', NEW t \in Threads, NEW i \in Ids, NEW v \in Vecs \cup {BadVec, Null}, PutMemory(t, i, v)
  PROVE  IInv'
<1>1. OneWarm'
  BY DEF IInv, TypeOK, OneWarm, PutMemory, MayStart, Stored, Goto, ConnFree
<1>2. SnapCurrent'
  BY DEF IInv, TypeOK, OneWarm, SnapCurrent, PutMemory, MayStart, Stored, Goto, ConnFree
<1>3. FileClaim'
  BY DEF IInv, TypeOK, FileClaim, PutMemory, MayStart, Stored, Goto, ConnFree
<1>4. ~Overlap => Disjoint'
  BY DEF IInv, TypeOK, Disjoint, FileClaim, Claim, PutMemory, MayStart, Stored, Goto, ConnFree
<1>5. ~Overlap => PendingAgrees'
  BY DEF IInv, TypeOK, Disjoint, PendingAgrees, Claim, PutMemory, MayStart, Stored, Goto, ConnFree
<1>6. ~Overlap => Settled'
  <2> SUFFICES ASSUME ~Overlap, NEW p \in Procs, NEW j \in Ids,
                      wrote'[j] = p, ~Pending(p, j)'
               PROVE  /\ db'[j] = Absent => index'[p][j] = Absent
                      /\ warm'[p] /\ db'[j] \in Vecs => index'[p][j] = db'[j]
    BY DEF Settled
  <2>1. CASE j = i
    <3>1. CASE v = Null
      BY <2>1, <3>1 DEF IInv, TypeOK, PutMemory, Stored
    <3>2. CASE v # Null
      BY <2>1, <3>2 DEF IInv, TypeOK, PutMemory, Stored, Pending, Goto, Points
    <3> QED
      BY <3>1, <3>2
  <2>2. CASE j # i
    <3>1. wrote[j] = p /\ db'[j] = db[j]
      BY <2>2 DEF IInv, TypeOK, PutMemory, Stored
    <3>2. ~Pending(p, j)
      <4>1. CASE v = Null
        BY <4>1 DEF PutMemory, Stored, Pending
      <4>2. CASE v # Null
        <5> SUFFICES ASSUME NEW u \in Threads, Home[u] = p, pc[u] \in {"upsert", "delete"},
                            j \in ids[u]
                     PROVE  FALSE
          BY DEF Pending
        <5>1. pc[t] = "idle"
          BY DEF PutMemory, MayStart
        <5>2. u # t
          BY <5>1
        <5>3. pc'[u] = pc[u] /\ ids'[u] = ids[u]
          BY <4>2, <5>2 DEF IInv, TypeOK, PutMemory, Stored, Goto
        <5> QED
          BY <5>3 DEF Pending
      <4> QED
        BY <4>1, <4>2
    <3> QED
      BY <3>1, <3>2 DEF IInv, Settled, PutMemory, Stored
  <2> QED
    BY <2>1, <2>2
<1> QED
  BY <1>1, <1>2, <1>3, <1>4, <1>5, <1>6 DEF IInv

\* UpdateMemoryContent keeps the invariant.
LEMMA UpdateMemoryContentInv ==
  ASSUME IInv, TypeOK', NEW t \in Threads, NEW i \in Ids, NEW v \in Vecs \cup {BadVec}, UpdateMemoryContent(t, i, v)
  PROVE  IInv'
<1>1. PutMemory(t, i, v)
  BY DEF UpdateMemoryContent, PutMemory
<1> QED
  BY <1>1, PutMemoryInv

\* DeleteMemory keeps the invariant.
LEMMA DeleteMemoryInv ==
  ASSUME IInv, TypeOK', NEW t \in Threads, NEW i \in Ids, DeleteMemory(t, i)
  PROVE  IInv'
<1>1. OneWarm'
  BY DEF IInv, TypeOK, OneWarm, DeleteMemory, MayStart, Goto, ConnFree
<1>2. SnapCurrent'
  BY DEF IInv, TypeOK, OneWarm, SnapCurrent, DeleteMemory, MayStart, Goto, ConnFree
<1>3. FileClaim'
  BY DEF IInv, TypeOK, FileClaim, DeleteMemory, MayStart, Goto, ConnFree
<1>4. ~Overlap => Disjoint'
  BY DEF IInv, TypeOK, Disjoint, FileClaim, Claim, DeleteMemory, MayStart, Goto, ConnFree
<1>5. ~Overlap => PendingAgrees'
  BY DEF IInv, TypeOK, Disjoint, PendingAgrees, Claim, DeleteMemory, MayStart, Goto, ConnFree
<1>6. ~Overlap => Settled'
  BY DEF IInv, TypeOK, Disjoint, PendingAgrees, Settled, Pending, Claim, DeleteMemory, MayStart, Goto, ConnFree
<1> QED
  BY <1>1, <1>2, <1>3, <1>4, <1>5, <1>6 DEF IInv

\* SelectFileMemories keeps the invariant.
LEMMA SelectFileMemoriesInv ==
  ASSUME IInv, TypeOK', NEW t \in Threads, SelectFileMemories(t)
  PROVE  IInv'
<1>1. OneWarm'
  BY DEF IInv, TypeOK, OneWarm, SelectFileMemories, MayStart, Goto
<1>2. SnapCurrent'
  BY DEF IInv, TypeOK, OneWarm, SnapCurrent, SelectFileMemories, MayStart, Goto
<1>3. FileClaim'
  BY DEF IInv, TypeOK, FileClaim, SelectFileMemories, MayStart, Goto
<1>4. ~Overlap => Disjoint'
  <2>1. Claim(t)' \subseteq FileIds
    BY DEF TypeOK, Claim, SelectFileMemories, Goto
  <2>2. \A u \in Threads \ {t} : Claim(u)' = Claim(u)
    BY DEF TypeOK, Claim, SelectFileMemories, Goto
  <2>3. ~Overlap => \A u \in Threads : Home[u] = Home[t] => Claim(u) \cap FileIds = {}
    BY DEF SelectFileMemories, MayStart
  <2> QED BY <2>1, <2>2, <2>3 DEF IInv, Disjoint
<1>5. ~Overlap => PendingAgrees'
  BY DEF IInv, TypeOK, Disjoint, PendingAgrees, Claim, SelectFileMemories, MayStart, Goto
<1>6. ~Overlap => Settled'
  BY DEF IInv, TypeOK, Disjoint, PendingAgrees, Settled, Pending, Claim, SelectFileMemories, MayStart, Goto
<1> QED
  BY <1>1, <1>2, <1>3, <1>4, <1>5, <1>6 DEF IInv

\* DeleteFileMemories keeps the invariant.
LEMMA DeleteFileMemoriesInv ==
  ASSUME IInv, TypeOK', NEW t \in Threads, DeleteFileMemories(t)
  PROVE  IInv'
<1>1. OneWarm'
  BY DEF IInv, TypeOK, OneWarm, DeleteFileMemories, ConnFree, Goto
<1>2. SnapCurrent'
  BY DEF IInv, TypeOK, OneWarm, SnapCurrent, DeleteFileMemories, ConnFree, Goto
<1>3. FileClaim'
  BY DEF IInv, TypeOK, FileClaim, DeleteFileMemories, ConnFree, Goto
<1>4. ~Overlap => Disjoint'
  BY DEF IInv, TypeOK, Disjoint, FileClaim, Claim, DeleteFileMemories, ConnFree, Goto
<1>5. ~Overlap => PendingAgrees'
  <2> SUFFICES ASSUME ~Overlap, NEW u \in Threads, NEW j \in Ids,
                      j \in ids'[u], wrote'[j] = Home[u]
               PROVE  /\ pc'[u] = "upsert" => db'[j] = vec'[u]
                      /\ pc'[u] = "delete" => db'[j] = Absent
    BY DEF PendingAgrees
  <2>1. CASE u = t
    BY <2>1 DEF IInv, TypeOK, FileClaim, DeleteFileMemories, Goto
  <2>2. CASE u # t /\ Home[u] = Home[t]
    <3>1. CASE pc[u] \in {"upsert", "delete"}
      <4>1. j \notin FileIds
        BY <2>2, <3>1 DEF IInv, TypeOK, Disjoint, Claim, DeleteFileMemories, Goto
      <4> QED
        BY <4>1, <2>2 DEF IInv, TypeOK, FileClaim, PendingAgrees, DeleteFileMemories, Goto
    <3>2. CASE pc[u] \notin {"upsert", "delete"}
      BY <2>2, <3>2 DEF IInv, TypeOK, DeleteFileMemories, Goto
    <3> QED
      BY <3>1, <3>2
  <2>3. CASE Home[u] # Home[t]
    BY <2>3 DEF IInv, TypeOK, PendingAgrees, DeleteFileMemories, Goto
  <2> QED
    BY <2>1, <2>2, <2>3
<1>6. ~Overlap => Settled'
  BY DEF IInv, TypeOK, Disjoint, PendingAgrees, Settled, Pending, Claim, DeleteFileMemories, ConnFree, Goto
<1> QED
  BY <1>1, <1>2, <1>3, <1>4, <1>5, <1>6 DEF IInv

\* BulkDelete keeps the invariant.
LEMMA BulkDeleteInv ==
  ASSUME IInv, TypeOK', NEW t \in Threads, NEW S \in SUBSET FileIds, BulkDelete(t, S)
  PROVE  IInv'
<1>1. OneWarm'
  BY DEF IInv, TypeOK, OneWarm, BulkDelete, MayStart, ConnFree
<1>2. SnapCurrent'
  BY DEF IInv, TypeOK, OneWarm, SnapCurrent, BulkDelete, MayStart, ConnFree
<1>3. FileClaim'
  BY DEF IInv, TypeOK, FileClaim, BulkDelete, MayStart, ConnFree
<1>4. ~Overlap => Disjoint'
  BY DEF IInv, TypeOK, Disjoint, FileClaim, Claim, BulkDelete, MayStart, ConnFree
<1>5. ~Overlap => PendingAgrees'
  BY DEF IInv, TypeOK, Disjoint, PendingAgrees, Claim, BulkDelete, MayStart, ConnFree
<1>6. ~Overlap => Settled'
  BY DEF IInv, TypeOK, Disjoint, PendingAgrees, Settled, Pending, Claim, BulkDelete, MayStart, ConnFree
<1> QED
  BY <1>1, <1>2, <1>3, <1>4, <1>5, <1>6 DEF IInv

\* IndexUpsert keeps the invariant.
LEMMA IndexUpsertInv ==
  ASSUME IInv, TypeOK', NEW t \in Threads, IndexUpsert(t)
  PROVE  IInv'
<1>1. OneWarm'
  BY DEF IInv, TypeOK, OneWarm, IndexUpsert, IndexMuFree, Return, Goto
<1>2. SnapCurrent'
  BY DEF IInv, TypeOK, OneWarm, SnapCurrent, IndexUpsert, IndexMuFree, Return, Goto
<1>3. FileClaim'
  BY DEF IInv, TypeOK, FileClaim, IndexUpsert, IndexMuFree, Return, Goto
<1>4. ~Overlap => Disjoint'
  BY DEF IInv, TypeOK, Disjoint, FileClaim, Claim, IndexUpsert, IndexMuFree, Return, Goto
<1>5. ~Overlap => PendingAgrees'
  BY DEF IInv, TypeOK, Disjoint, PendingAgrees, Claim, IndexUpsert, IndexMuFree, Return, Goto
<1>6. ~Overlap => Settled'
  BY DEF IInv, TypeOK, Disjoint, PendingAgrees, Settled, Pending, Claim, IndexUpsert, IndexMuFree, Return, Goto
<1> QED
  BY <1>1, <1>2, <1>3, <1>4, <1>5, <1>6 DEF IInv

\* IndexDelete keeps the invariant.
LEMMA IndexDeleteInv ==
  ASSUME IInv, TypeOK', NEW t \in Threads, IndexDelete(t)
  PROVE  IInv'
<1>1. OneWarm'
  BY DEF IInv, TypeOK, OneWarm, IndexDelete, IndexMuFree, Return, Goto
<1>2. SnapCurrent'
  BY DEF IInv, TypeOK, OneWarm, SnapCurrent, IndexDelete, IndexMuFree, Return, Goto
<1>3. FileClaim'
  BY DEF IInv, TypeOK, FileClaim, IndexDelete, IndexMuFree, Return, Goto
<1>4. ~Overlap => Disjoint'
  BY DEF IInv, TypeOK, Disjoint, FileClaim, Claim, IndexDelete, IndexMuFree, Return, Goto
<1>5. ~Overlap => PendingAgrees'
  BY DEF IInv, TypeOK, Disjoint, PendingAgrees, Claim, IndexDelete, IndexMuFree, Return, Goto
<1>6. ~Overlap => Settled'
  BY DEF IInv, TypeOK, Disjoint, PendingAgrees, Settled, Pending, Claim, IndexDelete, IndexMuFree, Return, Goto
<1> QED
  BY <1>1, <1>2, <1>3, <1>4, <1>5, <1>6 DEF IInv

\* VectorSearch keeps the invariant.
LEMMA VectorSearchInv ==
  ASSUME IInv, TypeOK', NEW t \in Threads, VectorSearch(t)
  PROVE  IInv'
<1>1. OneWarm'
  BY DEF IInv, TypeOK, OneWarm, VectorSearch, Goto
<1>2. SnapCurrent'
  BY DEF IInv, TypeOK, OneWarm, SnapCurrent, VectorSearch, Goto
<1>3. FileClaim'
  BY DEF IInv, TypeOK, FileClaim, VectorSearch, Goto
<1>4. ~Overlap => Disjoint'
  BY DEF IInv, TypeOK, Disjoint, FileClaim, Claim, VectorSearch, Goto
<1>5. ~Overlap => PendingAgrees'
  BY DEF IInv, TypeOK, Disjoint, PendingAgrees, Claim, VectorSearch, Goto
<1>6. ~Overlap => Settled'
  BY DEF IInv, TypeOK, Disjoint, PendingAgrees, Settled, Pending, Claim, VectorSearch, Goto
<1> QED
  BY <1>1, <1>2, <1>3, <1>4, <1>5, <1>6 DEF IInv

\* EnsureIndex keeps the invariant.
LEMMA EnsureIndexInv ==
  ASSUME IInv, TypeOK', NEW t \in Threads, EnsureIndex(t)
  PROVE  IInv'
<1>1. OneWarm'
  BY DEF IInv, TypeOK, OneWarm, EnsureIndex, IndexMuFree, Goto
<1>2. SnapCurrent'
  BY DEF IInv, TypeOK, OneWarm, SnapCurrent, EnsureIndex, IndexMuFree, Goto
<1>3. FileClaim'
  BY DEF IInv, TypeOK, FileClaim, EnsureIndex, IndexMuFree, Goto
<1>4. ~Overlap => Disjoint'
  BY DEF IInv, TypeOK, Disjoint, FileClaim, Claim, EnsureIndex, IndexMuFree, Goto
<1>5. ~Overlap => PendingAgrees'
  BY DEF IInv, TypeOK, Disjoint, PendingAgrees, Claim, EnsureIndex, IndexMuFree, Goto
<1>6. ~Overlap => Settled'
  <2>1. pc[t] \notin {"upsert", "delete"} /\ UNCHANGED <<db, index, warm, wrote>>
    BY DEF EnsureIndex
  <2>2. \A u \in Threads \ {t} : pc'[u] = pc[u] /\ ids'[u] = ids[u]
    BY DEF IInv, TypeOK, EnsureIndex, Goto
  <2> QED
    BY <2>1, <2>2, SettledKept DEF IInv
<1> QED
  BY <1>1, <1>2, <1>3, <1>4, <1>5, <1>6 DEF IInv

\* WarmSelect keeps the invariant.
LEMMA WarmSelectInv ==
  ASSUME IInv, TypeOK', NEW t \in Threads, WarmSelect(t)
  PROVE  IInv'
<1>1. OneWarm'
  BY DEF IInv, TypeOK, OneWarm, WarmSelect, ConnFree, Goto
<1>2. SnapCurrent'
  BY DEF IInv, TypeOK, OneWarm, SnapCurrent, WarmSelect, ConnFree, Goto
<1>3. FileClaim'
  BY DEF IInv, TypeOK, FileClaim, WarmSelect, ConnFree, Goto
<1>4. ~Overlap => Disjoint'
  BY DEF IInv, TypeOK, Disjoint, FileClaim, Claim, WarmSelect, ConnFree, Goto
<1>5. ~Overlap => PendingAgrees'
  BY DEF IInv, TypeOK, Disjoint, PendingAgrees, Claim, WarmSelect, ConnFree, Goto
<1>6. ~Overlap => Settled'
  <2>1. pc[t] \notin {"upsert", "delete"} /\ UNCHANGED <<db, index, warm, wrote>>
    BY DEF WarmSelect
  <2>2. \A u \in Threads \ {t} : pc'[u] = pc[u] /\ ids'[u] = ids[u]
    BY DEF IInv, TypeOK, WarmSelect, Goto
  <2> QED
    BY <2>1, <2>2, SettledKept DEF IInv
<1> QED
  BY <1>1, <1>2, <1>3, <1>4, <1>5, <1>6 DEF IInv

\* WarmFill keeps the invariant.
LEMMA WarmFillInv ==
  ASSUME IInv, TypeOK', NEW t \in Threads, WarmFill(t)
  PROVE  IInv'
<1>1. OneWarm'
  BY DEF IInv, TypeOK, OneWarm, WarmFill, WarmDone, Loaded, Goto
<1>2. SnapCurrent'
  BY DEF IInv, TypeOK, OneWarm, SnapCurrent, WarmFill, WarmDone, Loaded, Goto
<1>3. FileClaim'
  BY DEF IInv, TypeOK, FileClaim, WarmFill, WarmDone, Loaded, Goto
<1>4. ~Overlap => Disjoint'
  BY DEF IInv, TypeOK, Disjoint, FileClaim, Claim, WarmFill, WarmDone, Loaded, Goto
<1>5. ~Overlap => PendingAgrees'
  BY DEF IInv, TypeOK, Disjoint, PendingAgrees, Claim, WarmFill, WarmDone, Loaded, Goto
<1>6. ~Overlap => Settled'
  <2> SUFFICES ASSUME ~Overlap, NEW p \in Procs, NEW j \in Ids,
                      wrote'[j] = p, ~Pending(p, j)'
               PROVE  /\ db'[j] = Absent => index'[p][j] = Absent
                      /\ warm'[p] /\ db'[j] \in Vecs => index'[p][j] = db'[j]
    BY DEF Settled
  <2>1. wrote[j] = p /\ db' = db
    BY DEF WarmFill, WarmDone
  <2>2. ~Pending(p, j)
    BY DEF IInv, TypeOK, Pending, WarmFill, WarmDone, Goto, Points
  <2>3. /\ db[j] = Absent => index[p][j] = Absent
        /\ warm[p] /\ db[j] \in Vecs => index[p][j] = db[j]
    BY <2>1, <2>2 DEF IInv, Settled
  <2>4. CASE p = Home[t]
    <3>1. snap[p][j] = db[j]
      BY <2>1, <2>4 DEF IInv, SnapCurrent, WarmFill
    <3>2. index'[p][j] = IF db[j] \in Vecs THEN db[j] ELSE index[p][j]
      BY <2>4, <3>1 DEF IInv, TypeOK, WarmFill, Loaded
    <3> QED
      BY <2>1, <2>3, <3>2
  <2>5. CASE p # Home[t]
    BY <2>1, <2>3, <2>5 DEF IInv, TypeOK, WarmFill
  <2> QED
    BY <2>4, <2>5
<1> QED
  BY <1>1, <1>2, <1>3, <1>4, <1>5, <1>6 DEF IInv

\* WarmFail keeps the invariant.
LEMMA WarmFailInv ==
  ASSUME IInv, TypeOK', NEW t \in Threads, WarmFail(t)
  PROVE  IInv'
<1>1. OneWarm'
  BY DEF IInv, TypeOK, OneWarm, WarmFail, WarmDone, Loaded, Goto
<1>2. SnapCurrent'
  BY DEF IInv, TypeOK, OneWarm, SnapCurrent, WarmFail, WarmDone, Loaded, Goto
<1>3. FileClaim'
  BY DEF IInv, TypeOK, FileClaim, WarmFail, WarmDone, Loaded, Goto
<1>4. ~Overlap => Disjoint'
  BY DEF IInv, TypeOK, Disjoint, FileClaim, Claim, WarmFail, WarmDone, Loaded, Goto
<1>5. ~Overlap => PendingAgrees'
  BY DEF IInv, TypeOK, Disjoint, PendingAgrees, Claim, WarmFail, WarmDone, Loaded, Goto
<1>6. ~Overlap => Settled'
  <2> SUFFICES ASSUME ~Overlap, NEW p \in Procs, NEW j \in Ids,
                      wrote'[j] = p, ~Pending(p, j)'
               PROVE  /\ db'[j] = Absent => index'[p][j] = Absent
                      /\ warm'[p] /\ db'[j] \in Vecs => index'[p][j] = db'[j]
    BY DEF Settled
  <2>1. wrote[j] = p /\ db' = db /\ warm' = warm
    BY DEF WarmFail, WarmDone
  <2>2. ~Pending(p, j)
    BY DEF IInv, TypeOK, Pending, WarmFail, WarmDone, Goto, Points
  <2>3. /\ db[j] = Absent => index[p][j] = Absent
        /\ warm[p] /\ db[j] \in Vecs => index[p][j] = db[j]
    BY <2>1, <2>2 DEF IInv, Settled
  <2>4. CASE UNCHANGED index
    BY <2>1, <2>3, <2>4
  <2>5. ASSUME NEW S \in SUBSET Ids, pc[t] = "fill",
               index' = [index EXCEPT ![Home[t]] = Loaded(Home[t], S)]
        PROVE  /\ db'[j] = Absent => index'[p][j] = Absent
               /\ warm'[p] /\ db'[j] \in Vecs => index'[p][j] = db'[j]
    <3>1. CASE p = Home[t]
      <4>1. snap[p][j] = db[j]
        BY <2>1, <2>5, <3>1 DEF IInv, SnapCurrent
      <4>2. index'[p][j] = IF j \in S /\ db[j] \in Vecs THEN db[j] ELSE index[p][j]
        BY <2>5, <3>1, <4>1 DEF IInv, TypeOK, Loaded
      <4> QED
        BY <2>1, <2>3, <4>2
    <3>2. CASE p # Home[t]
      BY <2>1, <2>3, <2>5, <3>2 DEF IInv, TypeOK
    <3> QED
      BY <3>1, <3>2
  <2> QED
    BY <2>4, <2>5 DEF WarmFail
<1> QED
  BY <1>1, <1>2, <1>3, <1>4, <1>5, <1>6 DEF IInv

\* Search keeps the invariant.
LEMMA SearchInv ==
  ASSUME IInv, TypeOK', NEW t \in Threads, Search(t)
  PROVE  IInv'
<1>1. OneWarm'
  BY DEF IInv, TypeOK, OneWarm, Search, Return, Goto
<1>2. SnapCurrent'
  BY DEF IInv, TypeOK, OneWarm, SnapCurrent, Search, Return, Goto
<1>3. FileClaim'
  BY DEF IInv, TypeOK, FileClaim, Search, Return, Goto
<1>4. ~Overlap => Disjoint'
  BY DEF IInv, TypeOK, Disjoint, FileClaim, Claim, Search, Return, Goto
<1>5. ~Overlap => PendingAgrees'
  BY DEF IInv, TypeOK, Disjoint, PendingAgrees, Claim, Search, Return, Goto
<1>6. ~Overlap => Settled'
  <2>1. pc[t] \notin {"upsert", "delete"} /\ UNCHANGED <<db, index, warm, wrote>>
    BY DEF Search
  <2>2. \A u \in Threads \ {t} : pc'[u] = pc[u] /\ ids'[u] = ids[u]
    BY DEF IInv, TypeOK, Search, Return, Goto
  <2> QED
    BY <2>1, <2>2, SettledKept DEF IInv
<1> QED
  BY <1>1, <1>2, <1>3, <1>4, <1>5, <1>6 DEF IInv

\* A restart of a process keeps the invariant.
LEMMA ReopenInv ==
  ASSUME IInv, TypeOK', NEW p \in Procs, Reopen(p)
  PROVE  IInv'
<1>1. OneWarm'
  BY DEF IInv, TypeOK, OneWarm, Reopen
<1>2. SnapCurrent'
  BY DEF IInv, TypeOK, SnapCurrent, Reopen
<1>3. FileClaim'
  BY DEF IInv, TypeOK, FileClaim, Reopen
<1>4. ~Overlap => Disjoint'
  BY DEF IInv, TypeOK, Disjoint, Claim, Reopen
<1>5. ~Overlap => PendingAgrees'
  BY DEF IInv, TypeOK, PendingAgrees, Reopen
<1>6. ~Overlap => Settled'
  BY DEF IInv, TypeOK, Settled, Pending, Reopen, NoEntry
<1> QED
  BY <1>1, <1>2, <1>3, <1>4, <1>5, <1>6 DEF IInv

\* The initial state satisfies the invariant.
LEMMA InitIInv == Init => IInv
<1> SUFFICES ASSUME Init PROVE IInv
  OBVIOUS
<1>1. TypeOK
  BY InitTypeOK
<1>2. OneWarm /\ SnapCurrent /\ FileClaim
  BY DEF Init, OneWarm, SnapCurrent, FileClaim
<1>3. Disjoint /\ PendingAgrees /\ Settled
  BY DEF Init, Disjoint, PendingAgrees, Settled, Claim, NoEntry
<1> QED
  BY <1>1, <1>2, <1>3 DEF IInv

\* Every step keeps the invariant.
LEMMA NextIInv == IInv /\ [Next]_vars => IInv'
<1> SUFFICES ASSUME IInv, [Next]_vars PROVE IInv'
  OBVIOUS
<1>1. TypeOK'
  BY NextTypeOK DEF IInv
<1>2. ASSUME NEW t \in Threads, Begin(t) PROVE IInv'
  BY <1>1, <1>2, PutMemoryInv, UpdateMemoryContentInv, DeleteMemoryInv,
     SelectFileMemoriesInv, BulkDeleteInv, VectorSearchInv DEF Begin
<1>3. ASSUME NEW t \in Threads, Continue(t) PROVE IInv'
  BY <1>1, <1>3, DeleteFileMemoriesInv, IndexUpsertInv, IndexDeleteInv, EnsureIndexInv,
     WarmSelectInv, WarmFillInv, WarmFailInv, SearchInv DEF Continue
<1>4. ASSUME NEW p \in Procs, Reopen(p) PROVE IInv'
  BY <1>1, <1>4, ReopenInv
<1>5. CASE UNCHANGED vars
  BY <1>1, <1>5 DEF vars, IInv, OneWarm, SnapCurrent, FileClaim, Disjoint, PendingAgrees,
                    Settled, Pending, Claim
<1> QED
  BY <1>2, <1>3, <1>4, <1>5 DEF Next

\* The invariant gives both properties: a pending mutation claims its id.
LEMMA IInvSuffices == IInv => (~Overlap => OwnWritesWin /\ DeletedStaysGone)
<1> SUFFICES ASSUME IInv, ~Overlap, NEW p \in Procs, NEW i \in Ids,
                    wrote[i] = p, Quiet(p, i)
             PROVE  /\ db[i] = Absent => index[p][i] = Absent
                    /\ warm[p] /\ db[i] \in Vecs => index[p][i] = db[i]
  BY DEF OwnWritesWin, DeletedStaysGone
<1>1. ~Pending(p, i)
  BY DEF Quiet, Pending, Claim
<1> QED
  BY <1>1 DEF IInv, Settled

\* A process finds what it wrote, with its last embedding, if its calls on
\* one id do not overlap.
THEOREM OwnWritesWinTheorem == Spec => [](~Overlap => OwnWritesWin)
<1>1. IInv => (~Overlap => OwnWritesWin)
  BY IInvSuffices
<1> QED
  BY <1>1, InitIInv, NextIInv, PTL DEF Spec

\* What a process deleted stays out of its index, under the same condition.
THEOREM DeletedStaysGoneTheorem == Spec => [](~Overlap => DeletedStaysGone)
<1>1. IInv => (~Overlap => DeletedStaysGone)
  BY IInvSuffices
<1> QED
  BY <1>1, InitIInv, NextIInv, PTL DEF Spec
\* The index of a process follows what the process wrote last.
THEOREM IndexFollowsOwnWritesTheorem == Spec => [](~Overlap => IndexFollowsOwnWrites)
<1>1. IInv => (~Overlap => IndexFollowsOwnWrites)
  BY IInvSuffices DEF IndexFollowsOwnWrites
<1> QED
  BY <1>1, InitIInv, NextIInv, PTL DEF Spec
-----------------------------------------------------------------------------
(* SQLiteStore implements VectorStore.                                     *)

\* A warm runs on a cold index.
Cold == \A t \in Threads : pc[t] \in {"select", "fill"} => ~warm[Home[t]]

\* Cold is kept: only the one warm of a process makes its index warm.
LEMMA NextCold == IInv /\ Cold /\ [Next]_vars => Cold'
<1> SUFFICES ASSUME IInv, Cold, [Next]_vars PROVE Cold'
  OBVIOUS
<1> USE DEF IInv, TypeOK, Cold, Goto, Return
<1>1. ASSUME NEW t \in Threads, Begin(t) PROVE Cold'
  <2>1. ASSUME NEW i \in Ids, NEW v, Stored(t, i, v) PROVE Cold'
    BY <2>1 DEF Stored
  <2>2. CASE VectorSearch(t) \/ SelectFileMemories(t)
    BY <2>2 DEF VectorSearch, SelectFileMemories
  <2>3. ASSUME NEW i \in Ids, DeleteMemory(t, i) PROVE Cold'
    BY <2>3 DEF DeleteMemory
  <2>4. ASSUME NEW S \in SUBSET FileIds, BulkDelete(t, S) PROVE Cold'
    BY <2>4 DEF BulkDelete
  <2> QED
    BY <1>1, <2>1, <2>2, <2>3, <2>4 DEF Begin, PutMemory, UpdateMemoryContent
<1>2. ASSUME NEW t \in Threads, Continue(t) PROVE Cold'
  <2>1. CASE DeleteFileMemories(t) \/ IndexUpsert(t) \/ IndexDelete(t) \/ Search(t)
    BY <2>1 DEF DeleteFileMemories, IndexUpsert, IndexDelete, Search
  <2>2. CASE EnsureIndex(t) \/ WarmSelect(t)
    BY <2>2 DEF EnsureIndex, WarmSelect
  <2>3. CASE WarmFill(t)
    BY <2>3 DEF WarmFill, WarmDone, OneWarm
  <2>4. CASE WarmFail(t)
    BY <2>4 DEF WarmFail, WarmDone
  <2> QED
    BY <1>2, <2>1, <2>2, <2>3, <2>4 DEF Continue
<1>3. ASSUME NEW p \in Procs, Reopen(p) PROVE Cold'
  BY <1>3 DEF Reopen
<1>4. CASE UNCHANGED vars
  BY <1>4 DEF vars
<1> QED
  BY <1>1, <1>2, <1>3, <1>4 DEF Next

\* The invariant is the abstract promise: a cold index finds what the rows hold.
LEMMA PromiseKept == IInv /\ ~Overlap => VS!Promise
  BY IInvSuffices DEF VS!Promise, VS!Done, View, Unfinished, OwnWritesWin, DeletedStaysGone

\* The same of the next state.
LEMMA PromiseKeptNext ==
  ASSUME ~Overlap
  PROVE  IInv' => VS!Promise'
<1>1. IInv => VS!Promise
  BY PromiseKept
<1> QED
  BY <1>1, PTL

\* Where only t's claim moves, by ids of S at most, its process alone has
\* other calls unfinished, and of S at most.
LEMMA OneClaimMoves ==
  ASSUME NEW t \in Threads, NEW S \in SUBSET Ids,
         \A u \in Threads \ {t} : Claim(u)' = Claim(u),
         Claim(t) \ S \subseteq Claim(t)', Claim(t)' \subseteq Claim(t) \cup S
  PROVE  /\ \A q \in Procs \ {Home[t]} : Unfinished(q)' = Unfinished(q)
         /\ Unfinished(Home[t]) \ S \subseteq Unfinished(Home[t])'
         /\ Unfinished(Home[t])' \subseteq Unfinished(Home[t]) \cup S
<1>1. \A u \in Threads : Claim(u) \ S \subseteq Claim(u)' /\ Claim(u)' \subseteq Claim(u) \cup S
  OBVIOUS
<1>2. \A u \in Threads : Home[u] # Home[t] => Claim(u)' = Claim(u)
  OBVIOUS
<1>3. \A q \in Procs \ {Home[t]} : Unfinished(q)' = Unfinished(q)
  BY <1>2 DEF Unfinished, Quiet
<1>4. ASSUME NEW i \in Unfinished(Home[t]) \ S PROVE i \in Unfinished(Home[t])'
  BY <1>1 DEF Unfinished, Quiet
<1>5. ASSUME NEW i \in Unfinished(Home[t])' PROVE i \in Unfinished(Home[t]) \cup S
  BY <1>1 DEF Unfinished, Quiet
<1> QED
  BY <1>3, <1>4, <1>5

\* A statement about the row i is a Write.
LEMMA StoredRefines ==
  ASSUME IInv, ~Overlap, VS!Promise', NEW t \in Threads, NEW i \in Ids,
         NEW v \in Vecs \cup {BadVec, Null}, MayStart(t, {i}), Stored(t, i, v)
  PROVE  VS!Write(Home[t], {i})
<1> USE DEF IInv, TypeOK
<1>1. db' = [j \in Ids |-> IF j \in {i} THEN v ELSE db[j]]
  BY DEF Stored
<1>2. VS!OnlyOn(Procs, {i})
  BY <1>1 DEF Stored, VS!OnlyOn, View
<1>6. \A q \in Procs : db'[i] \in Vecs => View(q)'[i] \in {View(q)[i], db'[i]}
  BY <1>1 DEF Stored, View
<1>3. Claim(t) = {}
  BY DEF MayStart, Claim
<1>4. Claim(t)' \subseteq {i} /\ \A u \in Threads \ {t} : Claim(u)' = Claim(u)
  <2>1. CASE v = Null
    BY <1>3, <2>1 DEF Stored, Claim
  <2>2. CASE v # Null
    <3>1. pc' = [pc EXCEPT ![t] = "upsert"] /\ ids' = [ids EXCEPT ![t] = {i}]
      BY <2>2 DEF Stored, Goto
    <3> QED
      BY <3>1 DEF Claim
  <2> QED
    BY <2>1, <2>2
<1>7. /\ \A q \in Procs \ {Home[t]} : Unfinished(q)' = Unfinished(q)
      /\ Unfinished(Home[t]) \ {i} \subseteq Unfinished(Home[t])'
      /\ Unfinished(Home[t])' \subseteq Unfinished(Home[t]) \cup {i}
  <2>1. {i} \in SUBSET Ids /\ Claim(t) \ {i} \subseteq Claim(t)' /\ Claim(t)' \subseteq Claim(t) \cup {i}
    BY <1>3, <1>4
  <2> HIDE DEF IInv, TypeOK
  <2> QED
    BY <1>4, <2>1, OneClaimMoves
<1>5. \A j \in Ids : wrote'[j] \in {wrote[j]} \cup IF j \in {i} THEN {Home[t], Nobody} ELSE {}
  BY DEF Stored
<1> QED
  BY <1>1, <1>2, <1>5, <1>6, <1>7 DEF VS!Write, VS!Columns

\* A call begins: a Write, a Begin, or nothing yet.
LEMMA BeginRefines ==
  ASSUME IInv, ~Overlap, VS!Promise', NEW t \in Threads, Begin(t)
  PROVE  VS!Next \/ UNCHANGED VS!vars
<1> USE DEF IInv, TypeOK
<1>0. Home[t] \in Procs
  OBVIOUS
<1>1. ASSUME NEW i \in Ids, NEW v \in Vecs \cup {BadVec, Null}, MayStart(t, {i}), Stored(t, i, v)
      PROVE  VS!Next
  <2>1. {i} \in SUBSET Ids
    OBVIOUS
  <2> QED
    BY <1>0, <1>1, <2>1, StoredRefines DEF VS!Next
<1>2. ASSUME NEW i \in Ids, DeleteMemory(t, i) PROVE VS!Next
  <2>1. db' = [j \in Ids |-> IF j \in {i} THEN Absent ELSE db[j]]
    BY <1>2 DEF DeleteMemory
  <2>2. VS!OnlyOn(Procs, {i})
    BY <1>2, <2>1 DEF DeleteMemory, VS!OnlyOn, View
  <2>3. Claim(t) = {} /\ Claim(t)' = {i} /\ \A u \in Threads \ {t} : Claim(u)' = Claim(u)
    BY <1>2 DEF DeleteMemory, MayStart, Goto, Claim
  <2>4. /\ \A q \in Procs \ {Home[t]} : Unfinished(q)' = Unfinished(q)
        /\ Unfinished(Home[t]) \ {i} \subseteq Unfinished(Home[t])'
        /\ Unfinished(Home[t])' \subseteq Unfinished(Home[t]) \cup {i}
    <3>1. {i} \in SUBSET Ids /\ Claim(t) \ {i} \subseteq Claim(t)' /\ Claim(t)' \subseteq Claim(t) \cup {i}
      BY <2>3
    <3> HIDE DEF IInv, TypeOK
    <3> QED
      BY <2>3, <3>1, OneClaimMoves
  <2>5. VS!Write(Home[t], {i})
    BY <1>2, <2>1, <2>2, <2>4 DEF DeleteMemory, VS!Write, VS!Columns
  <2>6. {i} \in SUBSET Ids
    OBVIOUS
  <2> QED
    BY <1>0, <2>5, <2>6 DEF VS!Next
<1>3. CASE SelectFileMemories(t)
  <2>1. \A p \in Procs : View(p)' = View(p)
    BY <1>3 DEF SelectFileMemories, View
  <2>2. /\ Unfinished(Home[t])' = Unfinished(Home[t]) \cup FileIds
        /\ \A q \in Procs \ {Home[t]} : Unfinished(q)' = Unfinished(q)
    BY <1>3 DEF SelectFileMemories, MayStart, Goto, Unfinished, Quiet, Claim
  <2>3. VS!Begin(Home[t], FileIds)
    BY <1>0, <1>3, <2>1, <2>2 DEF SelectFileMemories, VS!Begin
  <2> QED
    BY <1>0, <2>3 DEF VS!Next
<1>4. ASSUME NEW S \in SUBSET FileIds, BulkDelete(t, S) PROVE VS!Next
  <2>1. VS!OnlyOn(Procs, S)
    BY <1>4 DEF BulkDelete, VS!OnlyOn, View
  <2>2. \A q \in Procs : Unfinished(q)' = Unfinished(q)
    BY <1>4 DEF BulkDelete, Unfinished, Quiet, Claim
  <2>3. VS!Write(Home[t], S)
    BY <1>0, <1>4, <2>1, <2>2 DEF BulkDelete, VS!Write, VS!Columns
  <2>4. S \in SUBSET Ids
    OBVIOUS
  <2> QED
    BY <1>0, <2>3, <2>4 DEF VS!Next
<1>5. CASE VectorSearch(t)
  <2>1. \A q \in Procs : Unfinished(q)' = Unfinished(q) /\ View(q)' = View(q)
    BY <1>5 DEF VectorSearch, Goto, Unfinished, Quiet, Claim, View
  <2> QED
    BY <1>5, <2>1 DEF VectorSearch, VS!vars
<1> QED
  BY <1>1, <1>2, <1>3, <1>4, <1>5 DEF Begin, PutMemory, UpdateMemoryContent

\* A pending mutation of the index is a Finish.
LEMMA MutationRefines ==
  ASSUME IInv, ~Overlap, VS!Promise', NEW t \in Threads, IndexUpsert(t) \/ IndexDelete(t)
  PROVE  VS!Next
<1> USE DEF IInv, TypeOK
<1>1. pc[t] \in {"upsert", "delete"} /\ pc'[t] = "idle"
  BY DEF IndexUpsert, IndexDelete, Return, Goto
<1>2. \A u \in Threads \ {t} : pc'[u] = pc[u] /\ ids'[u] = ids[u]
  BY DEF IndexUpsert, IndexDelete, Return, Goto
<1>3. \A q \in Procs \ {Home[t]}, i \in Ids : Quiet(q, i)' <=> Quiet(q, i)
  BY <1>2 DEF Quiet, Claim
<1>6. \A i \in Ids : Quiet(Home[t], i)' <=> Quiet(Home[t], i) \/ i \in ids[t]
  BY <1>1, <1>2 DEF Quiet, Disjoint, Claim
<1>7. /\ Unfinished(Home[t])' = Unfinished(Home[t]) \ ids[t]
      /\ \A q \in Procs \ {Home[t]} : Unfinished(q)' = Unfinished(q)
  BY <1>3, <1>6 DEF Unfinished
<1>4. VS!OnlyOn({Home[t]}, ids[t])
  BY DEF IndexUpsert, IndexDelete, VS!OnlyOn, View
<1>5. VS!Finish(Home[t], ids[t])
  BY <1>7, <1>4 DEF VS!Finish, IndexUpsert, IndexDelete
<1> QED
  BY <1>5 DEF VS!Next

\* Every other step of a call: a Write of the clean-up, a Refresh, or nothing.
LEMMA ContinueRefines ==
  ASSUME IInv, Cold, ~Overlap, VS!Promise', NEW t \in Threads, Continue(t)
  PROVE  VS!Next \/ UNCHANGED VS!vars
<1> USE DEF IInv, TypeOK
<1>0. Home[t] \in Procs
  OBVIOUS
<1>1. CASE DeleteFileMemories(t)
  <2>1. db' = [i \in Ids |-> IF i \in FileIds THEN Absent ELSE db[i]]
    BY <1>1 DEF DeleteFileMemories
  <2>2. VS!OnlyOn(Procs, FileIds)
    BY <1>1, <2>1 DEF DeleteFileMemories, VS!OnlyOn, View
  <2>3. \A u \in Threads \ {t} : pc'[u] = pc[u] /\ ids'[u] = ids[u]
    BY <1>1 DEF DeleteFileMemories, Goto
  <2>4. pc[t] = "files" /\ pc'[t] = "delete" /\ ids'[t] \subseteq FileIds
    BY <1>1 DEF DeleteFileMemories, Goto, FileClaim
  <2>9. \A q \in Procs \ {Home[t]}, i \in Ids : Quiet(q, i)' <=> Quiet(q, i)
    BY <2>3 DEF Quiet, Claim
  <2>10. \A i \in Ids \ FileIds : Quiet(Home[t], i)' <=> Quiet(Home[t], i)
    BY <2>3, <2>4 DEF Quiet, Claim
  <2>5. \A q \in Procs \ {Home[t]} : Unfinished(q)' = Unfinished(q)
    BY <2>9 DEF Unfinished
  <2>6. /\ Unfinished(Home[t]) \ FileIds \subseteq Unfinished(Home[t])'
        /\ Unfinished(Home[t])' \subseteq Unfinished(Home[t]) \cup FileIds
    BY <2>10 DEF Unfinished
  <2>7. \A i \in Ids : wrote'[i] \in {wrote[i]} \cup IF i \in FileIds THEN {Home[t], Nobody} ELSE {}
    BY <1>1 DEF DeleteFileMemories, FileClaim
  <2>8. VS!Write(Home[t], FileIds)
    BY <1>0, <2>1, <2>2, <2>5, <2>6, <2>7 DEF VS!Write, VS!Columns
  <2> QED
    BY <1>0, <2>8 DEF VS!Next
<1>2. CASE IndexUpsert(t) \/ IndexDelete(t)
  BY <1>2, MutationRefines
<1>3. CASE EnsureIndex(t) \/ WarmSelect(t) \/ Search(t)
  <2>1. \A u \in Threads : Claim(u)' = Claim(u)
    BY <1>3 DEF EnsureIndex, WarmSelect, Search, Return, Goto, Claim
  <2>2. \A q \in Procs : Unfinished(q)' = Unfinished(q)
    BY <2>1 DEF Unfinished, Quiet
  <2>3. \A q \in Procs : View(q)' = View(q)
    BY <1>3 DEF EnsureIndex, WarmSelect, Search, View
  <2> QED
    BY <1>3, <2>2, <2>3 DEF EnsureIndex, WarmSelect, Search, VS!vars
<1>4. CASE WarmFill(t) \/ WarmFail(t)
  <2>1. \A u \in Threads : Claim(u)' = Claim(u)
    BY <1>4 DEF WarmFill, WarmFail, WarmDone, Goto, Claim
  <2>2. \A q \in Procs : Unfinished(q)' = Unfinished(q)
    BY <2>1 DEF Unfinished, Quiet
  <2>3. db' = db /\ wrote' = wrote
    BY <1>4 DEF WarmFill, WarmFail, WarmDone
  <2>4. \A q \in Procs \ {Home[t]} : index'[q] = index[q] /\ warm'[q] = warm[q]
    BY <1>4 DEF WarmFill, WarmFail
  <2>5. ~warm[Home[t]]
    BY <1>4 DEF WarmFill, WarmFail, Cold
  <2>6. ASSUME NEW i \in Ids, wrote[i] = Home[t] PROVE View(Home[t])'[i] = View(Home[t])[i]
    <3>1. CASE WarmFill(t)
      <4>1. snap[Home[t]][i] = db[i]
        BY <2>6, <3>1 DEF WarmFill, SnapCurrent
      <4>2. index'[Home[t]][i] = IF db[i] \in Vecs THEN db[i] ELSE index[Home[t]][i]
        BY <1>0, <3>1, <4>1 DEF WarmFill, Loaded
      <4>3. warm'[Home[t]]
        BY <1>0, <3>1 DEF WarmFill
      <4> QED
        BY <2>3, <2>5, <4>2, <4>3 DEF View
    <3>2. CASE WarmFail(t)
      <4>1. warm' = warm
        BY <3>2 DEF WarmFail
      <4>2. db[i] \notin Vecs => index'[Home[t]][i] = index[Home[t]][i]
        <5>1. CASE index' = index
          BY <5>1
        <5>2. ASSUME NEW S \in SUBSET Ids, pc[t] = "fill",
                     index' = [index EXCEPT ![Home[t]] = Loaded(Home[t], S)]
              PROVE  db[i] \notin Vecs => index'[Home[t]][i] = index[Home[t]][i]
          <6>1. snap[Home[t]][i] = db[i]
            BY <2>6, <5>2 DEF SnapCurrent
          <6> QED
            BY <1>0, <5>2, <6>1 DEF Loaded
        <5> QED
          BY <3>2, <5>1, <5>2 DEF WarmFail
      <4> QED
        BY <2>3, <2>5, <4>1, <4>2 DEF View
    <3> QED
      BY <1>4, <3>1, <3>2
  <2>7. \A q \in Procs \ {Home[t]}, i \in Ids : View(q)'[i] = View(q)[i]
    BY <2>3, <2>4 DEF View
  <2>8. VS!OnlyOn({Home[t]}, {i \in Ids : wrote[i] # Home[t]})
    BY <2>6, <2>7 DEF VS!OnlyOn
  <2>9. VS!Refresh(Home[t])
    BY <2>2, <2>3, <2>8 DEF VS!Refresh
  <2> QED
    BY <1>0, <2>9 DEF VS!Next
<1> QED
  BY <1>1, <1>2, <1>3, <1>4 DEF Continue

\* A restart is a Restart.
LEMMA ReopenRefines ==
  ASSUME IInv, NEW p \in Procs, Reopen(p)
  PROVE  VS!Next
<1> USE DEF IInv, TypeOK
<1>1. Unfinished(p)' = {} /\ \A q \in Procs \ {p} : Unfinished(q)' = Unfinished(q)
  BY DEF Reopen, Unfinished, Quiet, Claim
<1>2. /\ View(p)' = [i \in Ids |-> IF db[i] \in Vecs THEN db[i] ELSE Absent]
      /\ \A q \in Procs \ {p} : View(q)' = View(q)
  BY DEF Reopen, View, NoEntry
<1>3. VS!Restart(p)
  BY <1>1, <1>2 DEF VS!Restart, Reopen
<1> QED
  BY <1>3 DEF VS!Next

\* Every step of the store is a step of its promise, or changes nothing in it.
LEMMA StepRefines ==
  IInv /\ IInv' /\ Cold /\ ~Overlap /\ [Next]_vars => [VS!Next]_(VS!vars)
<1> SUFFICES ASSUME IInv, IInv', Cold, ~Overlap, [Next]_vars
             PROVE  VS!Next \/ UNCHANGED VS!vars
  OBVIOUS
<1>1. VS!Promise'
  BY PromiseKeptNext
<1>2. CASE Next
  BY <1>1, <1>2, BeginRefines, ContinueRefines, ReopenRefines DEF Next
<1>3. CASE UNCHANGED vars
  BY <1>3 DEF vars, VS!vars, View, Unfinished, Quiet, Claim
<1> QED
  BY <1>2, <1>3

\* The empty store is the empty store of the promise.
LEMMA InitRefines == Init => VS!Init
  BY DEF Init, VS!Init, View, NoEntry, Unfinished, Quiet, Claim

\* The store implements the contract of a Store, if the calls of a process on
\* one id do not overlap.
THEOREM ImplementsVectorStoreTheorem ==
  ASSUME ~Overlap
  PROVE  Spec => ImplementsVectorStore
<1>1. Init => Cold
  BY DEF Init, Cold
<1> QED
  BY <1>1, InitIInv, NextIInv, NextCold, InitRefines, StepRefines, PTL
     DEF Spec, ImplementsVectorStore, VS!Spec

-----------------------------------------------------------------------------
(***************************************************************************)
(* The two slices and the map of the in-memory index agree, for any ids    *)
(* and vectors and after any number of upserts and deletions.  What the        *)
(* property says is inductive, of slices that are typed.                   *)
(***************************************************************************)

HIDE StoreAssumption

IndexIInv == IndexTypeOK /\ IndexIsTheMap

(* The last entry in the place of the one at x, and the end cut off.        *)
LEMMA ShrinkFacts ==
  ASSUME NEW S, NEW s \in Seq(S), NEW x \in 1..Len(s), NEW t,
         t = SubSeq([s EXCEPT ![x] = s[Len(s)]], 1, Len(s) - 1)
  PROVE  /\ t \in Seq(S)
         /\ Len(t) = Len(s) - 1
         /\ \A y \in 1..(Len(s) - 1) : t[y] = IF y = x THEN s[Len(s)] ELSE s[y]
<1> DEFINE u == [s EXCEPT ![x] = s[Len(s)]]
<1>1. Len(s) \in Nat /\ s[Len(s)] \in S
  BY LenProperties
<1>2. \A y \in 1..Len(s) : u[y] \in S /\ u[y] = IF y = x THEN s[Len(s)] ELSE s[y]
  BY <1>1, LenProperties
<1> HIDE DEF u
<1>3. \A y \in 1..(Len(s) - 1) : u[y] \in S
  BY <1>1, <1>2
<1>4. /\ SubSeq(u, 1, Len(s) - 1) \in Seq(S)
      /\ Len(SubSeq(u, 1, Len(s) - 1)) = Len(s) - 1
      /\ \A y \in 1..(Len(s) - 1) : SubSeq(u, 1, Len(s) - 1)[y] = u[y]
  <2> DEFINE n == Len(s) - 1
             w == SubSeq(u, 1, n)
  <2>1. n \in Int /\ n >= 0 /\ 1 \in Int /\ \A y \in 1..n : u[y] \in S
    BY <1>1, <1>3
  <2> HIDE DEF n
  <2>2. /\ w \in Seq(S)
        /\ Len(w) = IF 1 <= n THEN n - 1 + 1 ELSE 0
        /\ \A y \in 1..(n - 1 + 1) : w[y] = u[1 + y - 1]
    BY <2>1, SubSeqProperties
  <2>3. Len(w) = n /\ \A y \in 1..n : w[y] = u[y]
    BY <2>1, <2>2
  <2> QED
    BY <2>2, <2>3 DEF n
<1> QED
  BY <1>1, <1>2, <1>4 DEF u

-----------------------------------------------------------------------------

LEMMA InitIndex == IndexInit => IndexIInv
<1> SUFFICES ASSUME IndexInit PROVE IndexIInv
  OBVIOUS
<1>1. slots = <<>> /\ mat = <<>> /\ DOMAIN idToIdx = {} /\ DOMAIN latest = {}
  BY DEF IndexInit
<1>2. Len(slots) = 0 /\ Len(mat) = 0 /\ 1..0 = {}
  BY <1>1
<1>3. slots \in Seq(Items) /\ mat \in Seq(Vectors)
  BY <1>1
<1> QED
  BY <1>1, <1>2, <1>3 DEF IndexIInv, IndexTypeOK, IndexIsTheMap

(* What the invariant says, for the steps.                                  *)
LEMMA Known ==
  ASSUME IndexIInv
  PROVE  /\ slots \in Seq(Items) /\ mat \in Seq(Vectors)
         /\ Len(slots) \in Nat /\ Len(mat) = Len(slots)
         /\ DOMAIN idToIdx \subseteq Items /\ DOMAIN latest = DOMAIN idToIdx
         /\ \A x \in 1..Len(slots) : /\ slots[x] \in DOMAIN latest /\ mat[x] = latest[slots[x]]
                                     /\ idToIdx[slots[x]] = x
         /\ \A i \in DOMAIN idToIdx : idToIdx[i] \in 1..Len(slots) /\ slots[idToIdx[i]] = i
  BY LenProperties DEF IndexIInv, IndexTypeOK, IndexIsTheMap

(* What is to be shown of the next state, in parts.                         *)
LEMMA Enough ==
  ASSUME slots' \in Seq(Items), mat' \in Seq(Vectors), Len(slots') = Len(mat'),
         DOMAIN idToIdx' \subseteq Items, DOMAIN latest' = DOMAIN idToIdx',
         \A x \in 1..Len(slots') : /\ slots'[x] \in DOMAIN latest' /\ mat'[x] = latest'[slots'[x]]
                                  /\ idToIdx'[slots'[x]] = x,
         \A i \in DOMAIN idToIdx' : idToIdx'[i] \in 1..Len(slots') /\ slots'[idToIdx'[i]] = i
  PROVE  IndexIInv'
  BY DEF IndexIInv, IndexTypeOK, IndexIsTheMap

(* An id the index has keeps its place; a new one gets the next.            *)
LEMMA UpsertInv ==
  ASSUME IndexIInv, NEW i \in Items, NEW v \in Vectors, Upsert(i, v)
  PROVE  IndexIInv'
<1> USE Known
<1>1. /\ DOMAIN latest' = DOMAIN latest \cup {i}
      /\ latest'[i] = v
      /\ \A j \in DOMAIN latest : j # i => latest'[j] = latest[j]
  <2>1. latest' = Put(latest, i, v)
    BY DEF Upsert
  <2> QED
    BY <2>1 DEF Put
<1>2. CASE i \in DOMAIN idToIdx
  <2>1. /\ mat' = [mat EXCEPT ![idToIdx[i]] = v]
        /\ slots' = slots /\ idToIdx' = idToIdx
    BY <1>2 DEF Upsert
  <2>2. idToIdx[i] \in 1..Len(mat) /\ slots[idToIdx[i]] = i
    BY <1>2
  <2>3. /\ mat' \in Seq(Vectors) /\ Len(mat') = Len(mat)
        /\ \A y \in 1..Len(mat) : mat'[y] = IF y = idToIdx[i] THEN v ELSE mat[y]
    BY <2>1, <2>2, ExceptSeq
  <2>4. \A y \in 1..Len(slots') : mat'[y] = latest'[slots'[y]]
    BY <1>1, <2>1, <2>2, <2>3
  <2> QED
    BY <1>1, <1>2, <2>1, <2>3, <2>4, Enough
<1>3. CASE i \notin DOMAIN idToIdx
  <2>1. /\ mat' = Append(mat, v) /\ slots' = Append(slots, i)
        /\ idToIdx' = Put(idToIdx, i, Len(slots) + 1)
    BY <1>3 DEF Upsert
  <2>2. /\ mat' \in Seq(Vectors) /\ Len(mat') = Len(mat) + 1
        /\ mat'[Len(mat) + 1] = v
        /\ \A y \in 1..Len(mat) : mat'[y] = mat[y]
    BY <2>1, AppendProperties
  <2>3. /\ slots' \in Seq(Items) /\ Len(slots') = Len(slots) + 1
        /\ slots'[Len(slots) + 1] = i
        /\ \A y \in 1..Len(slots) : slots'[y] = slots[y]
    BY <2>1, AppendProperties
  <2>4. /\ DOMAIN idToIdx' = DOMAIN idToIdx \cup {i}
        /\ idToIdx'[i] = Len(slots) + 1
        /\ \A j \in DOMAIN idToIdx : j # i => idToIdx'[j] = idToIdx[j]
    BY <2>1 DEF Put
  <2>5. ASSUME NEW y \in 1..Len(slots')
        PROVE  /\ slots'[y] \in DOMAIN latest' /\ mat'[y] = latest'[slots'[y]]
               /\ idToIdx'[slots'[y]] = y
    <3>1. CASE y = Len(slots) + 1
      BY <1>1, <2>2, <2>3, <2>4, <3>1
    <3>2. CASE y \in 1..Len(slots)
      BY <1>1, <1>3, <2>2, <2>3, <2>4, <3>2
    <3> QED
      BY <2>3, <3>1, <3>2
  <2>6. ASSUME NEW j \in DOMAIN idToIdx'
        PROVE  idToIdx'[j] \in 1..Len(slots') /\ slots'[idToIdx'[j]] = j
    <3>1. CASE j = i
      BY <2>3, <2>4, <3>1
    <3>2. CASE j # i
      BY <2>3, <2>4, <3>2
    <3> QED
      BY <3>1, <3>2
  <2> QED
    BY <1>1, <2>2, <2>3, <2>4, <2>5, <2>6, Enough
<1> QED
  BY <1>2, <1>3

(* The last id of the index moves into the hole, or is what goes.           *)
LEMMA DeleteInv ==
  ASSUME IndexIInv, NEW i \in Items, Delete(i)
  PROVE  IndexIInv'
<1> USE Known
<1> DEFINE last == Len(slots)
<1>1. /\ DOMAIN latest' = DOMAIN latest \ {i}
      /\ \A j \in DOMAIN latest \ {i} : latest'[j] = latest[j]
  <2>1. latest' = Without(latest, i)
    BY DEF Delete
  <2> QED
    BY <2>1 DEF Without, Restrict
<1>2. CASE i \in DOMAIN idToIdx
  <2> DEFINE x == idToIdx[i]
             rest == Without(idToIdx, i)
  <2>1. x \in 1..last /\ slots[x] = i
    BY <1>2
  <2>2. /\ idToIdx' = Moved(rest, x)
        /\ slots' = SubSeq([slots EXCEPT ![x] = slots[Len(slots)]], 1, Len(slots) - 1)
        /\ mat' = SubSeq([mat EXCEPT ![x] = mat[Len(mat)]], 1, Len(mat) - 1)
    BY <1>2 DEF Delete
  <2>3. /\ slots' \in Seq(Items) /\ Len(slots') = last - 1
        /\ \A y \in 1..(last - 1) : slots'[y] = IF y = x THEN slots[last] ELSE slots[y]
    BY <2>1, <2>2, ShrinkFacts
  <2>4. /\ mat' \in Seq(Vectors) /\ Len(mat') = last - 1
        /\ \A y \in 1..(last - 1) : mat'[y] = IF y = x THEN mat[last] ELSE mat[y]
    BY <2>1, <2>2, ShrinkFacts
  <2>5. /\ DOMAIN rest = DOMAIN idToIdx \ {i}
        /\ \A j \in DOMAIN idToIdx \ {i} : rest[j] = idToIdx[j]
    BY DEF Without, Restrict
  <2> HIDE DEF rest
  \* Where the map leads now.
  <2>6. /\ DOMAIN idToIdx' = DOMAIN idToIdx \ {i}
        /\ \A j \in DOMAIN idToIdx \ {i} :
             idToIdx'[j] = IF j = slots[last] THEN x ELSE idToIdx[j]
    <3>1. CASE x = last
      BY <2>1, <2>2, <2>5, <3>1 DEF Moved
    <3>2. CASE x # last
      BY <2>2, <2>5, <3>2 DEF Moved
    <3> QED
      BY <3>1, <3>2
  <2>7. ASSUME NEW y \in 1..Len(slots')
        PROVE  /\ slots'[y] \in DOMAIN latest' /\ mat'[y] = latest'[slots'[y]]
               /\ idToIdx'[slots'[y]] = y
    <3>0. y \in 1..last /\ y # last /\ last \in 1..last
      BY <2>3
    <3>1. CASE y = x
      <4>1. slots'[y] = slots[last] /\ mat'[y] = mat[last] /\ slots[last] # i
        BY <2>1, <2>3, <2>4, <3>0, <3>1
      <4> QED
        BY <1>1, <2>6, <3>0, <3>1, <4>1
    <3>2. CASE y # x
      <4>1. slots'[y] = slots[y] /\ mat'[y] = mat[y] /\ slots[y] # i /\ slots[y] # slots[last]
        BY <2>1, <2>3, <2>4, <3>0, <3>2
      <4> QED
        BY <1>1, <2>6, <3>0, <4>1
    <3> QED
      BY <3>1, <3>2
  <2>8. ASSUME NEW j \in DOMAIN idToIdx'
        PROVE  idToIdx'[j] \in 1..Len(slots') /\ slots'[idToIdx'[j]] = j
    <3>0. j \in DOMAIN idToIdx /\ j # i /\ idToIdx[j] \in 1..last /\ slots[idToIdx[j]] = j
      BY <2>6
    <3>1. CASE j = slots[last]
      <4>1. x # last /\ idToIdx'[j] = x
        BY <2>1, <2>6, <3>0, <3>1
      <4>2. x \in 1..(last - 1)
        BY <2>1, <4>1
      <4>3. slots'[x] = j
        BY <2>3, <3>1, <4>2
      <4> QED
        BY <2>3, <4>1, <4>2, <4>3
    <3>2. CASE j # slots[last]
      <4>1. idToIdx[j] # last /\ idToIdx[j] # x /\ idToIdx'[j] = idToIdx[j]
        BY <2>1, <2>6, <3>0, <3>2
      <4> QED
        BY <2>3, <3>0, <4>1
    <3> QED
      BY <3>1, <3>2
  <2> QED
    BY <1>1, <2>3, <2>4, <2>6, <2>7, <2>8, Enough
<1>3. CASE i \notin DOMAIN idToIdx
  <2>1. UNCHANGED <<slots, mat, idToIdx>>
    BY <1>3 DEF Delete
  <2>2. DOMAIN latest' = DOMAIN idToIdx'
    BY <1>1, <1>3, <2>1
  <2>3. \A y \in 1..Len(slots') : /\ slots'[y] \in DOMAIN latest' /\ mat'[y] = latest'[slots'[y]]
                                 /\ idToIdx'[slots'[y]] = y
    <3> SUFFICES ASSUME NEW y \in 1..Len(slots)
                 PROVE  /\ slots[y] \in DOMAIN latest' /\ mat[y] = latest'[slots[y]]
                        /\ idToIdx[slots[y]] = y
      BY <2>1
    <3>1. slots[y] \in DOMAIN latest /\ slots[y] # i
      BY <1>3
    <3> QED
      BY <1>1, <3>1
  <2>4. \A j \in DOMAIN idToIdx' : idToIdx'[j] \in 1..Len(slots') /\ slots'[idToIdx'[j]] = j
    BY <2>1
  <2> QED
    BY <2>1, <2>2, <2>3, <2>4, Enough
<1> QED
  BY <1>2, <1>3

-----------------------------------------------------------------------------

LEMMA NextIndex == IndexIInv /\ [IndexNext]_indexVars => IndexIInv'
<1> SUFFICES ASSUME IndexIInv, [IndexNext]_indexVars PROVE IndexIInv'
  OBVIOUS
<1>1. CASE UNCHANGED indexVars
  BY <1>1 DEF indexVars, IndexIInv, IndexTypeOK, IndexIsTheMap
<1> QED
  BY <1>1, UpsertInv, DeleteInv DEF IndexNext

(* The slices are sequences of ids and vectors, in any order of calls.      *)
THEOREM IndexTypeCorrect == IndexSpec => []IndexTypeOK
<1>1. IndexIInv => IndexTypeOK
  BY DEF IndexIInv
<1> QED
  BY InitIndex, NextIndex, <1>1, PTL DEF IndexSpec

(* A search of the index scores each id that was upserted and not deleted   *)
(* since, once, with the vector of its last upsert, and nothing else        *)
(* (InMemoryVectorIndex, whose deletion swaps the last entry into the hole).*)
THEOREM IndexIsTheMapTheorem == IndexSpec => []IndexIsTheMap
<1>1. IndexIInv => IndexIsTheMap
  BY DEF IndexIInv
<1> QED
  BY InitIndex, NextIndex, <1>1, PTL DEF IndexSpec
=============================================================================
