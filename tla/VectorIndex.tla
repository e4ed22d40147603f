------------------------------ MODULE VectorIndex ------------------------------
(***************************************************************************)
(* The in-memory vector index (storage/vector_index.go): two parallel      *)
(* slices, and a map from an id to its place in them.  A deletion moves    *)
(* the last entry into the hole.  Go's places start at 0, these at 1.      *)
(***************************************************************************)
EXTENDS Naturals, Sequences, Functions

CONSTANTS Items,   \* ids
          Vectors  \* vectors of the index's dimension

VARIABLES
  slots,    \* place -> id
  mat,      \* place -> vector
  idToIdx,  \* id -> place, for the ids in the index
  latest    \* history: id -> the vector last upserted and not deleted since

indexVars == <<slots, mat, idToIdx, latest>>

IndexInit == slots = <<>> /\ mat = <<>> /\ idToIdx = <<>> /\ latest = <<>>

\* f with i mapped to v; f without i.
Put(f, i, v) == [j \in DOMAIN f \cup {i} |-> IF j = i THEN v ELSE f[j]]
Without(f, i) == Restrict(f, DOMAIN f \ {i})

Upsert(i, v) ==
  /\ IF i \in DOMAIN idToIdx
     THEN mat' = [mat EXCEPT ![idToIdx[i]] = v] /\ UNCHANGED <<slots, idToIdx>>
     ELSE /\ mat' = Append(mat, v) /\ slots' = Append(slots, i)
          /\ idToIdx' = Put(idToIdx, i, Len(slots) + 1)
  /\ latest' = Put(latest, i, v)

\* The map after the entry at place x has gone and the last has taken its place.
MutMoved(map, x) == map
Moved(map, x) ==
  IF x = Len(slots) THEN map ELSE [map EXCEPT ![slots[Len(slots)]] = x]

Delete(i) ==
  /\ IF i \in DOMAIN idToIdx
     THEN LET x == idToIdx[i]  last == Len(slots)
              without == Without(idToIdx, i)
          IN /\ idToIdx' = Moved(without, x)
             /\ slots' = SubSeq([slots EXCEPT ![x] = slots[last]], 1, last - 1)
             /\ mat' = SubSeq([mat EXCEPT ![x] = mat[last]], 1, last - 1)
     ELSE UNCHANGED <<slots, mat, idToIdx>>
  /\ latest' = Without(latest, i)

IndexNext ==
  \E i \in Items : Delete(i) \/ \E v \in Vectors : Upsert(i, v)
IndexSpec == IndexInit /\ [][IndexNext]_indexVars

IndexTypeOK ==
  /\ slots \in Seq(Items) /\ mat \in Seq(Vectors)
  /\ DOMAIN idToIdx \subseteq Items /\ DOMAIN latest \subseteq Items

\* After any upserts and deletions a search scores every id that was upserted
\* and not deleted, once, with its last vector, and nothing else; and the map
\* leads to it.
IndexIsTheMap ==
  /\ Len(slots) = Len(mat)
  /\ \A x \in 1..Len(slots) : /\ slots[x] \in DOMAIN latest /\ mat[x] = latest[slots[x]]
                            /\ idToIdx[slots[x]] = x
  /\ DOMAIN latest = DOMAIN idToIdx
  /\ \A i \in DOMAIN idToIdx : idToIdx[i] \in 1..Len(slots) /\ slots[idToIdx[i]] = i
=============================================================================
