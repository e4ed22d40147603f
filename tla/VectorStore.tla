----------------------------- MODULE VectorStore -----------------------------
(***************************************************************************)
(* What the half of storage/store.go's Store interface that keeps vectors  *)
(* promises a process that writes and searches, whichever database is      *)
(* behind it: a process finds what it wrote.  SQLiteStore, with a vector   *)
(* index beside the table, and PostgresStore, which searches the table,    *)
(* implement it.                                                           *)
(***************************************************************************)
CONSTANTS Procs, Ids, Vecs, BadVec, Null, Absent, Nobody

VARIABLES
  rows,   \* id -> the embedding column of its row, or Absent
  owner,  \* id -> the process whose write it is, Nobody after a bulk delete
  open,   \* process -> the ids its unfinished calls are about
  found   \* process -> id -> the vector a search of it compares, or Absent

vars == <<rows, owner, open, found>>

Columns == Vecs \cup {BadVec, Null, Absent}

\* The write of p on i is over, and the row has a vector or is gone.
Done(p, i) == owner[i] = p /\ i \notin open[p] /\ rows[i] \in Vecs \cup {Absent}

Promise == \A p \in Procs, i \in Ids : Done(p, i) => found[p][i] = rows[i]

Init ==
  /\ rows = [i \in Ids |-> Absent]
  /\ owner = [i \in Ids |-> Nobody]
  /\ open = [p \in Procs |-> {}]
  /\ found = [p \in Procs |-> [i \in Ids |-> Absent]]

\* Searches are to be affected on S alone, and on p's side alone when q # p.
OnlyOn(Q, S) == \A p \in Procs, i \in Ids : p \notin Q \/ i \notin S => found'[p][i] = found[p][i]

\* A call about S begins.
Begin(p, S) ==
  /\ open' = [open EXCEPT ![p] = @ \cup S]
  /\ UNCHANGED <<rows, owner, found>>

\* A statement of p sets the rows S, or deletes them.  Where they have a vector
\* now a search finds it, or still what it found before.
Write(p, S) ==
  /\ \E v \in Columns : rows' = [i \in Ids |-> IF i \in S THEN v ELSE rows[i]]
  /\ \A i \in Ids : owner'[i] \in {owner[i]} \cup IF i \in S THEN {p, Nobody} ELSE {}
  /\ open[p] \ S \subseteq open'[p] /\ open'[p] \subseteq open[p] \cup S
  /\ \A q \in Procs \ {p} : open'[q] = open[q]
  /\ OnlyOn(Procs, S)
  /\ \A q \in Procs, i \in S : rows'[i] \in Vecs => found'[q][i] \in {found[q][i], rows'[i]}
  /\ Promise'

\* Calls of p about S return.
Finish(p, S) ==
  /\ open' = [open EXCEPT ![p] = @ \ S]
  /\ OnlyOn({p}, S)
  /\ Promise'
  /\ UNCHANGED <<rows, owner>>

\* What p finds of the rows that are not its own catches up, or does not.
Refresh(p) ==
  /\ OnlyOn({p}, {i \in Ids : owner[i] # p})
  /\ UNCHANGED <<rows, owner, open>>

\* p starts again: it finds every vector the rows hold.
Restart(p) ==
  /\ open' = [open EXCEPT ![p] = {}]
  /\ found' = [found EXCEPT ![p] = [i \in Ids |-> IF rows[i] \in Vecs THEN rows[i] ELSE Absent]]
  /\ UNCHANGED <<rows, owner>>

Next ==
  \E p \in Procs :
    \/ \E S \in SUBSET Ids : Begin(p, S) \/ Write(p, S) \/ Finish(p, S)
    \/ Refresh(p) \/ Restart(p)

Spec == Init /\ [][Next]_vars
=============================================================================
