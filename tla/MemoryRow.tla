------------------------------ MODULE MemoryRow ------------------------------
(***************************************************************************)
(* One row of `memories` under its read-modify-write clients:              *)
(*  - PUT /api/memories/{id} (api/crud.go) reads the row, embeds when the   *)
(*    content asked for differs from the one read, and patches the row;    *)
(*  - bookkeeping writers (markConsolidated, stampActionClass) read the    *)
(*    row, embed the content they read and upsert the whole row;           *)
(*  - DELETE /api/memories/{id}.                                           *)
(* A content hash and an embedding are abstracted to the content they were *)
(* computed from; an episode is recorded without a hash, a fact with one.  *)
(* Summary and tags are left out: they are written where the content is.   *)
(***************************************************************************)
CONSTANTS Editors,   \* requests that edit the row
          Stampers,  \* passes that stamp the row
          Contents,  \* contents of the row
          First,     \* its content when it is recorded
          Keep,      \* the field is absent from the request
          None       \* no row, nothing read, no hash

ASSUME MemoryRowAssumption ==
  /\ First \in Contents
  /\ Keep \notin Contents /\ None \notin Contents

VARIABLES
  row,      \* the row, or None
  seen,     \* client -> the row it read, or None between calls
  want,     \* editor -> the content its request asks for, or Keep
  asked,    \* history: the content of the last edit that asked for one
  deleted,  \* history: has the row been deleted?
  reverted, \* history: has an edit that kept the content it had read written
            \* it over another?
  undone    \* history: has a stamp written back a row that had changed or gone
            \* since it was read?

vars == <<row, seen, want, asked, deleted, reverted, undone>>

Row == [content : Contents, hash : Contents \cup {None}, vec : Contents, stamped : BOOLEAN]

TypeOK ==
  /\ row \in Row \cup {None}
  /\ seen \in [Editors \cup Stampers -> Row \cup {None}]
  /\ want \in [Editors -> Contents \cup {Keep}]
  /\ asked \in Contents
  /\ {deleted, reverted, undone} \subseteq BOOLEAN

Init ==
  /\ row \in [content : {First}, hash : {First, None}, vec : {First}, stamped : {FALSE}]
  /\ seen = [c \in Editors \cup Stampers |-> None]
  /\ want = [e \in Editors |-> Keep]
  /\ asked = First
  /\ deleted = FALSE /\ reverted = FALSE /\ undone = FALSE

-----------------------------------------------------------------------------

Read(c) ==
  /\ seen[c] = None
  /\ row # None
  /\ seen' = [seen EXCEPT ![c] = row]

\* The row is there; otherwise the request is answered 404.
BeginEdit(e, w) ==
  /\ Read(e)
  /\ want' = [want EXCEPT ![e] = w]
  /\ UNCHANGED <<row, asked, deleted, reverted, undone>>

Done(c) == seen' = [seen EXCEPT ![c] = None]

\* The content written: the one read unless the request has another.
MutNewContent(e) == seen[e].content

NewContent(e) == IF want[e] = Keep THEN seen[e].content ELSE want[e]

\* UpdateMemoryContent: with a vector the hash and the embedding are rewritten
\* too; a row that is gone stays gone.
MutUpdateMemoryHash(e) ==
  /\ seen[e] # None
  /\ row' = IF row = None THEN None
            ELSE [row EXCEPT !.content = NewContent(e), !.vec = NewContent(e)]
  /\ asked' = IF want[e] = Keep THEN asked ELSE want[e]
  /\ Done(e)
  /\ want' = [want EXCEPT ![e] = Keep]
  /\ UNCHANGED <<deleted, reverted, undone>>

Reverts(e) == row # None /\ NewContent(e) = seen[e].content /\ row.content # NewContent(e)

UpdateMemory(e) ==
  /\ seen[e] # None
  /\ LET new == NewContent(e) IN
       row' = IF row = None THEN None
              ELSE IF new = seen[e].content THEN [row EXCEPT !.content = new]
              ELSE [row EXCEPT !.content = new, !.hash = new, !.vec = new]
  /\ asked' = IF want[e] = Keep THEN asked ELSE want[e]
  /\ reverted' = (reverted \/ Reverts(e))
  /\ Done(e)
  /\ want' = [want EXCEPT ![e] = Keep]
  /\ UNCHANGED <<deleted, undone>>

\* The embedder fails: the request is answered with an error.
FailEdit(e) ==
  /\ seen[e] # None
  /\ NewContent(e) # seen[e].content
  /\ Done(e)
  /\ want' = [want EXCEPT ![e] = Keep]
  /\ UNCHANGED <<row, asked, deleted, reverted, undone>>

BeginStamp(s) ==
  /\ Read(s)
  /\ ~row.stamped
  /\ UNCHANGED <<row, want, asked, deleted, reverted, undone>>

\* PutMemory: the whole row as it was read.
Stamp(s) ==
  /\ seen[s] # None
  /\ row' = [seen[s] EXCEPT !.stamped = TRUE, !.vec = seen[s].content]
  /\ undone' = (undone \/ row # seen[s])
  /\ Done(s)
  /\ UNCHANGED <<want, asked, deleted, reverted>>

DeleteMemory ==
  /\ row # None
  /\ row' = None
  /\ deleted' = TRUE
  /\ UNCHANGED <<seen, want, asked, reverted, undone>>

Next ==
  \/ \E e \in Editors : \/ \E w \in Contents \cup {Keep} : BeginEdit(e, w)
                        \/ UpdateMemory(e)
                        \/ FailEdit(e)
  \/ \E s \in Stampers : BeginStamp(s) \/ Stamp(s)
  \/ DeleteMemory

Spec == Init /\ [][Next]_vars

-----------------------------------------------------------------------------

(* The hash and the embedding are those of the content: recall ranks the    *)
(* row, and consolidation and FindByHash recognise it, by what it says,     *)
(* whichever edits, stamps and deletions overlap.  (An edit that keeps the  *)
(* content computes neither, and yet writes the content.)                   *)
VectorFollowsContent ==
  row # None /\ ~reverted => row.hash \in {None, row.content} /\ row.vec = row.content

(* Edits survive each other: the row says what the last edit that asked for *)
(* a content asked for, as long as no stamp has written back the whole row  *)
(* it had read before an edit.                                              *)
EditsSurvive == row # None /\ ~undone /\ ~reverted => row.content = asked

(* No edit writes back a memory that was deleted after the edit read it.    *)
(* (A stamp does.)                                                          *)
DeletedStaysDeleted == deleted /\ ~undone => row = None
=============================================================================
