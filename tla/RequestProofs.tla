--------------------------- MODULE RequestProofs ---------------------------
(***************************************************************************)
(* What requests ask for: edits of a row and of an account, notes, recall, *)
(* and the workspace both front ends ask in, for any clients, contents,    *)
(* accounts, workspaces, memories and graphs.                              *)
(***************************************************************************)
EXTENDS LayersProofs, MCOperations, SequenceTheorems, TLAPS

-----------------------------------------------------------------------------
(***************************************************************************)
(* What MemoryRow promises for any number of editors and stamps and for    *)
(* any contents.                                                           *)
(*                                                                         *)
(* The inductive invariant says of the rows clients hold what              *)
(* VectorFollowsContent says of the row: a client wrote back, or patches,  *)
(* only what was sound when it read it.                                    *)
(***************************************************************************)

Holders == Editors \cup Stampers

\* Hash and embedding are those of the content.
Sound(r) == r.hash \in {None, r.content} /\ r.vec = r.content

SeenIsSound == ~reverted => \A c \in Holders : seen[c] # None => Sound(seen[c])

RowIInv == TypeOK /\ VectorFollowsContent /\ SeenIsSound /\ EditsSurvive /\ DeletedStaysDeleted

-----------------------------------------------------------------------------

(* A row is recorded with the embedding of its content, and unread.         *)
LEMMA InitRow == Init => RowIInv
<1> SUFFICES ASSUME Init PROVE RowIInv
  OBVIOUS
<1>1. TypeOK
  BY MemoryRowAssumption DEF Init, TypeOK, Row
<1>2. VectorFollowsContent /\ EditsSurvive /\ DeletedStaysDeleted
  BY DEF Init, VectorFollowsContent, EditsSurvive, DeletedStaysDeleted
<1>3. SeenIsSound
  BY DEF Init, SeenIsSound, Holders
<1> QED
  BY <1>1, <1>2, <1>3 DEF RowIInv

(* Types: one step for each action.                                         *)
LEMMA RowTypeStep == TypeOK /\ Next => TypeOK'
<1> SUFFICES ASSUME TypeOK, Next PROVE TypeOK'
  OBVIOUS
<1> USE MemoryRowAssumption DEF TypeOK
<1>1. ASSUME NEW e \in Editors, NEW w \in Contents \cup {Keep}, BeginEdit(e, w) PROVE TypeOK'
  BY <1>1 DEF BeginEdit, Read
<1>2. ASSUME NEW e \in Editors, UpdateMemory(e) PROVE TypeOK'
  <2>1. seen[e] \in Row
    BY <1>2 DEF UpdateMemory
  <2>2. NewContent(e) \in Contents
    BY <2>1 DEF NewContent, Row
  <2>3. row' \in Row \cup {None}
    BY <1>2, <2>2 DEF UpdateMemory, Row
  <2> QED
    BY <1>2, <2>3 DEF UpdateMemory, Done, Reverts
<1>3. ASSUME NEW e \in Editors, FailEdit(e) PROVE TypeOK'
  BY <1>3 DEF FailEdit, Done
<1>4. ASSUME NEW s \in Stampers, BeginStamp(s) PROVE TypeOK'
  BY <1>4 DEF BeginStamp, Read
<1>5. ASSUME NEW s \in Stampers, Stamp(s) PROVE TypeOK'
  <2>1. seen[s] \in Row
    BY <1>5 DEF Stamp
  <2>2. row' \in Row
    BY <1>5, <2>1 DEF Stamp, Row
  <2> QED
    BY <1>5, <2>2 DEF Stamp, Done
<1>6. CASE DeleteMemory
  BY <1>6 DEF DeleteMemory
<1> QED
  BY <1>1, <1>2, <1>3, <1>4, <1>5, <1>6 DEF Next

(* What an edit or a stamp writes is sound if what it read is, and what it  *)
(* keeps is kept unless another edit has been in between.                   *)
LEMMA RowStep == RowIInv /\ Next => VectorFollowsContent' /\ SeenIsSound'
<1> SUFFICES ASSUME RowIInv, Next PROVE VectorFollowsContent' /\ SeenIsSound'
  OBVIOUS
<1> USE DEF RowIInv, TypeOK, VectorFollowsContent, SeenIsSound, Sound
<1>1. ASSUME NEW e \in Editors, NEW w \in Contents \cup {Keep}, BeginEdit(e, w)
      PROVE VectorFollowsContent' /\ SeenIsSound'
  BY <1>1 DEF BeginEdit, Read, Holders
<1>2. ASSUME NEW e \in Editors, UpdateMemory(e) PROVE VectorFollowsContent' /\ SeenIsSound'
  <2>1. seen'= [seen EXCEPT ![e] = None] /\ (reverted => reverted')
    BY <1>2 DEF UpdateMemory, Done
  <2>2. SeenIsSound'
    BY <2>1 DEF Holders
  <2>3. ASSUME row' # None, ~reverted' PROVE row'.hash \in {None, row'.content} /\ row'.vec = row'.content
    <3>1. row # None /\ row \in Row /\ ~reverted /\ ~Reverts(e)
      BY <1>2, <2>3 DEF UpdateMemory
    <3>2. CASE NewContent(e) = seen[e].content
      <4>1. row.content = NewContent(e)
        BY <3>1, <3>2 DEF Reverts
      <4>2. row' = [row EXCEPT !.content = NewContent(e)]
        BY <1>2, <2>3, <3>2 DEF UpdateMemory
      <4> QED
        BY <2>3, <3>1, <4>1, <4>2 DEF Row
    <3>3. CASE NewContent(e) # seen[e].content
      <4>1. row' = [row EXCEPT !.content = NewContent(e), !.hash = NewContent(e), !.vec = NewContent(e)]
        BY <1>2, <2>3, <3>3 DEF UpdateMemory
      <4> QED
        BY <3>1, <4>1 DEF Row
    <3> QED
      BY <3>2, <3>3
  <2> QED
    BY <2>2, <2>3
<1>3. ASSUME NEW e \in Editors, FailEdit(e) PROVE VectorFollowsContent' /\ SeenIsSound'
  BY <1>3 DEF FailEdit, Done, Holders
<1>4. ASSUME NEW s \in Stampers, BeginStamp(s) PROVE VectorFollowsContent' /\ SeenIsSound'
  BY <1>4 DEF BeginStamp, Read, Holders
<1>5. ASSUME NEW s \in Stampers, Stamp(s) PROVE VectorFollowsContent' /\ SeenIsSound'
  <2>1. seen[s] \in Row /\ row' = [seen[s] EXCEPT !.stamped = TRUE, !.vec = seen[s].content]
    BY <1>5 DEF Stamp
  <2>2. ~reverted' => row'.hash \in {None, row'.content} /\ row'.vec = row'.content
    BY <1>5, <2>1 DEF Stamp, Row, Holders
  <2>3. SeenIsSound'
    BY <1>5 DEF Stamp, Done, Holders
  <2> QED
    BY <2>2, <2>3
<1>6. CASE DeleteMemory
  BY <1>6 DEF DeleteMemory
<1> QED
  BY <1>1, <1>2, <1>3, <1>4, <1>5, <1>6 DEF Next

(* The last edit's content stays until a stamp undoes it, and a deleted row *)
(* is only ever written by a stamp.                                         *)
LEMMA HistoryStep == RowIInv /\ Next => EditsSurvive' /\ DeletedStaysDeleted'
<1> SUFFICES ASSUME RowIInv, Next PROVE EditsSurvive' /\ DeletedStaysDeleted'
  OBVIOUS
<1> USE MemoryRowAssumption DEF RowIInv, TypeOK, EditsSurvive, DeletedStaysDeleted
<1>1. ASSUME NEW e \in Editors, NEW w \in Contents \cup {Keep}, BeginEdit(e, w)
      PROVE EditsSurvive' /\ DeletedStaysDeleted'
  BY <1>1 DEF BeginEdit
<1>2. ASSUME NEW e \in Editors, UpdateMemory(e) PROVE EditsSurvive' /\ DeletedStaysDeleted'
  <2>1. DeletedStaysDeleted'
    BY <1>2 DEF UpdateMemory
  <2>2. ASSUME row' # None, ~undone', ~reverted' PROVE row'.content = asked'
    <3>1. row \in Row /\ row.content = asked /\ ~Reverts(e)
      BY <1>2, <2>2 DEF UpdateMemory
    <3>2. row'.content = NewContent(e)
      BY <1>2, <2>2, <3>1 DEF UpdateMemory, Row
    <3>3. CASE want[e] = Keep
      BY <1>2, <3>1, <3>2, <3>3 DEF UpdateMemory, NewContent, Reverts
    <3>4. CASE want[e] # Keep
      BY <1>2, <3>2, <3>4 DEF UpdateMemory, NewContent
    <3> QED
      BY <3>3, <3>4
  <2> QED
    BY <2>1, <2>2
<1>3. ASSUME NEW e \in Editors, FailEdit(e) PROVE EditsSurvive' /\ DeletedStaysDeleted'
  BY <1>3 DEF FailEdit
<1>4. ASSUME NEW s \in Stampers, BeginStamp(s) PROVE EditsSurvive' /\ DeletedStaysDeleted'
  BY <1>4 DEF BeginStamp
<1>5. ASSUME NEW s \in Stampers, Stamp(s) PROVE EditsSurvive' /\ DeletedStaysDeleted'
  BY <1>5 DEF Stamp, Row
<1>6. CASE DeleteMemory
  BY <1>6 DEF DeleteMemory
<1> QED
  BY <1>1, <1>2, <1>3, <1>4, <1>5, <1>6 DEF Next

LEMMA RowInductive == Spec => []RowIInv
<1>1. RowIInv /\ [Next]_vars => RowIInv'
  <2> SUFFICES ASSUME RowIInv, [Next]_vars PROVE RowIInv'
    OBVIOUS
  <2>1. CASE Next
    BY <2>1, RowTypeStep, RowStep, HistoryStep DEF RowIInv
  <2>2. CASE UNCHANGED vars
    BY <2>2 DEF vars, RowIInv, TypeOK, VectorFollowsContent, SeenIsSound, Sound, EditsSurvive,
         DeletedStaysDeleted
  <2> QED
    BY <2>1, <2>2
<1> QED
  BY <1>1, InitRow, PTL DEF Spec

(* Types, for any clients and contents.                                     *)
THEOREM RowTypeCorrect == Spec => []TypeOK
<1>1. RowIInv => TypeOK
  BY DEF RowIInv
<1> QED
  BY <1>1, RowInductive, PTL

(* Whatever edits, stamps and deletions overlap, hash and embedding are the *)
(* content's unless an edit of other fields wrote an old content back.      *)
THEOREM VectorFollowsContentTheorem == Spec => []VectorFollowsContent
<1>1. RowIInv => VectorFollowsContent
  BY DEF RowIInv
<1> QED
  BY <1>1, RowInductive, PTL

(* Where no stamp undoes an edit, the row says what the last edit asked for.*)
THEOREM EditsSurviveTheorem == Spec => []EditsSurvive
<1>1. RowIInv => EditsSurvive
  BY DEF RowIInv
<1> QED
  BY <1>1, RowInductive, PTL

(* No edit revives a deleted row.                                           *)
THEOREM DeletedStaysDeletedTheorem == Spec => []DeletedStaysDeleted
<1>1. RowIInv => DeletedStaysDeleted
  BY DEF RowIInv
<1> QED
  BY <1>1, RowInductive, PTL

-----------------------------------------------------------------------------
(***************************************************************************)
(* Changes of an account that do not overlap add up, for any clerks,       *)
(* accounts and contents.  The inductive invariant: a name that no two     *)
(* changes crossed at has one clerk at most who is about to write, and     *)
(* what that clerk holds is the row as it still is.                        *)
(***************************************************************************)

UserTyped == DOMAIN clerk = Clerks /\ DOMAIN users = Accounts /\ DOMAIN meant = Accounts

Writes(c, u) == clerk[c].at = "write" /\ clerk[c].name = u

HoldsTheRow(c, u) ==
  Writes(c, u) => /\ clerk[c].row = users[u]
                  /\ clerk[c].op \in {"update", "passwd"} => clerk[c].row # NoUser

OneWriter(u) == \A c, d \in Clerks : Writes(c, u) /\ Writes(d, u) => c = d

Orderly(u) == users[u] = meant[u] /\ OneWriter(u) /\ \A c \in Clerks : HoldsTheRow(c, u)

UserIInv == UserTyped /\ \A u \in Accounts \ crossed : Orderly(u)

-----------------------------------------------------------------------------

LEMMA InitUser == UserInit => UserIInv
<1> SUFFICES ASSUME UserInit PROVE UserIInv
  OBVIOUS
<1>1. UserTyped /\ \A u \in Accounts : users[u] = meant[u]
  BY DEF UserInit, UserTyped
<1>2. ASSUME NEW c \in Clerks, NEW u PROVE ~Writes(c, u)
  BY DEF UserInit, Writes, Rest
<1> QED
  BY <1>1, <1>2 DEF UserIInv, Orderly, OneWriter, HoldsTheRow

(* A clerk who writes is one of those Busy finds.                           *)
LEMMA WriterIsBusy ==
  ASSUME NEW c \in Clerks, NEW u, Writes(c, u)
  PROVE  c \in Busy(u)
  BY DEF Writes, Busy, Rest

(* A step after which c writes nothing and the table is as it was.          *)
LEMMA QuietInv ==
  ASSUME UserIInv, NEW c \in Clerks, NEW r, clerk' = [clerk EXCEPT ![c] = r], r.at # "write",
         UNCHANGED <<users, meant, crossed>>
  PROVE  UserIInv'
<1>1. UserTyped'
  BY DEF UserIInv, UserTyped
<1>2. ASSUME NEW d \in Clerks, NEW u
      PROVE  Writes(d, u)' => Writes(d, u) /\ clerk'[d] = clerk[d]
  BY DEF UserIInv, UserTyped, Writes
<1>3. ASSUME NEW u \in Accounts, u \notin crossed PROVE Orderly(u)'
  <2>1. Orderly(u)
    BY <1>3 DEF UserIInv
  <2> QED
    BY <1>2, <2>1 DEF Orderly, OneWriter, HoldsTheRow
<1> QED
  BY <1>1, <1>3 DEF UserIInv

(* A second reader of a row that somebody is about to write crosses.        *)
LEMMA ReadInv ==
  ASSUME UserIInv, NEW c \in Clerks, NEW oper, NEW acc \in Accounts, ReadUser(c, oper, acc)
  PROVE  UserIInv'
<1>1. CASE ~Allowed(c, oper, acc)
  BY <1>1, QuietInv DEF ReadUser, Rest
<1>2. CASE Allowed(c, oper, acc)
  <2> DEFINE r == [at |-> "write", op |-> oper, name |-> acc, row |-> users[acc]]
  <2>1. /\ clerk' = [clerk EXCEPT ![c] = r]
        /\ crossed' = IF Busy(acc) = {} THEN crossed ELSE crossed \cup {acc}
        /\ UNCHANGED <<users, meant>>
    BY <1>2 DEF ReadUser
  <2>2. UserTyped'
    BY <2>1 DEF UserIInv, UserTyped
  <2>3. ASSUME NEW d \in Clerks PROVE clerk'[d] = IF d = c THEN r ELSE clerk[d]
    BY <2>1 DEF UserIInv, UserTyped
  <2>4. oper \in {"update", "passwd"} => users[acc] # NoUser
    BY <1>2 DEF Allowed
  <2>5. ASSUME NEW u \in Accounts, u \notin crossed' PROVE Orderly(u)'
    <3>1. Orderly(u)
      BY <2>1, <2>5 DEF UserIInv
    <3>2. CASE u = acc
      <4>1. \A d \in Clerks : ~Writes(d, u)
        BY <2>1, <2>5, <3>2, WriterIsBusy
      <4>2. \A d \in Clerks : Writes(d, u)' => d = c
        BY <2>3, <4>1 DEF Writes
      <4>3. HoldsTheRow(c, u)'
        BY <2>1, <2>3, <2>4, <3>2 DEF HoldsTheRow
      <4> QED
        BY <2>1, <3>1, <4>2, <4>3 DEF Orderly, OneWriter, HoldsTheRow
    <3>3. CASE u # acc
      <4>1. \A d \in Clerks : Writes(d, u)' => Writes(d, u) /\ clerk'[d] = clerk[d]
        BY <2>3, <3>3 DEF Writes
      <4> QED
        BY <2>1, <3>1, <4>1 DEF Orderly, OneWriter, HoldsTheRow
    <3> QED
      BY <3>2, <3>3
  <2> QED
    BY <2>2, <2>5 DEF UserIInv
<1> QED
  BY <1>1, <1>2

(* The only writer of a row leaves it as it was meant to be.                *)
LEMMA FinishInv ==
  ASSUME UserIInv, NEW c \in Clerks, NEW acc, NEW written, NEW intended,
         Writes(c, acc), Finish(c, acc, written, intended),
         acc \in Accounts \ crossed => written = intended
  PROVE  UserIInv'
<1> USE DEF Finish
<1>1. UserTyped'
  BY DEF UserIInv, UserTyped
<1>2. ASSUME NEW d \in Clerks PROVE clerk'[d] = IF d = c THEN Rest ELSE clerk[d]
  BY DEF UserIInv, UserTyped
<1>3. ASSUME NEW u \in Accounts, u \notin crossed PROVE Orderly(u)'
  <2>1. Orderly(u)
    BY <1>3 DEF UserIInv
  <2>2. \A d \in Clerks : Writes(d, u)' => Writes(d, u) /\ clerk'[d] = clerk[d] /\ d # c
    BY <1>2 DEF Writes, Rest
  <2>3. CASE u = acc
    <3>1. users'[u] = meant'[u]
      BY <1>3, <2>3 DEF UserIInv, UserTyped
    <3>2. \A d \in Clerks : ~Writes(d, u)'
      BY <2>1, <2>2, <2>3 DEF Orderly, OneWriter
    <3> QED
      BY <3>1, <3>2 DEF Orderly, OneWriter, HoldsTheRow
  <2>4. CASE u # acc
    <3>1. users'[u] = users[u] /\ meant'[u] = meant[u]
      BY <2>4 DEF UserIInv, UserTyped
    <3> QED
      BY <2>1, <2>2, <3>1 DEF Orderly, OneWriter, HoldsTheRow
  <2> QED
    BY <2>3, <2>4
<1> QED
  BY <1>1, <1>3 DEF UserIInv

(* What a patch writes over the row it has read is what it means.           *)
LEMMA PatchedInv ==
  ASSUME UserIInv, NEW c \in Clerks, NEW patch, PutPatched(c, patch)
  PROVE  UserIInv'
<1> DEFINE u == clerk[c].name
           named(f, new) == IF f \in patch.fields THEN new ELSE meant[u][f]
           intended == IF meant[u] = NoUser THEN NoUser
                       ELSE [hash |-> named("hash", patch.hash), ws |-> named("ws", patch.ws),
                             admin |-> named("admin", patch.admin)]
<1>1. /\ Writes(c, u) /\ clerk[c].op \in {"update", "passwd"}
      /\ Finish(c, u, Patched(clerk[c].row, patch), intended)
  BY DEF PutPatched, Writes
<1>2. ASSUME u \in Accounts \ crossed PROVE Patched(clerk[c].row, patch) = intended
  <2>1. clerk[c].row = meant[u] /\ meant[u] # NoUser
    BY <1>1, <1>2 DEF UserIInv, Orderly, HoldsTheRow
  <2> QED
    BY <2>1 DEF Patched
<1> QED
  BY <1>1, <1>2, FinishInv

LEMMA NextUser == UserIInv /\ [UserNext]_userVars => UserIInv'
<1> SUFFICES ASSUME UserIInv, [UserNext]_userVars PROVE UserIInv'
  OBVIOUS
<1>1. ASSUME NEW c \in Clerks, NEW u \in Accounts, Authenticate(c, u) PROVE UserIInv'
  <2> DEFINE r == [at |-> "caller", caller |-> u]
  <2>1. clerk' = [clerk EXCEPT ![c] = r] /\ UNCHANGED <<users, meant, crossed>>
    BY <1>1 DEF Authenticate
  <2>2. r.at # "write"
    OBVIOUS
  <2> QED
    BY <2>1, <2>2, QuietInv
<1>2. ASSUME NEW c \in Clerks, Command(c) PROVE UserIInv'
  <2> DEFINE r == [at |-> "caller", caller |-> NoUser]
  <2>1. clerk' = [clerk EXCEPT ![c] = r] /\ UNCHANGED <<users, meant, crossed>>
    BY <1>2 DEF Command
  <2>2. r.at # "write"
    OBVIOUS
  <2> QED
    BY <2>1, <2>2, QuietInv
<1>3. ASSUME NEW c \in Clerks, NEW account \in UserRow, PutNew(c, account) PROVE UserIInv'
  BY <1>3, FinishInv DEF PutNew, Writes
<1>6. ASSUME NEW c \in Clerks, Anonymous(c) PROVE UserIInv'
  <2> DEFINE r == [at |-> "caller", caller |-> Anyone]
  <2>1. clerk' = [clerk EXCEPT ![c] = r] /\ UNCHANGED <<users, meant, crossed>>
    BY <1>6 DEF Anonymous
  <2>2. r.at # "write"
    OBVIOUS
  <2> QED
    BY <2>1, <2>2, QuietInv
<1>7. ASSUME NEW c \in Clerks, UserFails(c) PROVE UserIInv'
  <2>1. clerk' = [clerk EXCEPT ![c] = Rest] /\ UNCHANGED <<users, meant, crossed>>
    BY <1>7 DEF UserFails
  <2>2. Rest.at # "write"
    BY DEF Rest
  <2> QED
    BY <2>1, <2>2, QuietInv
<1>4. ASSUME NEW c \in Clerks, DeleteUser(c) PROVE UserIInv'
  BY <1>4, FinishInv DEF DeleteUser, Writes
<1>5. CASE UNCHANGED userVars
  BY <1>5 DEF userVars, UserIInv, UserTyped, Orderly, OneWriter, HoldsTheRow, Writes
<1> QED
  BY <1>1, <1>2, <1>3, <1>4, <1>5, <1>6, <1>7, ReadInv, PatchedInv DEF UserNext

-----------------------------------------------------------------------------

(* An account that no two changes crossed at is what its changes add up to, *)
(* field by field, for any requests of api/crud.go and `ladym user`         *)
(* commands at once.                                                        *)
THEOREM ChangesAddUpTheorem == UserSpec => []ChangesAddUp
<1>1. UserIInv => ChangesAddUp
  BY DEF UserIInv, Orderly, ChangesAddUp
<1> QED
  BY InitUser, NextUser, <1>1, PTL DEF UserSpec

\* An account is a whole row or none: a clerk who is to patch one has read one.
UserRowsTyped ==
  /\ users \in [Accounts -> UserRow \cup {NoUser}] /\ crossed \subseteq Accounts
  /\ DOMAIN clerk = Clerks
  /\ \A c \in Clerks : clerk[c].at = "write" =>
       /\ clerk[c].name \in Accounts
       /\ clerk[c].op \in {"update", "passwd"} => clerk[c].row \in UserRow

LEMMA PatchedRow ==
  ASSUME NEW entry \in UserRow, NEW patch \in Patch
  PROVE  Patched(entry, patch) \in UserRow
BY DEF Patched, Patch, UserRow

\* A change that is finished leaves a row or none.
LEMMA FinishTyped ==
  ASSUME UserRowsTyped, NEW c \in Clerks, NEW entry \in UserRow \cup {NoUser}, NEW intended,
         clerk[c].at = "write", Finish(c, clerk[c].name, entry, intended)
  PROVE  UserRowsTyped'
<1>1. users' = [users EXCEPT ![clerk[c].name] = entry] /\ crossed' = crossed
      /\ clerk' = [clerk EXCEPT ![c] = Rest]
  BY DEF Finish
<1>2. \A d \in Clerks : clerk'[d].at = "write" => clerk'[d] = clerk[d]
  BY <1>1 DEF UserRowsTyped, Rest
<1>3. users' \in [Accounts -> UserRow \cup {NoUser}]
  BY <1>1 DEF UserRowsTyped
<1> QED
  BY <1>1, <1>2, <1>3 DEF UserRowsTyped

LEMMA NextUserTyped == UserRowsTyped /\ [UserNext]_userVars => UserRowsTyped'
<1> SUFFICES ASSUME UserRowsTyped, [UserNext]_userVars PROVE UserRowsTyped'
  OBVIOUS
<1>1. ASSUME NEW c \in Clerks, NEW r, clerk' = [clerk EXCEPT ![c] = r], r.at # "write",
             users' = users, crossed' = crossed
      PROVE  UserRowsTyped'
  <2>1. \A d \in Clerks : clerk'[d].at = "write" => clerk'[d] = clerk[d]
    BY <1>1 DEF UserRowsTyped
  <2> QED
    BY <1>1, <2>1 DEF UserRowsTyped
<1>2. ASSUME NEW c \in Clerks,
             (\E u \in Accounts : Authenticate(c, u)) \/ Command(c) \/ Anonymous(c)
      PROVE  UserRowsTyped'
  <2>1. PICK u : clerk' = [clerk EXCEPT ![c] = [at |-> "caller", caller |-> u]]
    BY <1>2 DEF Authenticate, Command, Anonymous
  <2>2. users' = users /\ crossed' = crossed
    BY <1>2 DEF Authenticate, Command, Anonymous
  <2>3. [at |-> "caller", caller |-> u].at # "write"
    OBVIOUS
  <2> QED
    BY <1>1, <2>1, <2>2, <2>3
<1>3. ASSUME NEW c \in Clerks, NEW u \in Accounts,
             NEW oper \in {"create", "update", "delete", "passwd", "add"}, ReadUser(c, oper, u)
      PROVE  UserRowsTyped'
  <2>1. CASE ~Allowed(c, oper, u)
    BY <1>1, <1>3, <2>1 DEF ReadUser, Rest
  <2>2. CASE Allowed(c, oper, u)
    <3> DEFINE r == [at |-> "write", op |-> oper, name |-> u, row |-> users[u]]
    <3>1. clerk' = [clerk EXCEPT ![c] = r] /\ users' = users /\ crossed' \subseteq crossed \cup {u}
      BY <1>3, <2>2 DEF ReadUser
    <3>2. oper \in {"update", "passwd"} => users[u] \in UserRow
      BY <2>2 DEF Allowed, UserRowsTyped
    <3>3. \A d \in Clerks : clerk'[d] = IF d = c THEN r ELSE clerk[d]
      BY <3>1 DEF UserRowsTyped
    <3> QED
      BY <3>1, <3>2, <3>3 DEF UserRowsTyped
  <2> QED
    BY <2>1, <2>2
<1>4. ASSUME NEW c \in Clerks, NEW entry \in UserRow, PutNew(c, entry) PROVE UserRowsTyped'
  BY <1>4, FinishTyped DEF PutNew
<1>5. ASSUME NEW c \in Clerks, NEW patch \in Patch, PutPatched(c, patch) PROVE UserRowsTyped'
  <2>1. clerk[c].row \in UserRow /\ clerk[c].at = "write"
    BY <1>5 DEF UserRowsTyped, PutPatched
  <2>2. PICK intended : Finish(c, clerk[c].name, Patched(clerk[c].row, patch), intended)
    BY <1>5 DEF PutPatched
  <2> QED
    BY <2>1, <2>2, PatchedRow, FinishTyped
<1>6. ASSUME NEW c \in Clerks, DeleteUser(c) PROVE UserRowsTyped'
  BY <1>6, FinishTyped DEF DeleteUser
<1>7. ASSUME NEW c \in Clerks, UserFails(c) PROVE UserRowsTyped'
  <2>1. clerk' = [clerk EXCEPT ![c] = Rest] /\ UNCHANGED <<users, meant, crossed>>
    BY <1>7 DEF UserFails
  <2>2. Rest.at # "write"
    BY DEF Rest
  <2> QED
    BY <1>1, <2>1, <2>2
<1>8. CASE UNCHANGED userVars
  BY <1>8 DEF userVars, UserRowsTyped
<1> QED
  BY <1>2, <1>3, <1>4, <1>5, <1>6, <1>7, <1>8 DEF UserNext

(* Accounts are whole rows, for any clerks and accounts.                    *)
THEOREM UserTypeCorrect == UserSpec => []UserTypeOK
<1>1. UserInit => UserRowsTyped
  <2> SUFFICES ASSUME UserInit PROVE UserRowsTyped
    OBVIOUS
  <2>1. users \in [Accounts -> UserRow \cup {NoUser}]
    BY DEF UserInit, UserRow
  <2> QED
    BY <2>1 DEF UserInit, UserRowsTyped, Rest
<1>2. UserRowsTyped => UserTypeOK
  BY DEF UserRowsTyped, UserTypeOK
<1> QED
  BY <1>1, <1>2, NextUserTyped, PTL DEF UserSpec

-----------------------------------------------------------------------------
(***************************************************************************)
(* Requests act in the workspace they were sent to or are bound to, for    *)
(* any requests, workspaces and memories.  The inductive invariant: what a *)
(* request will write to is settled when it is admitted, what it has       *)
(* checked stays checked, because a row never moves to another workspace   *)
(* and an id never names two rows, and the HTTP engine keeps its default.  *)
(***************************************************************************)

Actors == Requests \cup {MCP}
Space == Spaces \cup {NoSpace}

FrontTyped ==
  /\ rowSpace \in [RowIds -> Space] /\ namable \subseteq RowIds
  /\ default \in [Servers -> Spaces] /\ default["http"] = ConfiguredSpace
  /\ DOMAIN request = Actors
  /\ \A m \in RowIds \ namable : rowSpace[m] = NoSpace

RouteIsBound(t) == request[t].at = "route" => request[t].forced \in Space

PutIsAsked(t) == request[t].at = "put" => request[t].ws \in request[t].asked \cap Spaces

CheckedIsAsked(t) ==
  request[t].at = "check" =>
    /\ request[t].ids \subseteq namable
    /\ request[t].asked = IF request[t].forced = NoSpace THEN Anywhere ELSE {request[t].forced}
    /\ \A m \in request[t].ids \ request[t].todo : rowSpace[m] \in request[t].asked \cup {NoSpace}

Bound(t) == RouteIsBound(t) /\ PutIsAsked(t) /\ CheckedIsAsked(t)

FrontIInv == FrontTyped /\ \A t \in Actors : Bound(t)

-----------------------------------------------------------------------------

LEMMA InitFront == FrontInit => FrontIInv
<1> SUFFICES ASSUME FrontInit PROVE FrontIInv
  OBVIOUS
<1>1. FrontTyped
  BY FrontAssumption DEF FrontInit, FrontTyped, Actors, Space, Servers
<1>2. ASSUME NEW t \in Actors PROVE Bound(t)
  BY DEF FrontInit, NoRequest, Bound, RouteIsBound, PutIsAsked, CheckedIsAsked, Actors
<1> QED
  BY <1>1, <1>2 DEF FrontIInv

(* A step of a: rows that are there stay where they are or go.              *)
LEMMA StepInv ==
  ASSUME FrontIInv, NEW a \in Actors, NEW r, Step(a, r), FrontTyped', Bound(a)',
         namable \subseteq namable', \A m \in namable : rowSpace'[m] \in {rowSpace[m], NoSpace}
  PROVE  FrontIInv'
<1>1. ASSUME NEW t \in Actors, t # a PROVE Bound(t)'
  <2>1. request'[t] = request[t]
    BY <1>1 DEF Step, FrontIInv, FrontTyped
  <2>2. Bound(t)
    BY DEF FrontIInv
  <2> QED
    BY <2>1, <2>2 DEF Bound, RouteIsBound, PutIsAsked, CheckedIsAsked
<1> QED
  BY <1>1 DEF FrontIInv

(* Such a step that leaves the rows alone.                                  *)
LEMMA RestInv ==
  ASSUME FrontIInv, NEW a \in Actors, NEW r, Step(a, r),
         UNCHANGED <<rowSpace, namable>>,
         default' \in [Servers -> Spaces], default'["http"] = ConfiguredSpace, Bound(a)'
  PROVE  FrontIInv'
<1>1. FrontTyped'
  BY DEF Step, FrontIInv, FrontTyped
<1>2. \A m \in namable : rowSpace'[m] \in {rowSpace[m], NoSpace}
  OBVIOUS
<1> QED
  BY <1>1, <1>2, StepInv

(* Whose turn it is.                                                        *)
LEMMA NewRequest ==
  ASSUME FrontIInv, NEW a \in Actors, NEW r, Step(a, r)
  PROVE  request'[a] = r /\ \A t \in Actors : t # a => request'[t] = request[t]
  BY DEF Step, FrontIInv, FrontTyped

-----------------------------------------------------------------------------

(* A request is over, or comes to its route.                                *)
LEMMA EndInv ==
  ASSUME FrontIInv, NEW a \in Actors, End(a), FrontRest(a)
  PROVE  FrontIInv'
<1>1. Step(a, NoRequest)
  BY DEF End
<1>2. Bound(a)'
  BY <1>1, NewRequest DEF NoRequest, Bound, RouteIsBound, PutIsAsked, CheckedIsAsked
<1> QED
  BY <1>1, <1>2, RestInv DEF FrontRest, FrontIInv, FrontTyped

LEMMA RouteInv ==
  ASSUME FrontIInv, NEW a \in Actors, NEW f \in Space,
         Step(a, [at |-> "route", forced |-> f]), FrontRest(a)
  PROVE  FrontIInv'
<1> DEFINE r == [at |-> "route", forced |-> f]
<1>1. request'[a] = r
  BY NewRequest
<1>2. Bound(a)'
  BY <1>1 DEF Bound, RouteIsBound, PutIsAsked, CheckedIsAsked
<1> QED
  BY <1>2, RestInv DEF FrontRest, FrontIInv, FrontTyped

LEMMA AuthInv ==
  ASSUME FrontIInv, NEW a \in Requests,
         (\E account \in AccountRows : AuthenticateRequest(a, account)) \/ WithoutAuth(a)
  PROVE  FrontIInv'
<1>1. CASE WithoutAuth(a)
  BY <1>1, RouteInv DEF WithoutAuth, Space, Actors
<1>2. ASSUME NEW account \in AccountRows, AuthenticateRequest(a, account) PROVE FrontIInv'
  <2>1. default["http"] \in Space
    BY DEF FrontIInv, FrontTyped, Servers, Space
  <2>2. (IF account.admin THEN NoSpace ELSE Or(account.ws, default["http"])) \in Space
    BY <2>1 DEF AccountRows, Or, Space
  <2> QED
    BY <1>2, <2>2, RouteInv DEF AuthenticateRequest, Actors
<1> QED
  BY <1>1, <1>2

(* A request that will write is admitted to the workspace it asks for.      *)
LEMMA PutInv ==
  ASSUME FrontIInv, NEW a \in Actors, NEW w, NEW spaces, NEW n,
         Step(a, [at |-> "put", ws |-> w, asked |-> spaces, left |-> n]),
         w \in spaces \cap Spaces, UNCHANGED <<rowSpace, namable>>,
         default' \in [Servers -> Spaces], default'["http"] = ConfiguredSpace
  PROVE  FrontIInv'
<1> DEFINE r == [at |-> "put", ws |-> w, asked |-> spaces, left |-> n]
<1>1. request'[a] = r
  BY NewRequest
<1>2. Bound(a)'
  BY <1>1 DEF Bound, RouteIsBound, PutIsAsked, CheckedIsAsked
<1> QED
  BY <1>2, RestInv

LEMMA AdmitInv ==
  ASSUME FrontIInv, NEW a \in Requests, NEW body \in Space, NEW n, Admit(a, body, n)
  PROVE  FrontIInv'
<1>1. default["http"] = ConfiguredSpace /\ default \in [Servers -> Spaces]
  BY DEF FrontIInv, FrontTyped
<1>2. request[a].forced \in Space
  BY DEF Admit, FrontIInv, Bound, RouteIsBound, Actors
<1>3. Or(EffectiveWS(a, body), default["http"]) \in Asked(request[a].forced, body) \cap Spaces
  BY <1>1, <1>2, FrontAssumption DEF Or, EffectiveWS, Asked, Space
<1> QED
  BY <1>1, <1>3, PutInv DEF Admit, FrontRest, Actors

LEMMA ToolInv ==
  ASSUME FrontIInv, NEW ws \in Space, ToolWrite(ws) \/ ToolPass(ws)
  PROVE  FrontIInv'
<1> DEFINE w == Or(ws, default[MCP])
           spaces == IF ws = NoSpace THEN Anywhere ELSE {ws}
<1>1. default \in [Servers -> Spaces] /\ default["http"] = ConfiguredSpace
      /\ MCP \in Servers /\ MCP \in Actors
  BY DEF FrontIInv, FrontTyped, Servers, Actors
<1>2. w \in spaces \cap Spaces
  BY <1>1 DEF Or, Space, Anywhere
<1>3. CASE ToolWrite(ws)
  <2>1. default' = [default EXCEPT ![MCP] = w] /\ UNCHANGED <<rowSpace, namable>>
    BY <1>3 DEF ToolWrite
  <2>2. default'[MCP] = w /\ default' \in [Servers -> Spaces] /\ default'["http"] = ConfiguredSpace
    BY <1>1, <1>2, <2>1, FrontAssumption
  <2>3. Step(MCP, [at |-> "put", ws |-> w, asked |-> spaces, left |-> Cardinality(RowIds)])
    BY <1>3, <2>2 DEF ToolWrite
  <2> QED
    BY <1>1, <1>2, <2>1, <2>2, <2>3, PutInv
<1>4. CASE ToolPass(ws)
  <2>1. Step(MCP, [at |-> "put", ws |-> w, asked |-> spaces, left |-> Cardinality(RowIds)])
        /\ FrontRest(MCP)
    BY <1>4 DEF ToolPass
  <2> QED
    BY <1>1, <1>2, <2>1, PutInv DEF FrontRest
<1> QED
  BY <1>3, <1>4

(* A new row has an id that nobody holds.                                   *)
LEMMA PutRowInv ==
  ASSUME FrontIInv, NEW a \in Actors, NEW m \in RowIds, PutRow(a, m)
  PROVE  FrontIInv'
<1> DEFINE r == [request[a] EXCEPT !.left = @ - 1]
<1>1. request'[a] = r /\ Step(a, r)
  BY NewRequest DEF PutRow
<1>2. r.at = "put" /\ r.ws = request[a].ws /\ r.asked = request[a].asked
  BY DEF PutRow
<1>3. PutIsAsked(a)
  BY DEF FrontIInv, Bound
<1>4. Bound(a)'
  BY <1>1, <1>2, <1>3 DEF PutRow, Bound, RouteIsBound, PutIsAsked, CheckedIsAsked
<1>5. FrontTyped'
  <2>1. request[a].ws \in Spaces
    BY <1>3 DEF PutRow, PutIsAsked
  <2>2. rowSpace' \in [RowIds -> Space] /\ namable' \subseteq RowIds
    BY <2>1 DEF PutRow, FrontIInv, FrontTyped, Space
  <2>3. \A k \in RowIds \ namable' : rowSpace'[k] = NoSpace
    BY DEF PutRow, FrontIInv, FrontTyped
  <2> QED
    BY <2>2, <2>3 DEF PutRow, Step, FrontIInv, FrontTyped
<1>6. namable \subseteq namable' /\ \A k \in namable : rowSpace'[k] \in {rowSpace[k], NoSpace}
  BY DEF PutRow, FrontIInv, FrontTyped
<1> QED
  BY <1>1, <1>4, <1>5, <1>6, StepInv

(* Nothing is checked when a request has named its ids.                     *)
LEMMA HandleInv ==
  ASSUME FrontIInv, NEW a \in Requests, NEW S \in Named, NEW oper, HandleById(a, oper, S)
  PROVE  FrontIInv'
<1> DEFINE r == [at |-> "check", op |-> oper, ids |-> S, todo |-> ToCheck(S),
                 forced |-> request[a].forced,
                 asked |-> IF request[a].forced = NoSpace THEN Anywhere ELSE {request[a].forced}]
<1>1. a \in Actors
  BY DEF Actors
<1>2. CASE End(a)
  BY <1>1, <1>2, EndInv DEF HandleById
<1>3. CASE Step(a, r)
  <2>1. request'[a] = r
    BY <1>1, <1>3, NewRequest
  <2>2. S \subseteq namable' /\ ToCheck(S) = S
    BY DEF Named, HandleById, FrontRest, ToCheck
  <2>3. Bound(a)'
    BY <2>1, <2>2 DEF Bound, RouteIsBound, PutIsAsked, CheckedIsAsked
  <2> QED
    BY <1>1, <1>3, <2>3, RestInv DEF HandleById, FrontRest, FrontIInv, FrontTyped
<1> QED
  BY <1>2, <1>3 DEF HandleById

(* An id that passes the check is of a workspace the request may touch.     *)
LEMMA EnforceInv ==
  ASSUME FrontIInv, NEW a \in Requests, NEW m \in RowIds, EnforceMemoryWorkspace(a, m)
  PROVE  FrontIInv'
<1> DEFINE r == [request[a] EXCEPT !.todo = @ \ {m}]
<1>1. a \in Actors
  BY DEF Actors
<1>2. CASE ~MayTouch(a, m)
  BY <1>1, <1>2, EndInv DEF EnforceMemoryWorkspace
<1>3. CASE MayTouch(a, m)
  <2>1. Step(a, r) /\ request'[a] = r /\ request[a].at = "check" /\ FrontRest(a)
    BY <1>1, <1>3, NewRequest DEF EnforceMemoryWorkspace
  <2>2. /\ r.at = request[a].at /\ r.ids = request[a].ids /\ r.asked = request[a].asked
        /\ r.forced = request[a].forced
        /\ \A k \in r.ids \ r.todo : k = m \/ k \in request[a].ids \ request[a].todo
    OBVIOUS
  <2>3. CheckedIsAsked(a) /\ rowSpace[m] \in Space
    BY <1>1 DEF FrontIInv, Bound, FrontTyped
  <2>4. rowSpace[m] \in request[a].asked \cup {NoSpace}
    BY <1>3, <2>1, <2>3 DEF MayTouch, CheckedIsAsked, Anywhere, Space
  <2>5. Bound(a)'
    BY <2>1, <2>2, <2>3, <2>4 DEF Bound, RouteIsBound, PutIsAsked, CheckedIsAsked, FrontRest
  <2> QED
    BY <1>1, <2>1, <2>5, RestInv DEF FrontRest, FrontIInv, FrontTyped
<1> QED
  BY <1>2, <1>3

(* Rows that go, by whatever request.                                       *)
LEMMA WithoutRows ==
  ASSUME FrontIInv, NEW ids \in SUBSET RowIds, rowSpace' = Without(ids), UNCHANGED <<namable, default>>,
         DOMAIN request' = Actors
  PROVE  FrontTyped' /\ \A m \in RowIds : rowSpace'[m] \in {rowSpace[m], NoSpace}
<1>1. /\ rowSpace' \in [RowIds -> Space]
      /\ \A m \in RowIds : rowSpace'[m] \in {rowSpace[m], NoSpace}
  BY DEF Without, FrontIInv, FrontTyped, Space
<1> QED
  BY <1>1 DEF FrontIInv, FrontTyped

LEMMA ForgetInv ==
  ASSUME FrontIInv, NEW a \in Requests, Forget(a)
  PROVE  FrontIInv'
<1>1. a \in Actors /\ Step(a, NoRequest)
  BY DEF Actors, Forget, End
<1>2. request[a].ids \subseteq RowIds
  BY <1>1 DEF FrontIInv, Bound, CheckedIsAsked, Forget, FrontTyped
<1>3. FrontTyped' /\ \A m \in RowIds : rowSpace'[m] \in {rowSpace[m], NoSpace}
  BY <1>1, <1>2, WithoutRows DEF Forget, Step, FrontIInv, FrontTyped
<1>4. Bound(a)'
  BY <1>1, NewRequest DEF NoRequest, Bound, RouteIsBound, PutIsAsked, CheckedIsAsked
<1> QED
  BY <1>1, <1>3, <1>4, StepInv DEF Forget, FrontIInv, FrontTyped

LEMMA LinkInv ==
  ASSUME FrontIInv, NEW a \in Requests, HandleLink(a)
  PROVE  FrontIInv'
<1>1. a \in Actors /\ Step(a, NoRequest)
  BY DEF Actors, HandleLink, End
<1>2. Bound(a)'
  BY <1>1, NewRequest DEF NoRequest, Bound, RouteIsBound, PutIsAsked, CheckedIsAsked
<1> QED
  BY <1>1, <1>2, RestInv DEF HandleLink, FrontIInv, FrontTyped

LEMMA ToolByIdInv ==
  ASSUME FrontIInv, NEW S \in Named, ToolById(S)
  PROVE  FrontIInv'
<1>1. S \in SUBSET RowIds /\ UNCHANGED <<namable, default, request>>
  BY DEF Named, ToolById, FrontIInv, FrontTyped
<1>2. FrontTyped' /\ \A m \in RowIds : rowSpace'[m] \in {rowSpace[m], NoSpace}
  <2>1. CASE UNCHANGED rowSpace
    BY <1>1, <2>1 DEF FrontIInv, FrontTyped
  <2>2. CASE rowSpace' = Without(S)
    BY <1>1, <2>2, WithoutRows DEF FrontIInv, FrontTyped
  <2> QED
    BY <2>1, <2>2 DEF ToolById
<1>3. ASSUME NEW t \in Actors PROVE Bound(t)'
  <2>1. Bound(t) /\ namable \subseteq RowIds
    BY DEF FrontIInv, FrontTyped
  <2> QED
    BY <1>1, <1>2, <2>1 DEF Bound, RouteIsBound, PutIsAsked, CheckedIsAsked
<1> QED
  BY <1>2, <1>3 DEF FrontIInv

(* A request is one of those of HTTP, or the server's.                      *)
LEMMA NextFront == FrontIInv /\ [FrontNext]_frontVars => FrontIInv'
<1> SUFFICES ASSUME FrontIInv, [FrontNext]_frontVars PROVE FrontIInv'
  OBVIOUS
<1>1. ASSUME NEW t \in Requests,
             (\E account \in AccountRows : AuthenticateRequest(t, account)) \/ WithoutAuth(t)
      PROVE  FrontIInv'
  BY <1>1, AuthInv
<1>2. ASSUME NEW t \in Requests, NEW body \in Spaces \cup {NoSpace},
             HandleRemember(t, body) \/ HandleRecordOperation(t, body) \/ HandlePass(t, body)
      PROVE  FrontIInv'
  BY <1>2, AdmitInv DEF HandleRemember, HandleRecordOperation, HandlePass, Space
<1>3. ASSUME NEW t \in Requests, NEW S \in Named, NEW oper \in OpOf(S), HandleById(t, oper, S)
      PROVE  FrontIInv'
  BY <1>3, HandleInv
<1>4. ASSUME NEW t \in Requests, NEW m \in RowIds, EnforceMemoryWorkspace(t, m) PROVE FrontIInv'
  BY <1>4, EnforceInv
<1>5. ASSUME NEW t \in Requests, Forget(t) \/ HandleLink(t) PROVE FrontIInv'
  BY <1>5, ForgetInv, LinkInv
<1>6. ASSUME NEW t \in Actors, EndOfWrite(t) PROVE FrontIInv'
  BY <1>6, EndInv DEF EndOfWrite
<1>7. ASSUME NEW t \in Actors, NEW m \in RowIds, PutRow(t, m) PROVE FrontIInv'
  BY <1>7, PutRowInv
<1>8. ASSUME NEW ws \in Spaces \cup {NoSpace}, ToolWrite(ws) \/ ToolPass(ws) PROVE FrontIInv'
  BY <1>8, ToolInv DEF Space
<1>9. ASSUME NEW S \in Named, ToolById(S) PROVE FrontIInv'
  BY <1>9, ToolByIdInv
<1>10. CASE UNCHANGED frontVars
  BY <1>10 DEF frontVars, FrontIInv, FrontTyped, Bound, RouteIsBound, PutIsAsked, CheckedIsAsked
<1> QED
  BY <1>1, <1>2, <1>3, <1>4, <1>5, <1>6, <1>7, <1>8, <1>9, <1>10 DEF FrontNext, Actors

-----------------------------------------------------------------------------
(* What a step touches.                                                    *)

Touches(t) ==
  request[t].at \in {"put", "check"} /\ request'[t] # request[t]
    => TouchedSpaces \subseteq request[t].asked \cup {NoSpace}

(* A step is one request's, and one that is not yet at its act touches      *)
(* nothing that was there.                                                  *)
LEMMA OwnTouch ==
  ASSUME FrontIInv, NEW a \in Actors, NEW r, Step(a, r), Touches(a)
  PROVE  \A t \in Actors : Touches(t)
BY NewRequest DEF Touches

LEMMA RestTouch ==
  ASSUME NEW a, FrontRest(a), NEW t \in Actors
  PROVE  Touches(t)
<1>1. TouchedSpaces = {}
  BY DEF FrontRest, TouchedSpaces
<1> QED
  BY <1>1 DEF Touches

LEMMA PutRowTouch ==
  ASSUME FrontIInv, NEW a \in Actors, NEW m \in RowIds, PutRow(a, m)
  PROVE  \A t \in Actors : Touches(t)
<1>1. request[a].ws \in request[a].asked
  BY DEF FrontIInv, Bound, PutIsAsked, PutRow
<1>2. rowSpace[m] = NoSpace /\ rowSpace'[m] = request[a].ws
      /\ \A k \in RowIds : k # m => rowSpace'[k] = rowSpace[k]
  BY DEF PutRow, FrontIInv, FrontTyped
<1>3. TouchedSpaces \subseteq {rowSpace[m], rowSpace'[m]}
  BY <1>2 DEF TouchedSpaces, PutRow
<1>4. Touches(a)
  BY <1>1, <1>2, <1>3 DEF Touches
<1> QED
  BY <1>4, OwnTouch DEF PutRow

LEMMA ForgetTouch ==
  ASSUME FrontIInv, NEW a \in Requests, Forget(a)
  PROVE  \A t \in Actors : Touches(t)
<1>1. a \in Actors /\ Step(a, NoRequest)
  BY DEF Actors, Forget, End
<1>2. request[a].ids \subseteq RowIds
      /\ \A m \in request[a].ids : rowSpace[m] \in request[a].asked \cup {NoSpace}
  BY <1>1 DEF FrontIInv, Bound, CheckedIsAsked, Forget, FrontTyped
<1>3. links' \subseteq links
  BY DEF Forget, Unlinked
<1>4. ASSUME NEW m \in RowIds, rowSpace'[m] # rowSpace[m]
      PROVE  {rowSpace[m], rowSpace'[m]} \subseteq request[a].asked \cup {NoSpace}
  BY <1>2, <1>4 DEF Forget, Without
<1>5. Touches(a)
  BY <1>3, <1>4 DEF Touches, TouchedSpaces
<1> QED
  BY <1>1, <1>5, OwnTouch

LEMMA LinkTouch ==
  ASSUME FrontIInv, NEW a \in Requests, HandleLink(a)
  PROVE  \A t \in Actors : Touches(t)
<1>1. a \in Actors /\ Step(a, NoRequest)
  BY DEF Actors, HandleLink, End
<1>2. \A m \in request[a].ids : rowSpace[m] \in request[a].asked \cup {NoSpace}
  BY <1>1 DEF FrontIInv, Bound, CheckedIsAsked, HandleLink, FrontTyped
<1>3. UNION (links' \ links) \subseteq request[a].ids
  BY DEF HandleLink, LinksWith
<1>4. Touches(a)
  BY <1>2, <1>3 DEF Touches, TouchedSpaces, HandleLink
<1> QED
  BY <1>1, <1>4, OwnTouch

LEMMA NextTouches == FrontIInv /\ FrontNext => \A t \in Actors : Touches(t)
<1> SUFFICES ASSUME FrontIInv, FrontNext PROVE \A t \in Actors : Touches(t)
  OBVIOUS
<1>1. ASSUME NEW a \in Actors, FrontRest(a) PROVE \A t \in Actors : Touches(t)
  BY <1>1, RestTouch
<1>2. ASSUME NEW t \in Requests,
             \/ \E account \in AccountRows : AuthenticateRequest(t, account)
             \/ WithoutAuth(t)
             \/ \E body \in Spaces \cup {NoSpace} : \/ HandleRemember(t, body)
                                                  \/ HandleRecordOperation(t, body)
                                                  \/ HandlePass(t, body)
             \/ \E S \in Named : \E oper \in OpOf(S) : HandleById(t, oper, S)
             \/ \E m \in RowIds : EnforceMemoryWorkspace(t, m)
      PROVE  \A u \in Actors : Touches(u)
  BY <1>1, <1>2 DEF AuthenticateRequest, WithoutAuth, HandleRemember, HandleRecordOperation,
     HandlePass, Admit, HandleById, EnforceMemoryWorkspace, Actors
<1>3. ASSUME NEW t \in Requests, Forget(t) \/ HandleLink(t) PROVE \A u \in Actors : Touches(u)
  BY <1>3, ForgetTouch, LinkTouch
<1>4. ASSUME NEW t \in Actors, EndOfWrite(t) PROVE \A u \in Actors : Touches(u)
  BY <1>1, <1>4 DEF EndOfWrite
<1>5. ASSUME NEW t \in Actors, NEW m \in RowIds, PutRow(t, m) PROVE \A u \in Actors : Touches(u)
  BY <1>5, PutRowTouch
<1>6. ASSUME NEW ws \in Spaces \cup {NoSpace}, ToolPass(ws) PROVE \A u \in Actors : Touches(u)
  BY <1>1, <1>6 DEF ToolPass, Actors
<1>7. ASSUME NEW ws \in Spaces \cup {NoSpace}, ToolWrite(ws) PROVE \A u \in Actors : Touches(u)
  <2>1. TouchedSpaces = {}
    BY <1>7 DEF ToolWrite, TouchedSpaces
  <2> QED
    BY <2>1 DEF Touches
<1>8. ASSUME NEW S \in Named, ToolById(S) PROVE \A u \in Actors : Touches(u)
  BY <1>8 DEF ToolById, Touches
<1> QED
  BY <1>2, <1>3, <1>4, <1>5, <1>6, <1>7, <1>8 DEF FrontNext, Actors

(* A step changes only rows and edges of the workspace that its request was *)
(* sent to or that its account is bound to (api/api.go, withAuth, Scope and *)
(* enforceMemoryWorkspace; mcp/server.go, the sticky workspace), for any    *)
(* number of requests, workspaces and memories, whatever runs beside it     *)
(* between the check of the ids and the act.                                *)
THEOREM ActsWhereAskedTheorem == FrontSpec => ActsWhereAsked
<1>1. FrontIInv /\ [FrontNext]_frontVars =>
        [\A t \in Requests \cup {MCP} :
           request[t].at \in {"put", "check"} /\ request'[t] # request[t]
             => TouchedSpaces \subseteq request[t].asked \cup {NoSpace}]_frontVars
  BY NextTouches DEF Touches, Actors
<1> QED
  BY InitFront, NextFront, <1>1, PTL DEF FrontSpec, ActsWhereAsked

\* An edge is of ids that were handed out.
LinksTyped == links \subseteq SUBSET namable

LEMMA NextLinks == FrontIInv /\ LinksTyped /\ [FrontNext]_frontVars => LinksTyped'
<1> SUFFICES ASSUME FrontIInv, LinksTyped, [FrontNext]_frontVars PROVE LinksTyped'
  OBVIOUS
<1> USE DEF LinksTyped
<1>1. ASSUME UNCHANGED <<links, namable>> PROVE LinksTyped'
  BY <1>1
<1>2. ASSUME NEW S \in SUBSET namable, links' \in {LinksWith(S), Unlinked(S), links}, namable' = namable
      PROVE  LinksTyped'
  BY <1>2 DEF LinksWith, Unlinked
<1>3. ASSUME NEW t \in Requests, Forget(t) \/ HandleLink(t) PROVE LinksTyped'
  <2>1. request[t].ids \subseteq namable
    BY <1>3 DEF FrontIInv, Actors, Bound, CheckedIsAsked, Forget, HandleLink
  <2> QED
    BY <1>2, <1>3, <2>1 DEF Forget, HandleLink
<1>4. ASSUME NEW t \in Actors, NEW m \in RowIds, PutRow(t, m) PROVE LinksTyped'
  BY <1>4 DEF PutRow
<1>5. ASSUME NEW S \in Named, ToolById(S) PROVE LinksTyped'
  <2>1. S \in SUBSET namable /\ namable' = namable /\ links' \in {LinksWith(S), Unlinked(S)}
    BY <1>5 DEF ToolById, Named
  <2> QED
    BY <1>2, <2>1
<1>6. ASSUME NEW t \in Requests,
             \/ \E account \in AccountRows : AuthenticateRequest(t, account)
             \/ WithoutAuth(t)
             \/ \E body \in Spaces \cup {NoSpace} : \/ HandleRemember(t, body)
                                                  \/ HandleRecordOperation(t, body)
                                                  \/ HandlePass(t, body)
             \/ \E S \in Named : \E oper \in OpOf(S) : HandleById(t, oper, S)
             \/ \E m \in RowIds : EnforceMemoryWorkspace(t, m)
      PROVE  LinksTyped'
  BY <1>1, <1>6 DEF AuthenticateRequest, WithoutAuth, HandleRemember, HandleRecordOperation,
     HandlePass, Admit, HandleById, EnforceMemoryWorkspace, FrontRest
<1>7. ASSUME NEW ws \in Spaces \cup {NoSpace}, ToolWrite(ws) \/ ToolPass(ws) PROVE LinksTyped'
  BY <1>1, <1>7 DEF ToolWrite, ToolPass, FrontRest
<1>8. ASSUME NEW t \in Actors, EndOfWrite(t) PROVE LinksTyped'
  BY <1>1, <1>8 DEF EndOfWrite, FrontRest
<1>9. CASE UNCHANGED frontVars
  BY <1>1, <1>9 DEF frontVars
<1> QED
  BY <1>3, <1>4, <1>5, <1>6, <1>7, <1>8, <1>9 DEF FrontNext, Actors

(* Rows, edges and default workspaces are of their types.                   *)
THEOREM FrontTypeCorrect == FrontSpec => []FrontTypeOK
<1>1. FrontInit => LinksTyped
  BY DEF FrontInit, LinksTyped
<1>2. FrontIInv /\ LinksTyped => FrontTypeOK
  BY DEF FrontIInv, FrontTyped, LinksTyped, FrontTypeOK, Space, Actors
<1> QED
  BY <1>1, <1>2, InitFront, NextFront, NextLinks, PTL DEF FrontSpec

-----------------------------------------------------------------------------
(***************************************************************************)
(* The working notes of a workspace, for any threads, workspaces and       *)
(* capacity of a buffer.                                                   *)
(*                                                                         *)
(* The inductive invariant: the buffer that e.working has for a workspace  *)
(* is that of every call bound to the workspace, and of no other call, no  *)
(* other workspace and not the engine's own.                               *)
(***************************************************************************)

NoteCalls ==
  {NoCall} \cup [at : {"gate"}, ws : RSpaces, buf : Nat]
           \cup [at : {"write"}, ws : RSpaces, buf : Nat, content : Told,
                 layer : {"working", "episodic", "semantic"}]

Buffer == 1..Len(buffers)

NotesTyped ==
  /\ home \in RSpaces /\ homes \subseteq RSpaces /\ home \in homes
  /\ recent \in [RSpaces -> SUBSET Stored] /\ facts \in [RSpaces -> SUBSET Told]
  /\ buffers \in Seq(Seq(Told)) /\ base \in Buffer
  /\ working \in [RSpaces -> Buffer \cup {NoBuffer}]
  /\ pushed \in [RSpaces -> Seq(Told)]
  /\ call \in [RThreads -> NoteCalls]
  /\ \A t \in RThreads : call[t] # NoCall => call[t].buf \in Buffer
  /\ \A b \in Buffer : Len(buffers[b]) <= NoteRoom

\* What is bound to workspace w, and nothing else, has its buffer.
OwnBuffer(w) ==
  /\ base # working[w]
  /\ \A v \in RSpaces \ {w} : working[v] # working[w] \/ working[w] = NoBuffer
  /\ \A t \in RThreads : call[t] # NoCall => (call[t].ws = w <=> call[t].buf = working[w])

NotesOf(w) ==
  IF working[w] = NoBuffer THEN pushed[w] = << >> ELSE buffers[working[w]] = LastNotes(pushed[w])

RememberInv == NotesTyped /\ \A w \in RSpaces \ homes : OwnBuffer(w) /\ NotesOf(w)

(* The last notes of a sequence are the last of its last notes and the new  *)
(* one.                                                                     *)
LEMMA LastNotesTyped ==
  ASSUME NEW s \in Seq(Told)
  PROVE  /\ LastNotes(s) \in Seq(Told) /\ Len(LastNotes(s)) <= NoteRoom
         /\ Len(s) <= NoteRoom => LastNotes(s) = s
         /\ Len(s) > NoteRoom =>
              /\ Len(LastNotes(s)) = NoteRoom
              /\ \A i \in 1..NoteRoom : LastNotes(s)[i] = s[Len(s) - NoteRoom + i]
<1>1. Len(s) \in Nat /\ NoteRoom \in Nat
  BY RememberAssumption, LenProperties
<1>2. CASE Len(s) > NoteRoom
  <2> DEFINE m == Len(s) - NoteRoom + 1
  <2>1. m \in Int /\ m \in 1..(Len(s) + 1) /\ LastNotes(s) = SubSeq(s, m, Len(s))
    BY <1>1, <1>2 DEF LastNotes
  <2>2. \A i \in m..Len(s) : s[i] \in Told
    BY <1>1, <2>1, ElementOfSeq
  <2>3. /\ SubSeq(s, m, Len(s)) \in Seq(Told)
        /\ Len(SubSeq(s, m, Len(s))) = IF m <= Len(s) THEN Len(s) - m + 1 ELSE 0
        /\ \A i \in 1..(Len(s) - m + 1) : SubSeq(s, m, Len(s))[i] = s[m + i - 1]
    <3> HIDE DEF m
    <3> QED
      BY <1>1, <2>1, <2>2, SubSeqProperties
  <2>4. Len(s) - m + 1 = NoteRoom /\ \A i \in 1..NoteRoom : m + i - 1 = Len(s) - NoteRoom + i
    BY <1>1
  <2>5. Len(LastNotes(s)) = NoteRoom
    <3>1. m <= Len(s) \/ NoteRoom = 0
      BY <1>1
    <3> QED
      BY <1>1, <2>1, <2>3, <2>4, <3>1
  <2> QED
    BY <1>1, <1>2, <2>1, <2>3, <2>4, <2>5
<1>3. CASE Len(s) <= NoteRoom
  BY <1>1, <1>3 DEF LastNotes
<1> QED
  BY <1>1, <1>2, <1>3

LEMMA LastNotesAppend ==
  ASSUME NEW s \in Seq(Told), NEW c \in Told
  PROVE  LastNotes(Append(LastNotes(s), c)) = LastNotes(Append(s, c))
<1> DEFINE u == LastNotes(s)
           l == LastNotes(Append(u, c))
           r == LastNotes(Append(s, c))
<1>1. Len(s) \in Nat /\ NoteRoom \in Nat /\ u \in Seq(Told)
  BY RememberAssumption, LenProperties, LastNotesTyped
<1>2. CASE Len(s) <= NoteRoom
  BY <1>2, LastNotesTyped
<1>3. CASE Len(s) > NoteRoom
  <2>1. /\ Append(s, c) \in Seq(Told) /\ Len(Append(s, c)) = Len(s) + 1
        /\ \A i \in 1..Len(s) : Append(s, c)[i] = s[i]
        /\ Append(s, c)[Len(s) + 1] = c
    BY AppendProperties
  <2>2. /\ Append(u, c) \in Seq(Told) /\ Len(Append(u, c)) = Len(u) + 1
        /\ \A i \in 1..Len(u) : Append(u, c)[i] = u[i]
        /\ Append(u, c)[Len(u) + 1] = c
    <3> HIDE DEF u
    <3> QED
      BY <1>1, AppendProperties
  <2>3. Len(u) = NoteRoom /\ \A i \in 1..NoteRoom : u[i] = s[Len(s) - NoteRoom + i]
    BY <1>3, LastNotesTyped
  <2> HIDE DEF u
  <2>4. /\ l \in Seq(Told) /\ Len(l) = NoteRoom
        /\ \A i \in 1..NoteRoom : l[i] = Append(u, c)[1 + i]
    <3> DEFINE q == Append(u, c)
    <3>1. q \in Seq(Told) /\ Len(q) > NoteRoom /\ Len(q) - NoteRoom = 1
      BY <1>1, <2>2, <2>3
    <3> HIDE DEF q
    <3>2. /\ LastNotes(q) \in Seq(Told) /\ Len(LastNotes(q)) = NoteRoom
          /\ \A i \in 1..NoteRoom : LastNotes(q)[i] = q[Len(q) - NoteRoom + i]
      BY <3>1, LastNotesTyped
    <3>3. \A i \in 1..NoteRoom : LastNotes(q)[i] = q[1 + i]
      BY <3>1, <3>2
    <3> QED
      BY <3>2, <3>3 DEF q
  <2>5. /\ r \in Seq(Told) /\ Len(r) = NoteRoom
        /\ \A i \in 1..NoteRoom : r[i] = Append(s, c)[Len(s) + 1 - NoteRoom + i]
    <3> DEFINE q == Append(s, c)
    <3>1. q \in Seq(Told) /\ Len(q) > NoteRoom /\ Len(q) = Len(s) + 1
      BY <1>1, <1>3, <2>1
    <3> HIDE DEF q
    <3>2. /\ LastNotes(q) \in Seq(Told) /\ Len(LastNotes(q)) = NoteRoom
          /\ \A i \in 1..NoteRoom : LastNotes(q)[i] = q[Len(q) - NoteRoom + i]
      BY <3>1, LastNotesTyped
    <3>3. \A i \in 1..NoteRoom : LastNotes(q)[i] = q[Len(s) + 1 - NoteRoom + i]
      BY <3>1, <3>2
    <3> QED
      BY <3>2, <3>3 DEF q
  <2> HIDE DEF l, r
  <2>6. ASSUME NEW i \in 1..NoteRoom
        PROVE  l[i] = r[i]
    <3>1. l[i] = Append(u, c)[1 + i] /\ r[i] = Append(s, c)[Len(s) + 1 - NoteRoom + i]
      BY <2>4, <2>5
    <3>2. CASE i = NoteRoom
      <4>1. 1 + i = Len(u) + 1 /\ Len(s) + 1 - NoteRoom + i = Len(s) + 1
        BY <1>1, <2>3, <3>2
      <4> QED
        BY <2>1, <2>2, <3>1, <4>1
    <3>3. CASE i < NoteRoom
      <4>1. 1 + i \in 1..Len(u) /\ Len(s) + 1 - NoteRoom + i \in 1..Len(s)
            /\ Len(s) - NoteRoom + (1 + i) = Len(s) + 1 - NoteRoom + i /\ 1 + i \in 1..NoteRoom
        BY <1>1, <1>3, <2>3, <3>3
      <4>2. Append(u, c)[1 + i] = u[1 + i]
        BY <2>2, <4>1
      <4>3. Append(s, c)[Len(s) + 1 - NoteRoom + i] = s[Len(s) + 1 - NoteRoom + i]
        BY <2>1, <4>1
      <4>4. u[1 + i] = s[Len(s) - NoteRoom + (1 + i)]
        BY <2>3, <4>1
      <4> QED
        BY <3>1, <4>1, <4>2, <4>3, <4>4
    <3> QED
      BY <1>1, <3>2, <3>3
  <2>7. l = r
    BY <1>1, <2>4, <2>5, <2>6, SeqEqual
  <2> QED
    BY <2>7 DEF l, r, u
<1> QED
  BY <1>1, <1>2, <1>3

LEMMA InitNotes == RememberInit => RememberInv
<1> SUFFICES ASSUME RememberInit PROVE RememberInv
  OBVIOUS
<1>1. buffers = << << >> >> /\ Len(buffers) = 1 /\ buffers[1] = << >>
  BY DEF RememberInit
<1>2. << >> \in Seq(Told) /\ buffers \in Seq(Seq(Told)) /\ Len(<< >>) = 0
  BY <1>1
<1>3. NotesTyped
  BY <1>1, <1>2, RememberAssumption DEF RememberInit, NotesTyped, NoteCalls, Buffer
<1>4. ASSUME NEW w \in RSpaces PROVE OwnBuffer(w) /\ NotesOf(w)
  BY <1>4, RememberAssumption DEF RememberInit, OwnBuffer, NotesOf, NoCall
<1> QED
  BY <1>3, <1>4 DEF RememberInv

(* A step that leaves the buffers, and what they belong to, alone.          *)
NotesStay == UNCHANGED <<home, homes, buffers, base, working, pushed>>

LEMMA CallInv ==
  ASSUME RememberInv, NEW t \in RThreads, NotesStay,
         NEW k \in NoteCalls, call' = [call EXCEPT ![t] = k], call[t] # NoCall,
         k # NoCall => k.ws = call[t].ws /\ k.buf = call[t].buf,
         recent' \in [RSpaces -> SUBSET Stored], facts' \in [RSpaces -> SUBSET Told]
  PROVE  RememberInv'
<1>1. NotesTyped
  BY DEF RememberInv
<1>2. /\ call'[t] = k /\ \A u \in RThreads \ {t} : call'[u] = call[u]
      /\ call' \in [RThreads -> NoteCalls]
  BY <1>1 DEF NotesTyped
<1>3. NotesTyped'
  BY <1>1, <1>2 DEF NotesTyped, NotesStay, Buffer
<1>4. ASSUME NEW w \in RSpaces \ homes PROVE (OwnBuffer(w) /\ NotesOf(w))'
  BY <1>2 DEF RememberInv, OwnBuffer, NotesOf, NotesStay, LastNotes
<1> QED
  BY <1>3, <1>4 DEF RememberInv, NotesStay

LEMMA GateInv ==
  ASSUME RememberInv, NEW t \in RThreads, NEW c \in Told, NEW layer \in {"episodic", "semantic"},
         GateWorking(t, c) \/ GateDrop(t, c) \/ GatePass(t, c, layer) \/ RecordEvent(t, c)
  PROVE  RememberInv'
<1>1. /\ NotesStay /\ UNCHANGED <<recent, facts>> /\ call[t].at = "gate" /\ NotesTyped
      /\ \/ call' = [call EXCEPT ![t] = NoCall]
         \/ \E d \in Told, l \in {"working", "episodic", "semantic"} : Then(t, l, d)
  BY DEF GateWorking, GateDrop, GatePass, RecordEvent, NotesStay, RememberInv
<1>2. call[t] # NoCall /\ call[t].ws \in RSpaces /\ call[t].buf \in Nat
  BY <1>1 DEF NotesTyped, NoteCalls, NoCall
<1>3. ASSUME NEW d \in Told, NEW l \in {"working", "episodic", "semantic"}, Then(t, l, d)
      PROVE  RememberInv'
  <2> DEFINE k == [at |-> "write", ws |-> call[t].ws, buf |-> call[t].buf,
                   content |-> d, layer |-> l]
  <2>1. call' = [call EXCEPT ![t] = k]
    BY <1>3 DEF Then
  <2>2. k \in NoteCalls /\ k.ws = call[t].ws /\ k.buf = call[t].buf
    BY <1>2 DEF NoteCalls
  <2> HIDE DEF k
  <2> QED
    BY <1>1, <1>2, <2>1, <2>2, CallInv DEF NotesTyped
<1>4. CASE call' = [call EXCEPT ![t] = NoCall]
  <2>1. NoCall \in NoteCalls
    BY DEF NoteCalls
  <2> QED
    BY <1>1, <1>2, <1>4, <2>1, CallInv DEF NotesTyped
<1> QED
  BY <1>1, <1>3, <1>4

LEMMA WriteInv ==
  ASSUME RememberInv, NEW t \in RThreads, RecordEpisode(t) \/ PutFact(t)
  PROVE  RememberInv'
<1>1. /\ NotesStay /\ call[t].at = "write" /\ call' = [call EXCEPT ![t] = NoCall] /\ NotesTyped
      /\ \/ facts' = facts /\ recent' = [recent EXCEPT ![call[t].ws] = @ \cup {Sentence(call[t].content)}]
         \/ recent' = recent /\ facts' = [facts EXCEPT ![call[t].ws] = @ \cup {call[t].content}]
  BY DEF RecordEpisode, PutFact, NotesStay, RememberInv
<1>2. call[t] # NoCall /\ call[t].content \in Told /\ call[t].ws \in RSpaces /\ NoCall \in NoteCalls
  BY <1>1 DEF NotesTyped, NoteCalls, NoCall
<1>3. recent' \in [RSpaces -> SUBSET Stored] /\ facts' \in [RSpaces -> SUBSET Told]
  <2>1. recent \in [RSpaces -> SUBSET Stored] /\ facts \in [RSpaces -> SUBSET Told]
    BY <1>1 DEF NotesTyped
  <2> DEFINE v == call[t].ws
             c == call[t].content
  <2>2. v \in RSpaces /\ c \in Told /\ Sentence(c) \in Stored
    BY <1>2 DEF Stored
  <2>3. \/ facts' = facts /\ recent' = [recent EXCEPT ![v] = recent[v] \cup {Sentence(c)}]
        \/ recent' = recent /\ facts' = [facts EXCEPT ![v] = facts[v] \cup {c}]
    BY <1>1
  <2> HIDE DEF v, c
  <2> QED
    BY <2>1, <2>2, <2>3
<1> QED
  BY <1>1, <1>2, <1>3, CallInv

(* A new buffer, or the one that is there.                                  *)
LEMMA ScopeInv ==
  ASSUME RememberInv, NEW t \in RThreads, NEW ws \in RSpaces, Scope(t, ws)
  PROVE  RememberInv'
<1> DEFINE fresh == Len(buffers) + 1
           buf == IF ws = home THEN base ELSE WorkingOf(ws, fresh)
           k == [at |-> "gate", ws |-> ws, buf |-> buf]
<1>1. /\ call[t] = NoCall /\ NotesTyped
      /\ buffers' = IF buf = fresh THEN Append(buffers, << >>) ELSE buffers
      /\ working' = IF ws = home THEN working ELSE [working EXCEPT ![ws] = buf]
      /\ call' = [call EXCEPT ![t] = k]
      /\ UNCHANGED <<home, homes, recent, facts, base, pushed>>
  BY DEF Scope, RememberInv
<1>2. Len(buffers) \in Nat /\ fresh \in Nat /\ fresh \notin Buffer /\ fresh # NoBuffer
      /\ NoBuffer \notin Buffer
  BY <1>1, RememberAssumption, LenProperties DEF NotesTyped, Buffer
<1>3. buf \in Buffer \cup {fresh}
  BY <1>1, <1>2 DEF NotesTyped, WorkingOf
<1>4. /\ Append(buffers, << >>) \in Seq(Seq(Told)) /\ Len(Append(buffers, << >>)) = fresh
      /\ \A b \in Buffer : Append(buffers, << >>)[b] = buffers[b]
      /\ Append(buffers, << >>)[fresh] = << >>
  <2>1. buffers \in Seq(Seq(Told)) /\ << >> \in Seq(Told)
    BY <1>1 DEF NotesTyped
  <2> QED
    BY <2>1, AppendProperties DEF Buffer
<1> HIDE DEF fresh
<1>5. /\ buffers' \in Seq(Seq(Told)) /\ Buffer \subseteq Buffer' /\ buf \in Buffer'
      /\ \A b \in Buffer : buffers'[b] = buffers[b]
      /\ \A b \in Buffer' \ Buffer : b = fresh /\ buffers'[b] = << >>
  <2>1. CASE buf = fresh
    <3>1. Buffer' = Buffer \cup {fresh}
      BY <1>1, <1>2, <1>4, <2>1 DEF Buffer, fresh
    <3> QED
      BY <1>1, <1>4, <2>1, <3>1
  <2>2. CASE buf # fresh
    BY <1>1, <1>3, <2>2 DEF Buffer, NotesTyped
  <2> QED
    BY <2>1, <2>2
<1>6. k \in NoteCalls /\ k # NoCall /\ k.ws = ws /\ k.buf = buf
  BY <1>2, <1>3 DEF NoteCalls, NoCall, Buffer
<1>7. /\ call'[t] = k /\ \A u \in RThreads \ {t} : call'[u] = call[u]
      /\ call' \in [RThreads -> NoteCalls]
  <2> HIDE DEF k
  <2> QED
    BY <1>1, <1>6 DEF NotesTyped
<1>8. /\ working' \in [RSpaces -> Buffer' \cup {NoBuffer}]
      /\ \A v \in RSpaces \ {ws} : working'[v] = working[v]
      /\ working'[ws] = IF ws = home THEN working[ws] ELSE buf
  <2> HIDE DEF buf
  <2> QED
    BY <1>1, <1>5 DEF NotesTyped
<1>9. NotesTyped'
  <2>1. \A u \in RThreads : call'[u] # NoCall => call'[u].buf \in Buffer'
    <3>1. \A u \in RThreads : call[u] # NoCall => call[u].buf \in Buffer
      BY <1>1 DEF NotesTyped
    <3> HIDE DEF buf, k
    <3> QED
      BY <1>5, <1>6, <1>7, <3>1
  <2>2. \A b \in Buffer' : Len(buffers'[b]) <= NoteRoom
    <3>1. \A b \in Buffer : Len(buffers[b]) <= NoteRoom
      BY <1>1 DEF NotesTyped
    <3>2. Len(<< >>) <= NoteRoom
      BY RememberAssumption
    <3> QED
      BY <1>5, <3>1, <3>2
  <2> HIDE DEF buf, k
  <2> QED
    BY <1>1, <1>5, <1>7, <1>8, <2>1, <2>2 DEF NotesTyped
<1>10. buf = IF ws = home THEN base ELSE IF working[ws] = NoBuffer THEN fresh ELSE working[ws]
  BY DEF WorkingOf
<1>11. ASSUME NEW w \in RSpaces \ homes PROVE (OwnBuffer(w) /\ NotesOf(w))'
  <2>1. OwnBuffer(w) /\ NotesOf(w) /\ w # home /\ base \in Buffer
    BY <1>1, <1>11 DEF RememberInv, NotesTyped
  <2>2. \A u \in RThreads : call[u] # NoCall => call[u].buf \in Buffer /\ call[u].buf # fresh
    BY <1>1, <1>2 DEF NotesTyped
  <2>3. \A v \in RSpaces : working[v] \in Buffer \cup {NoBuffer} /\ working[v] # fresh
    BY <1>1, <1>2 DEF NotesTyped
  <2> HIDE DEF buf, k
  <2>4. CASE ws = w
    <3>1. working'[w] = buf /\ (working[w] # NoBuffer => buf = working[w])
          /\ (working[w] = NoBuffer => buf = fresh)
      BY <1>8, <1>10, <2>1, <2>4
    <3>2. buf # NoBuffer
      BY <1>2, <1>3
    <3>3. OwnBuffer(w)'
      BY <1>1, <1>2, <1>6, <1>7, <1>8, <2>1, <2>2, <2>3, <2>4, <3>1, <3>2 DEF OwnBuffer
    <3>4. NotesOf(w)'
      <4>1. CASE working[w] = NoBuffer
        <5>1. buffers'[fresh] = << >> /\ pushed[w] = << >>
          BY <1>1, <1>2, <1>5, <2>1, <3>1, <4>1 DEF NotesOf
        <5>2. LastNotes(<< >>) = << >>
          BY RememberAssumption DEF LastNotes
        <5> QED
          BY <1>1, <3>1, <3>2, <4>1, <5>1, <5>2 DEF NotesOf, LastNotes
      <4>2. CASE working[w] # NoBuffer
        BY <1>1, <1>5, <2>1, <2>3, <3>1, <4>2 DEF NotesOf, LastNotes
      <4> QED
        BY <4>1, <4>2
    <3> QED
      BY <3>3, <3>4
  <2>5. CASE ws # w
    <3>1. working'[w] = working[w]
      BY <1>8, <2>5
    <3>2. buf # working[w]
      BY <1>2, <1>10, <2>1, <2>3, <2>5 DEF OwnBuffer
    <3>3. \A v \in RSpaces \ {w} : working'[v] # working[w] \/ working[w] = NoBuffer
      BY <1>8, <2>1, <3>2 DEF OwnBuffer
    <3>4. OwnBuffer(w)'
      BY <1>1, <1>6, <1>7, <2>1, <2>5, <3>1, <3>2, <3>3 DEF OwnBuffer
    <3>5. NotesOf(w)'
      BY <1>1, <1>5, <2>1, <2>3, <3>1 DEF NotesOf, LastNotes
    <3> QED
      BY <3>4, <3>5
  <2> QED
    BY <2>4, <2>5
<1> QED
  BY <1>1, <1>9, <1>11 DEF RememberInv

LEMMA PushInv ==
  ASSUME RememberInv, NEW t \in RThreads, Push(t)
  PROVE  RememberInv'
<1> DEFINE v == call[t].ws
           b == call[t].buf
           c == call[t].content
<1>1. /\ call[t].at = "write" /\ call[t].layer = "working" /\ NotesTyped
      /\ buffers' = [buffers EXCEPT ![b] = LastNotes(Append(buffers[b], c))]
      /\ pushed' = [pushed EXCEPT ![v] = Append(pushed[v], c)]
      /\ call' = [call EXCEPT ![t] = NoCall]
      /\ UNCHANGED <<home, homes, recent, facts, base, working>>
  BY DEF Push, RememberInv
<1>2. /\ call[t] # NoCall /\ c \in Told /\ v \in RSpaces /\ NoCall \in NoteCalls
      /\ b \in Buffer
  <2>1. call[t] # NoCall /\ c \in Told /\ v \in RSpaces /\ NoCall \in NoteCalls
    BY <1>1 DEF NotesTyped, NoteCalls, NoCall
  <2> QED
    BY <1>1, <2>1 DEF NotesTyped
<1> HIDE DEF v, b, c
<1>3. /\ buffers[b] \in Seq(Told) /\ pushed[v] \in Seq(Told)
      /\ Append(buffers[b], c) \in Seq(Told) /\ Append(pushed[v], c) \in Seq(Told)
      /\ Append(pushed[v], c) # << >>
  <2>1. buffers[b] \in Seq(Told) /\ pushed[v] \in Seq(Told)
    BY <1>1, <1>2, ElementOfSeq DEF NotesTyped, Buffer
  <2> QED
    BY <1>2, <2>1, AppendProperties
<1>4. /\ buffers' \in Seq(Seq(Told)) /\ Len(buffers') = Len(buffers) /\ Buffer' = Buffer
      /\ \A i \in Buffer : buffers'[i] = IF i = b THEN LastNotes(Append(buffers[b], c)) ELSE buffers[i]
  <2>1. LastNotes(Append(buffers[b], c)) \in Seq(Told)
    BY <1>3, LastNotesTyped
  <2>2. buffers \in Seq(Seq(Told)) /\ b \in 1..Len(buffers)
    BY <1>1, <1>2 DEF NotesTyped, Buffer
  <2>3. /\ buffers' \in Seq(Seq(Told)) /\ Len(buffers') = Len(buffers)
        /\ \A i \in 1..Len(buffers) :
             buffers'[i] = IF i = b THEN LastNotes(Append(buffers[b], c)) ELSE buffers[i]
    BY <1>1, <2>1, <2>2, ExceptSeq
  <2> QED
    BY <2>3 DEF Buffer
<1>5. /\ call'[t] = NoCall /\ \A u \in RThreads \ {t} : call'[u] = call[u]
      /\ call' \in [RThreads -> NoteCalls]
      /\ pushed' \in [RSpaces -> Seq(Told)] /\ pushed'[v] = Append(pushed[v], c)
      /\ \A w \in RSpaces \ {v} : pushed'[w] = pushed[w]
  BY <1>1, <1>2, <1>3 DEF NotesTyped
<1>6. NotesTyped'
  <2>1. \A i \in Buffer' : Len(buffers'[i]) <= NoteRoom
    <3>1. \A i \in Buffer : Len(buffers[i]) <= NoteRoom
      BY <1>1 DEF NotesTyped
    <3>2. Len(LastNotes(Append(buffers[b], c))) <= NoteRoom
      BY <1>3, LastNotesTyped
    <3> QED
      BY <1>4, <3>1, <3>2
  <2> QED
    BY <1>1, <1>4, <1>5, <2>1 DEF NotesTyped
<1>7. ASSUME NEW w \in RSpaces \ homes PROVE (OwnBuffer(w) /\ NotesOf(w))'
  <2>1. OwnBuffer(w) /\ NotesOf(w)
    BY <1>7 DEF RememberInv
  <2>2. OwnBuffer(w)'
    BY <1>1, <1>5, <2>1 DEF OwnBuffer
  <2>3. w = v <=> working[w] = b
    BY <1>2, <2>1 DEF OwnBuffer, v, b
  <2>4. CASE w = v
    <3>1. buffers[b] = LastNotes(pushed[v]) /\ working[w] # NoBuffer
      BY <1>2, <2>1, <2>3, <2>4, RememberAssumption DEF NotesOf, Buffer
    <3>2. buffers'[b] = LastNotes(pushed'[v])
      BY <1>2, <1>3, <1>4, <1>5, <3>1, LastNotesAppend
    <3>3. working'[w] = b /\ b # NoBuffer
      BY <1>1, <2>3, <2>4, <3>1
    <3> QED
      BY <2>2, <2>4, <3>2, <3>3 DEF NotesOf, LastNotes
  <2>5. CASE w # v
    <3>1. working[w] \in Buffer \cup {NoBuffer}
      BY <1>1 DEF NotesTyped
    <3> QED
      BY <1>1, <1>4, <1>5, <2>1, <2>2, <2>3, <2>5, <3>1 DEF NotesOf, LastNotes
  <2> QED
    BY <2>4, <2>5
<1> QED
  BY <1>1, <1>6, <1>7 DEF RememberInv

LEMMA SetWorkspaceInv ==
  ASSUME RememberInv, NEW ws \in RSpaces, SetWorkspace(ws)
  PROVE  RememberInv'
<1>1. /\ home' = ws /\ homes' = homes \cup {ws} /\ NotesTyped
      /\ buffers' = Append(buffers, << >>) /\ base' = Len(buffers) + 1
      /\ UNCHANGED <<recent, facts, working, call, pushed>>
  BY DEF SetWorkspace, RememberInv
<1>2. buffers \in Seq(Seq(Told)) /\ << >> \in Seq(Told) /\ Len(buffers) \in Nat /\ Len(<< >>) = 0
  BY <1>1, LenProperties DEF NotesTyped
<1>3. /\ buffers' \in Seq(Seq(Told)) /\ Len(buffers') = Len(buffers) + 1
      /\ \A b \in Buffer : buffers'[b] = buffers[b]
      /\ buffers'[Len(buffers) + 1] = << >>
  BY <1>1, <1>2, AppendProperties DEF Buffer
<1>4. Buffer' = Buffer \cup {base'} /\ base' \notin Buffer /\ base' # NoBuffer
  BY <1>1, <1>2, <1>3, RememberAssumption DEF Buffer
<1>5. NotesTyped'
  <2>1. \A b \in Buffer' : Len(buffers'[b]) <= NoteRoom
    <3>1. \A b \in Buffer : Len(buffers[b]) <= NoteRoom
      BY <1>1 DEF NotesTyped
    <3>2. Len(<< >>) <= NoteRoom
      BY RememberAssumption
    <3> QED
      BY <1>1, <1>3, <1>4, <3>1, <3>2
  <2> QED
    BY <1>1, <1>3, <1>4, <2>1 DEF NotesTyped
<1>6. ASSUME NEW w \in RSpaces \ homes' PROVE (OwnBuffer(w) /\ NotesOf(w))'
  <2>1. OwnBuffer(w) /\ NotesOf(w) /\ working[w] \in Buffer \cup {NoBuffer}
    BY <1>1, <1>6 DEF RememberInv, NotesTyped
  <2> QED
    BY <1>1, <1>3, <1>4, <2>1 DEF OwnBuffer, NotesOf, LastNotes
<1> QED
  BY <1>5, <1>6 DEF RememberInv

LEMMA NextNotes == RememberInv /\ [RememberNext]_rememberVars => RememberInv'
<1> SUFFICES ASSUME RememberInv, [RememberNext]_rememberVars PROVE RememberInv'
  OBVIOUS
<1>1. ASSUME NEW w \in RSpaces, NEW s \in Stored, Age(w, s) \/ \E c \in Told : Reword(w, s, c)
      PROVE  RememberInv'
  <2>1. /\ NotesStay /\ UNCHANGED <<facts, call>>
        /\ \E S : S \subseteq Stored /\ recent' = [recent EXCEPT ![w] = (recent[w] \ {s}) \cup S]
    <3>1. CASE Age(w, s)
      <4>1. recent' = [recent EXCEPT ![w] = (recent[w] \ {s}) \cup {}]
        BY <3>1 DEF Age
      <4> QED
        BY <3>1, <4>1 DEF Age, NotesStay
    <3>2. ASSUME NEW c \in Told, Reword(w, s, c)
          PROVE  /\ NotesStay /\ UNCHANGED <<facts, call>> /\ {c} \subseteq Stored
                 /\ recent' = [recent EXCEPT ![w] = (recent[w] \ {s}) \cup {c}]
      BY <3>2 DEF Reword, NotesStay, Stored
    <3> QED
      BY <1>1, <3>1, <3>2
  <2>2. recent' \in [RSpaces -> SUBSET Stored]
    BY <1>1, <2>1 DEF RememberInv, NotesTyped
  <2>3. NotesTyped'
    BY <2>1, <2>2 DEF RememberInv, NotesTyped, NotesStay, Buffer
  <2>4. ASSUME NEW v \in RSpaces \ homes PROVE (OwnBuffer(v) /\ NotesOf(v))'
    BY <2>1 DEF RememberInv, NotesStay, OwnBuffer, NotesOf, LastNotes
  <2> QED
    BY <2>1, <2>3, <2>4 DEF RememberInv, NotesStay
<1>2. CASE UNCHANGED rememberVars
  BY <1>2 DEF rememberVars, RememberInv, NotesTyped, Buffer, OwnBuffer, NotesOf, LastNotes
<1>3. ASSUME NEW t \in RThreads, NEW c \in Texts, RecordEvent(t, c) PROVE RememberInv'
  <2>1. c \in Told /\ "semantic" \in {"episodic", "semantic"}
    BY DEF Told
  <2> QED
    BY <1>3, <2>1, GateInv
<1>4. CASE RememberSteps
  BY <1>3, <1>4, ScopeInv, GateInv, PushInv, WriteInv DEF RememberSteps
<1> QED
  BY <1>1, <1>2, <1>4, SetWorkspaceInv DEF RememberNext

(* Working notes, recent events and written contents are of their type, and *)
(* no buffer outgrows its capacity.                                         *)
THEOREM RememberTypeCorrect == RememberSpec => []RememberTypeOK
<1>1. RememberInv => RememberTypeOK
  BY DEF RememberInv, NotesTyped, RememberTypeOK, Buffer
<1> QED
  BY InitNotes, NextNotes, <1>1, PTL DEF RememberSpec

(* However threads take their scopes (sync.Map's LoadOrStore in engine.go),  *)
(* a workspace the engine was never bound to has one buffer, and it holds   *)
(* the last notes pushed for the workspace.                                 *)
THEOREM NotesAreSharedTheorem == RememberSpec => []NotesAreShared
<1>1. RememberInv => NotesAreShared
  BY DEF RememberInv, NotesOf, NotesAreShared
<1> QED
  BY InitNotes, NextNotes, <1>1, PTL DEF RememberSpec

-----------------------------------------------------------------------------
(* Recall.                                                                 *)

\* SetToSeq leaves nobody out.
LEMMA SeqOfSet ==
  ASSUME NEW S, IsFiniteSet(S)
  PROVE  SetToSeq(S) \in Seq(S) /\ \A x \in S : \E k \in 1..Len(SetToSeq(S)) : SetToSeq(S)[k] = x
<1>0. PICK n : n = Cardinality(S)
  OBVIOUS
<1>1. n \in Nat /\ ExistsBijection(1..n, S)
  BY <1>0, FS_CardinalityType
<1>2. \E f \in [1..n -> S] : IsInjective(f)
  BY <1>1 DEF ExistsBijection, Bijection, Injection
<1>3. PICK f : f = SetToSeq(S)
  OBVIOUS
<1>4. f \in [1..n -> S] /\ IsInjective(f)
  BY <1>0, <1>2, <1>3 DEF SetToSeq
<1>5. f \in Injection(1..n, S)
  BY <1>4 DEF Injection
<1>6. Cardinality(1..n) = n
  BY <1>1, FS_Interval
<1>7. f \in Surjection(1..n, S)
  BY <1>0, <1>5, <1>6, FS_Injection
<1>8. f \in Seq(S) /\ Len(f) = n
  BY <1>1, <1>4
<1> QED BY <1>3, <1>7, <1>8 DEF Surjection

Ours    == mems \ Foreign
Ends(m) == {OtherEnd(m, e) : e \in NeighborEdges(m)}
In(q, n)  == \E k \in 1..Len(q) : q[k] = n
Queued(n) == In(frontier, n)

RecallTyped ==
  /\ RecallTypeOK
  /\ hits \subseteq Mems /\ anchors \subseteq Mems
  /\ frontier \in Seq(Mems \X Nat)
  /\ phase \in {"idle", "read"} => frontier = <<>>
  /\ phase = "idle" => tier1 = {}

\* Only result t: not yet expanded, being expanded, or everything next to it is
\* still to be expanded or has been.
AroundOnly(t) ==
  \/ t \in anchors /\ frontier = <<>> /\ reached = {t}
  \/ frontier = << <<t, 1>> >> /\ reached = {t}
  \/ \A x \in (Ends(t) \cap Ours) \ Successors({t}) :
       x = t \/ Queued(<<x, 2>>) \/ Ends(x) \subseteq reached

Expanding ==
  /\ tier1 \subseteq reached /\ anchors \subseteq tier1
  /\ reached \cap Ours \subseteq tier1 \cup found
  /\ Hops >= 1 => \A a \in tier1 \ anchors : Queued(<<a, 1>>) \/ Ends(a) \subseteq reached
  /\ Hops >= 2 => \A t : tier1 = {t} => AroundOnly(t)

Undisturbed ==
  /\ tier1 \cap superseded = {}
  /\ phase \in {"expand", "done"} => Expanding
  /\ phase = "done" => anchors = {} /\ frontier = <<>>

RecallInv == RecallTyped /\ (~disturbed => Undisturbed)

LEMMA EndsTyped ==
  ASSUME RecallTyped, NEW m
  PROVE  Ends(m) \subseteq Mems
BY DEF Ends, NeighborEdges, OtherEnd, RecallTyped, RecallTypeOK, Edges

LEMMA SameGraph ==
  ASSUME UNCHANGED graphVars
  PROVE  /\ UNCHANGED <<mems, superseded, graph, retiring, disturbed, graphWrites>>
         /\ Ours' = Ours /\ \A m : Ends(m)' = Ends(m)
         /\ \A M : Successors(M)' = Successors(M)
BY DEF graphVars, Ours, Ends, NeighborEdges, OtherEnd, Successors

\* A recall that returns leaves nothing behind.
LEMMA ReturnedInv ==
  ASSUME RecallInv, Returned
  PROVE  RecallInv'
<1>1. /\ phase' = "idle" /\ hits' = {} /\ tier1' = {} /\ anchors' = {} /\ frontier' = <<>>
      /\ reached' = {} /\ found' = {} /\ UNCHANGED <<mems, superseded, graph, retiring, graphWrites>>
  BY DEF Returned
<1>2. RecallTyped'
  BY <1>1 DEF RecallInv, RecallTyped, RecallTypeOK
<1> QED BY <1>1, <1>2 DEF RecallInv, Undisturbed

LEMMA ReadingInv ==
  ASSUME RecallInv,
         \/ \E H \in SUBSET Mems : SearchIndex(H)
         \/ \E h \in Mems : ReadHit(h)
         \/ Answer
  PROVE  RecallInv'
<1>1. CASE \E H \in SUBSET Mems : SearchIndex(H)
  <2>1. PICK H \in SUBSET Mems : SearchIndex(H)
    BY <1>1
  <2>2. /\ phase = "idle" /\ phase' = "read" /\ hits' = H
        /\ UNCHANGED <<mems, superseded, graph, retiring, disturbed, graphWrites, tier1, anchors,
                       frontier, reached, found>>
    BY <2>1 DEF SearchIndex, graphVars
  <2>3. RecallTyped'
    BY <2>2 DEF RecallInv, RecallTyped, RecallTypeOK
  <2> QED BY <2>2, <2>3 DEF RecallInv, Undisturbed
<1>2. CASE \E h \in Mems : ReadHit(h)
  <2>1. PICK h \in Mems : ReadHit(h)
    BY <1>2
  <2>2. /\ phase = "read" /\ phase' = "read" /\ hits' \subseteq hits
        /\ tier1' \subseteq tier1 \cup ({h} \ superseded)
        /\ UNCHANGED <<mems, superseded, graph, retiring, disturbed, graphWrites, anchors, frontier,
                       reached, found>>
    BY <2>1 DEF ReadHit, graphVars
  <2>3. RecallTyped'
    BY <2>2 DEF RecallInv, RecallTyped, RecallTypeOK
  <2> QED BY <2>2, <2>3 DEF RecallInv, Undisturbed
<1>3. CASE Answer
  BY <1>3, ReturnedInv DEF Answer
<1> QED BY <1>1, <1>2, <1>3

LEMMA RankInv ==
  ASSUME RecallInv, NEW T \in SUBSET Mems, Rank(T)
  PROVE  RecallInv'
<1>1. CASE Returned
  BY <1>1, ReturnedInv
<1>2. CASE ~Returned
  <2>1. /\ phase = "read" /\ T \subseteq tier1 /\ tier1' = T
        /\ UNCHANGED <<mems, superseded, graph, retiring, disturbed, graphWrites, hits, frontier,
                       found>>
        /\ phase' = "expand" /\ anchors' = T /\ reached' = T
    BY <1>2 DEF Rank, graphVars
  <2>2. RecallTyped'
    BY <2>1 DEF RecallInv, RecallTyped, RecallTypeOK
  <2>3. ASSUME ~disturbed PROVE Undisturbed'
    <3>1. tier1 \cap superseded = {} /\ frontier = <<>>
      BY <2>1, <2>3 DEF RecallInv, RecallTyped, Undisturbed
    <3>2. Expanding'
      BY <2>1, <3>1 DEF Expanding, AroundOnly
    <3> QED BY <2>1, <3>1, <3>2 DEF Undisturbed
  <2> QED BY <2>1, <2>2, <2>3 DEF RecallInv
<1> QED BY <1>1, <1>2

LEMMA NextAnchorInv ==
  ASSUME RecallInv, NEW a \in Mems, NextAnchor(a)
  PROVE  RecallInv'
<1>1. /\ phase = "expand" /\ phase' = "expand" /\ frontier = <<>> /\ a \in anchors
      /\ anchors' = anchors \ {a} /\ frontier' = << <<a, 1>> >>
      /\ UNCHANGED <<hits, tier1, reached, found>>
  BY DEF NextAnchor
<1>2. /\ UNCHANGED <<mems, superseded, graph, retiring, disturbed, graphWrites>>
      /\ Ours' = Ours /\ \A m : Ends(m)' = Ends(m)
      /\ \A M : Successors(M)' = Successors(M)
  BY SameGraph DEF NextAnchor
<1>3. RecallTyped'
  <2>1. <<a, 1>> \in Mems \X Nat
    OBVIOUS
  <2>2. frontier' \in Seq(Mems \X Nat)
    BY <1>1, <2>1
  <2> QED BY <1>1, <1>2, <2>2 DEF RecallInv, RecallTyped, RecallTypeOK
<1>4. \A n : ~Queued(n)
  BY <1>1 DEF Queued, In
<1>5. Queued(<<a, 1>>)'
  BY <1>1 DEF Queued, In
<1>6. ASSUME ~disturbed PROVE Undisturbed'
  <2>1. Expanding /\ tier1 \cap superseded = {}
    BY <1>1, <1>6 DEF RecallInv, Undisturbed
  <2>2. ASSUME Hops >= 1, NEW b \in tier1' \ anchors'
        PROVE  Queued(<<b, 1>>)' \/ Ends(b)' \subseteq reached'
    <3>1. CASE b = a
      BY <3>1, <1>5
    <3>2. CASE b # a
      <4>1. Ends(b) \subseteq reached
        BY <3>2, <2>1, <2>2, <1>1, <1>4 DEF Expanding
      <4> QED BY <4>1, <1>1, <1>2
    <3> QED BY <3>1, <3>2
  <2>3. ASSUME Hops >= 2, NEW t, tier1' = {t} PROVE AroundOnly(t)'
    <3>1. AroundOnly(t)
      BY <2>1, <2>3, <1>1 DEF Expanding
    <3>2. CASE t \in anchors /\ reached = {t} /\ a = t
      BY <3>2, <1>1 DEF AroundOnly
    <3>3. CASE \A x \in (Ends(t) \cap Ours) \ Successors({t}) : x = t \/ Ends(x) \subseteq reached
      BY <3>3, <1>1, <1>2 DEF AroundOnly
    <3>4. CASE t \in anchors /\ reached = {t} /\ a # t
      BY <3>4, <1>1, <2>1, <2>3 DEF Expanding
    <3> QED BY <3>1, <3>2, <3>3, <3>4, <1>1, <1>4 DEF AroundOnly
  <2>4. Expanding'
    BY <1>1, <1>2, <2>1, <2>2, <2>3 DEF Expanding
  <2> QED BY <1>1, <1>2, <2>1, <2>4 DEF Undisturbed
<1> QED BY <1>2, <1>3, <1>6 DEF RecallInv

\* The head is taken and the nodes of S, of depth d, are added.
Requeue(S, d, tail) == tail = Tail(frontier) \o SetToSeq({<<o, d>> : o \in S})

LEMMA QueueAfter ==
  ASSUME RecallTyped, frontier # <<>>, IsFiniteSet(Mems),
         NEW S \in SUBSET Mems, NEW d \in Nat, NEW tail, Requeue(S, d, tail)
  PROVE  /\ tail \in Seq(Mems \X Nat)
         /\ \A k \in 1..Len(frontier) : k # 1 => In(tail, frontier[k])
         /\ \A o \in S : In(tail, <<o, d>>)
<1>0. PICK N : N = {<<o, d>> : o \in S} /\ tail = Tail(frontier) \o SetToSeq(N)
  BY DEF Requeue
<1>1. IsFiniteSet(N)
  <2> DEFINE g == [p \in N |-> p[1]]
  <2>1. g \in [N -> Mems] /\ \A p, q \in N : g[p] = g[q] => p = q
    BY <1>0
  <2>2. g \in Injection(N, Mems)
    BY <2>1 DEF Injection, IsInjective
  <2> QED BY <2>2, FS_Injection
<1>2. PICK s : s = SetToSeq(N)
  OBVIOUS
<1>3. s \in Seq(N) /\ \A p \in N : \E k \in 1..Len(s) : s[k] = p
  BY <1>1, <1>2, SeqOfSet
<1>4. PICK t : t = Tail(frontier)
  OBVIOUS
<1>5. /\ frontier \in Seq(Mems \X Nat) /\ Len(frontier) \in Nat /\ Len(frontier) >= 1
      /\ t \in Seq(Mems \X Nat) /\ Len(t) = Len(frontier) - 1
      /\ \A k \in 1..Len(t) : t[k] = frontier[k + 1]
  BY <1>4 DEF RecallTyped
<1>6. s \in Seq(Mems \X Nat) /\ Len(s) \in Nat
  <2>1. N \subseteq Mems \X Nat
    BY <1>0
  <2> QED BY <2>1, <1>3
<1>7. tail = t \o s /\ tail \in Seq(Mems \X Nat) /\ Len(tail) = Len(t) + Len(s)
      /\ \A k \in 1..Len(tail) : tail[k] = IF k <= Len(t) THEN t[k] ELSE s[k - Len(t)]
  BY <1>0, <1>2, <1>4, <1>5, <1>6
<1>7a. /\ Len(t) \in Nat /\ Len(s) \in Nat /\ Len(tail) = Len(t) + Len(s)
       /\ Len(frontier) = Len(t) + 1
  BY <1>5, <1>6, <1>7
<1>8. ASSUME NEW k \in 1..Len(frontier), k # 1
      PROVE  In(tail, frontier[k])
  <2>0. PICK i : i = k - 1
    OBVIOUS
  <2>1. i \in 1..Len(tail) /\ i <= Len(t) /\ i \in 1..Len(t) /\ i + 1 = k
    BY <2>0, <1>7a, <1>8
  <2>2. tail[i] = t[i]
    BY <2>1, <1>7
  <2>3. t[i] = frontier[i + 1]
    BY <2>1, <1>5
  <2> QED BY <2>1, <2>2, <2>3 DEF In
<1>9. ASSUME NEW o \in S PROVE In(tail, <<o, d>>)
  <2>1. PICK k \in 1..Len(s) : s[k] = <<o, d>>
    BY <1>0, <1>3
  <2>2. k + Len(t) \in 1..Len(tail) /\ ~(k + Len(t) <= Len(t)) /\ (k + Len(t)) - Len(t) = k
    BY <2>1, <1>7a
  <2> QED BY <2>1, <2>2, <1>7 DEF In
<1> QED BY <1>7, <1>8, <1>9

LEMMA ExpandNodeInv ==
  ASSUME RecallInv, ExpandNode
  PROVE  RecallInv'
<1>0. PICK m, depth, newer, other :
        /\ m = frontier[1][1] /\ depth = frontier[1][2]
        /\ newer = Newer(m) /\ other = Around(m)
  OBVIOUS
<1>1. /\ phase = "expand" /\ frontier # <<>> /\ UNCHANGED <<phase, hits, tier1, anchors>>
      /\ IF InReach(depth)
         THEN /\ reached' = reached \cup newer \cup other
              /\ found' = found \cup ((newer \cup other) \cap Ours)
              /\ frontier' = Tail(frontier)
                   \o SetToSeq({<<o, depth + 1>> : o \in other \cap Ours})
         ELSE frontier' = Tail(frontier) /\ UNCHANGED <<reached, found>>
  BY <1>0 DEF ExpandNode, Ours
<1>1a. /\ newer \subseteq Ends(m) /\ other = Ends(m) \ (reached \cup newer)
       /\ newer \subseteq Successors({m})
  BY <1>0 DEF Newer, Around, Ends, NeighborEdges, OtherEnd, Successors
<1>2. /\ UNCHANGED <<mems, superseded, graph, retiring, disturbed, graphWrites>>
      /\ Ours' = Ours /\ \A n : Ends(n)' = Ends(n)
      /\ \A M : Successors(M)' = Successors(M)
  BY SameGraph DEF ExpandNode
<1>3. RecallTyped /\ IsFiniteSet(Mems) /\ Hops \in Nat
  BY RecallAssumption DEF RecallInv
<1>4. /\ frontier \in Seq(Mems \X Nat) /\ Len(frontier) \in Nat /\ Len(frontier) >= 1
      /\ frontier[1] = <<m, depth>> /\ m \in Mems /\ depth \in Nat
  <2>1. frontier \in Seq(Mems \X Nat) /\ Len(frontier) >= 1 /\ Len(frontier) \in Nat
    BY <1>1, <1>3 DEF RecallTyped
  <2>2. frontier[1] \in Mems \X Nat
    BY <2>1
  <2> QED BY <2>1, <2>2, <1>0
<1>5. newer \subseteq Ends(m) /\ Ends(m) \subseteq Mems
  BY <1>1a, <1>3, EndsTyped
<1>6. other \cap Ours \in SUBSET Mems
  BY <1>1a, <1>5
<1>7. /\ frontier' \in Seq(Mems \X Nat)
      /\ \A k \in 1..Len(frontier) : k # 1 => In(frontier', frontier[k])
      /\ InReach(depth) => \A o \in other \cap Ours :
           In(frontier', <<o, depth + 1>>)
  <2>1. CASE InReach(depth)
    <3>1. depth + 1 \in Nat
      BY <1>4
    <3>2. PICK tail, S, d : tail = frontier' /\ S = other \cap Ours /\ d = depth + 1
      OBVIOUS
    <3>3. Requeue(S, d, tail)
      BY <3>2, <2>1, <1>1 DEF Requeue
    <3>4. /\ tail \in Seq(Mems \X Nat)
          /\ \A k \in 1..Len(frontier) : k # 1 => In(tail, frontier[k])
          /\ \A o \in S : In(tail, <<o, d>>)
      <4>1. RecallTyped /\ frontier # <<>> /\ IsFiniteSet(Mems) /\ S \in SUBSET Mems /\ d \in Nat
        BY <3>1, <3>2, <1>1, <1>3, <1>6
      <4> QED BY <4>1, <3>3, QueueAfter
    <3> QED BY <3>2, <3>4
  <2>2. CASE ~InReach(depth)
    <3>1. frontier' = Tail(frontier)
      BY <2>2, <1>1
    <3>2. /\ Tail(frontier) \in Seq(Mems \X Nat) /\ Len(Tail(frontier)) = Len(frontier) - 1
          /\ \A k \in 1..Len(frontier) : k # 1 => Tail(frontier)[k - 1] = frontier[k]
                                                 /\ k - 1 \in 1..Len(Tail(frontier))
      BY <1>4
    <3> QED BY <3>1, <3>2, <2>2 DEF In
  <2> QED BY <2>1, <2>2
<1>8. reached \subseteq reached' /\ (InReach(depth) => Ends(m) \subseteq reached')
  BY <1>1, <1>1a, <1>5
<1>9. RecallTyped'
  <2>1. reached' \cup found' \subseteq Mems
    BY <1>1, <1>1a, <1>3, <1>5 DEF RecallTyped, RecallTypeOK
  <2> QED BY <2>1, <1>1, <1>2, <1>3, <1>7 DEF RecallTyped, RecallTypeOK
\* What was in the queue still is, or was the head and is expanded.
<1>10. ASSUME NEW x, NEW d \in Nat, Hops >= d, Queued(<<x, d>>) \/ Ends(x) \subseteq reached
       PROVE  Queued(<<x, d>>)' \/ Ends(x)' \subseteq reached'
  <2>1. CASE Ends(x) \subseteq reached
    BY <2>1, <1>2, <1>8
  <2>2. CASE Queued(<<x, d>>)
    <3>1. PICK k \in 1..Len(frontier) : frontier[k] = <<x, d>>
      BY <2>2 DEF Queued, In
    <3>2. CASE k = 1
      <4>1. m = x /\ depth = d
        BY <3>1, <3>2, <1>4
      <4>2. InReach(depth)
        BY <4>1, <1>10 DEF InReach
      <4> QED BY <4>1, <4>2, <1>2, <1>8
    <3>3. CASE k # 1
      BY <3>1, <3>3, <1>7 DEF Queued, In
    <3> QED BY <3>2, <3>3
  <2> QED BY <1>10, <2>1, <2>2
<1>11. ASSUME ~disturbed PROVE Undisturbed'
  <2>1. Expanding /\ tier1 \cap superseded = {}
    BY <1>1, <1>11 DEF RecallInv, Undisturbed
  <2>2. tier1 \subseteq reached' /\ anchors \subseteq tier1
    BY <2>1, <1>8 DEF Expanding
  <2>3. reached' \cap Ours \subseteq tier1 \cup found'
    BY <2>1, <1>1 DEF Expanding
  <2>4. ASSUME Hops >= 1, NEW a \in tier1 \ anchors
        PROVE  Queued(<<a, 1>>)' \/ Ends(a)' \subseteq reached'
    <3>1. Queued(<<a, 1>>) \/ Ends(a) \subseteq reached
      BY <2>1, <2>4 DEF Expanding
    <3> QED BY <3>1, <2>4, <1>10
  <2>5. ASSUME Hops >= 2, NEW t, tier1 = {t} PROVE AroundOnly(t)'
    <3>1. AroundOnly(t)
      BY <2>1, <2>5 DEF Expanding
    <3>2. CASE frontier = << <<t, 1>> >> /\ reached = {t}
      <4>1. m = t /\ depth = 1
        BY <3>2, <1>4
      <4>2. InReach(depth)
        BY <4>1, <2>5, <1>3 DEF InReach
      <4>4. ASSUME NEW x \in (Ends(t) \cap Ours) \ Successors({t}), x # t PROVE Queued(<<x, 2>>)'
        <5>1. x \in other \cap Ours
          BY <4>1, <4>4, <3>2, <1>1a
        <5>2. depth + 1 = 2
          BY <4>1
        <5> QED BY <5>1, <5>2, <4>2, <1>7 DEF Queued, In
      <4> QED BY <4>4, <1>2 DEF AroundOnly
    <3>3. CASE \A x \in (Ends(t) \cap Ours) \ Successors({t}) :
                 x = t \/ Queued(<<x, 2>>) \/ Ends(x) \subseteq reached
      <4>1. ASSUME NEW x \in (Ends(t) \cap Ours) \ Successors({t}), x # t
            PROVE  Queued(<<x, 2>>)' \/ Ends(x)' \subseteq reached'
        BY <3>3, <4>1, <2>5, <1>10
      <4> QED BY <4>1, <1>2 DEF AroundOnly
    <3> QED BY <3>1, <3>2, <3>3, <1>1 DEF AroundOnly
  <2>6. Expanding'
    BY <1>1, <1>2, <2>2, <2>3, <2>4, <2>5 DEF Expanding
  <2> QED BY <1>1, <1>2, <2>1, <2>6 DEF Undisturbed
<1> QED BY <1>2, <1>9, <1>11 DEF RecallInv

LEMMA BacktrackInv ==
  ASSUME RecallInv, Backtrack
  PROVE  RecallInv'
<1>1. /\ phase = "expand" /\ anchors = {} /\ frontier = <<>> /\ phase' = "done"
      /\ found \subseteq found' /\ found' \subseteq found \cup mems
      /\ UNCHANGED <<hits, tier1, anchors, frontier, reached>>
  BY DEF Backtrack
<1>2. /\ UNCHANGED <<mems, superseded, graph, retiring, disturbed, graphWrites>>
      /\ Ours' = Ours /\ \A n : Ends(n)' = Ends(n)
      /\ \A M : Successors(M)' = Successors(M)
  BY SameGraph DEF Backtrack
<1>3. RecallTyped'
  BY <1>1, <1>2 DEF RecallInv, RecallTyped, RecallTypeOK
<1>4. \A n : Queued(n)' <=> Queued(n)
  BY <1>1 DEF Queued, In
<1>5. ASSUME ~disturbed PROVE Undisturbed'
  <2>1. Expanding /\ tier1 \cap superseded = {}
    BY <1>1, <1>5 DEF RecallInv, Undisturbed
  <2>2. \A t : AroundOnly(t) => AroundOnly(t)'
    BY <1>1, <1>2, <1>4 DEF AroundOnly
  <2>3. Expanding'
    BY <1>1, <1>2, <1>4, <2>1, <2>2 DEF Expanding
  <2> QED BY <1>1, <1>2, <2>1, <2>3 DEF Undisturbed
<1> QED BY <1>2, <1>3, <1>5 DEF RecallInv

\* A write that keeps to the types: what is disturbed is promised nothing, and
\* no recall is under way otherwise.
LEMMA WrittenInv ==
  ASSUME RecallInv, Written,
         mems' \subseteq Mems /\ superseded' \subseteq Mems /\ graph' \subseteq Edges,
         retiring' \in [old : SUBSET Mems, newer : SUBSET Mems, open : SUBSET Edges],
         graphWrites' \in 0..GraphWrites
  PROVE  RecallInv'
<1>1. /\ disturbed' = (phase # "idle")
      /\ UNCHANGED <<phase, hits, tier1, anchors, frontier, reached, found>>
  BY DEF Written
<1>2. RecallTyped'
  BY <1>1 DEF RecallInv, RecallTyped, RecallTypeOK
<1>3. ~disturbed' => Undisturbed'
  BY <1>1 DEF Undisturbed, RecallInv, RecallTyped
<1> QED BY <1>2, <1>3 DEF RecallInv

LEMMA WritesInv ==
  ASSUME RecallInv, NEW a \in Mems, NEW b \in Mems, NEW r \in Relations,
         ForgetMemory(a) \/ LinkMemories(a, r, b)
  PROVE  RecallInv'
<1>1. graphWrites' \in 0..GraphWrites
  BY RecallAssumption DEF ForgetMemory, LinkMemories, Counted, RecallInv, RecallTyped, RecallTypeOK
<1>2. Edge(a, r, b) \in Edges
  BY DEF Edge, Edges
<1>3. mems' \subseteq Mems /\ graph' \subseteq Edges /\ UNCHANGED <<superseded, retiring>> /\ Written
  BY <1>2 DEF ForgetMemory, LinkMemories, RecallInv, RecallTyped, RecallTypeOK
<1> QED BY <1>1, <1>3, WrittenInv DEF RecallInv, RecallTyped, RecallTypeOK

LEMMA RetireInv ==
  ASSUME RecallInv,
         \/ \E e \in retiring.open : CloseOld(e)
         \/ \E a, b \in Mems : NameNewer(a, b)
         \/ \E a \in Mems : MarkOld(a)
  PROVE  RecallInv'
<1> USE DEF RecallInv, RecallTyped, RecallTypeOK
<1>1. CASE \E e \in retiring.open : CloseOld(e)
  <2>1. /\ Written /\ graph' \subseteq graph /\ UNCHANGED <<mems, superseded, graphWrites>>
        /\ retiring' \in [old : SUBSET Mems, newer : SUBSET Mems, open : SUBSET Edges]
    BY <1>1 DEF CloseOld
  <2> QED BY <2>1, WrittenInv
<1>2. CASE \E a, b \in Mems : NameNewer(a, b)
  <2>1. PICK a \in Mems, b \in Mems : NameNewer(a, b)
    BY <1>2
  <2>2. Edge(a, "supersedes", b) \in Edges
    BY DEF Edge, Edges, Relations
  <2>3. /\ Written /\ graph' \subseteq Edges /\ UNCHANGED <<mems, superseded, graphWrites>>
        /\ retiring' \in [old : SUBSET Mems, newer : SUBSET Mems, open : SUBSET Edges]
    BY <2>1, <2>2 DEF NameNewer
  <2> QED BY <2>3, WrittenInv
<1>3. CASE \E a \in Mems : MarkOld(a)
  <2>1. /\ Written /\ mems' \subseteq Mems /\ superseded' \subseteq Mems
        /\ UNCHANGED <<graph, graphWrites>> /\ retiring' = NotRetiring
    BY <1>3 DEF MarkOld
  <2>2. NotRetiring \in [old : SUBSET Mems, newer : SUBSET Mems, open : SUBSET Edges]
    BY DEF NotRetiring
  <2> QED BY <2>1, <2>2, WrittenInv
<1> QED BY <1>1, <1>2, <1>3

\* The recall and the graph stay as they are.
LEMMA UnseenInv ==
  ASSUME RecallInv,
         UNCHANGED <<mems, superseded, graph, phase, hits, tier1, anchors, frontier, reached,
                     found, disturbed>>,
         retiring' \in [old : SUBSET Mems, newer : SUBSET Mems, open : SUBSET Edges],
         graphWrites' \in 0..GraphWrites
  PROVE  RecallInv'
<1>1. /\ Ours' = Ours /\ \A n : Ends(n)' = Ends(n)
      /\ \A M : Successors(M)' = Successors(M)
  BY DEF Ours, Ends, NeighborEdges, OtherEnd, Successors
<1>2. RecallTyped'
  BY DEF RecallInv, RecallTyped, RecallTypeOK
<1>3. \A n : Queued(n)' <=> Queued(n)
  BY DEF Queued, In
<1>4. \A t : AroundOnly(t) => AroundOnly(t)'
  BY <1>1, <1>3 DEF AroundOnly
<1>5. Undisturbed => Undisturbed'
  BY <1>1, <1>3, <1>4 DEF Undisturbed, Expanding
<1> QED BY <1>2, <1>5 DEF RecallInv

LEMMA QuietStepsInv ==
  ASSUME RecallInv,
         \/ \E a \in Mems, N \in SUBSET Mems : RetireMemory(a, N)
         \/ RetireStops
         \/ UNCHANGED recallVars
  PROVE  RecallInv'
<1> USE DEF RecallInv, RecallTyped, RecallTypeOK
<1>1. CASE \E a \in Mems, N \in SUBSET Mems : RetireMemory(a, N)
  <2>1. PICK a \in Mems, N \in SUBSET Mems : RetireMemory(a, N)
    BY <1>1
  <2>2. NeighborEdges(a) \subseteq Edges
    BY DEF NeighborEdges
  <2>3. retiring' \in [old : SUBSET Mems, newer : SUBSET Mems, open : SUBSET Edges]
    BY <2>1, <2>2 DEF RetireMemory
  <2>4. graphWrites' \in 0..GraphWrites
    BY <2>1, RecallAssumption DEF RetireMemory, Counted
  <2> QED BY <2>1, <2>3, <2>4, UnseenInv DEF RetireMemory
<1>2. CASE RetireStops
  <2>1. NotRetiring \in [old : SUBSET Mems, newer : SUBSET Mems, open : SUBSET Edges]
    BY DEF NotRetiring
  <2> QED BY <1>2, <2>1, UnseenInv DEF RetireStops
<1>3. CASE UNCHANGED recallVars
  BY <1>3, UnseenInv DEF recallVars
<1> QED BY <1>1, <1>2, <1>3

LEMMA RecallInvariant == RecallSpec => []RecallInv
<1>1. RecallInit => RecallInv
  <2> SUFFICES ASSUME RecallInit PROVE RecallInv
    OBVIOUS
  <2>1. graph \subseteq Edges
    BY DEF RecallInit, Edge, Edges, Relations
  <2> QED BY <2>1, RecallAssumption
          DEF RecallInit, NotRetiring, RecallInv, RecallTyped, RecallTypeOK, Undisturbed
<1>2. RecallInv /\ [RecallNext]_recallVars => RecallInv'
  <2> SUFFICES ASSUME RecallInv, [RecallNext]_recallVars PROVE RecallInv'
    OBVIOUS
  <2>1. CASE \E H \in SUBSET Mems : SearchIndex(H)
    BY <2>1, ReadingInv
  <2>2. ASSUME NEW h \in Mems, ReadHit(h) \/ NextAnchor(h) \/ ForgetMemory(h) PROVE RecallInv'
    <3>1. "related" \in Relations
      BY DEF Relations
    <3> QED BY <2>2, <3>1, ReadingInv, NextAnchorInv, WritesInv
  <2>3. CASE \E T \in SUBSET Mems : Rank(T)
    BY <2>3, RankInv
  <2>4. CASE ExpandNode \/ Backtrack \/ Answer
    BY <2>4, ExpandNodeInv, BacktrackInv, ReadingInv
  <2>5. CASE \E a, b \in Mems, r \in Relations : LinkMemories(a, r, b)
    BY <2>5, WritesInv
  <2>6. CASE \/ \E e \in retiring.open : CloseOld(e)
             \/ \E a, b \in Mems : NameNewer(a, b)
             \/ \E a \in Mems : MarkOld(a)
    BY <2>6, RetireInv
  <2>7. CASE \/ \E a \in Mems, N \in SUBSET Mems : RetireMemory(a, N)
             \/ RetireStops
             \/ UNCHANGED recallVars
    BY <2>7, QuietStepsInv
  <2> QED BY <2>1, <2>2, <2>3, <2>4, <2>5, <2>6, <2>7 DEF RecallNext
<1> QED BY <1>1, <1>2, PTL DEF RecallSpec

\* What a recall holds, and the memories it may return.
THEOREM RecallTypeCorrect == RecallSpec => []RecallTypeOK
<1>1. RecallInv => RecallTypeOK
  BY DEF RecallInv, RecallTyped
<1> QED BY <1>1, RecallInvariant, PTL

\* The graph tier of a recall that nobody disturbs misses no memory of the
\* workspace next to a result, nor one two hops from a single result, unless it is
\* behind a version said to supersede that result.
THEOREM GraphIsFollowedTheorem == RecallSpec => []GraphIsFollowed
<1>1. RecallInv => GraphIsFollowed
  <2> SUFFICES ASSUME RecallInv, phase = "done", ~disturbed
               PROVE  /\ Hops >= 1 => Beside(tier1) \subseteq tier1 \cup found
                      /\ Hops >= 2 /\ Cardinality(tier1) = 1 =>
                           Beside(Beside(tier1) \ Successors(tier1))
                             \subseteq tier1 \cup found
    BY DEF GraphIsFollowed
  <2>1. Expanding /\ anchors = {} /\ frontier = <<>>
    BY DEF RecallInv, Undisturbed
  <2>2. \A n : ~Queued(n)
    BY <2>1 DEF Queued, In
  <2>3. \A M, x : x \in Beside(M) => x \in Ours /\ (x \in M \/ \E y \in M : x \in Ends(y))
    <3> SUFFICES ASSUME NEW M, NEW x \in Beside(M)
                 PROVE  x \in Ours /\ (x \in M \/ \E y \in M : x \in Ends(y))
      OBVIOUS
    <3>1. PICK e \in graph : {e.src, e.dst} \cap M # {} /\ x \in {e.src, e.dst} /\ x \in Ours
      BY DEF Beside, Ours
    <3>2. PICK y \in M : y \in {e.src, e.dst}
      BY <3>1
    <3>3. CASE x = y
      BY <3>1, <3>2, <3>3
    <3>4. CASE x # y
      <4>1. e \in NeighborEdges(y) /\ x = OtherEnd(y, e)
        BY <3>1, <3>2, <3>4 DEF NeighborEdges, OtherEnd
      <4> QED BY <4>1, <3>1, <3>2 DEF Ends
    <3> QED BY <3>3, <3>4
  <2>4. ASSUME Hops >= 1, NEW a \in tier1 PROVE Ends(a) \subseteq reached
    BY <2>1, <2>2, <2>4 DEF Expanding
  <2>5. reached \cap Ours \subseteq tier1 \cup found
    BY <2>1 DEF Expanding
  <2>6. Hops >= 1 => Beside(tier1) \subseteq tier1 \cup found
    BY <2>3, <2>4, <2>5
  <2>7. ASSUME Hops >= 2, Cardinality(tier1) = 1,
               NEW x \in Beside(Beside(tier1) \ Successors(tier1))
        PROVE  x \in tier1 \cup found
    <3>1. IsFiniteSet(tier1)
      BY RecallAssumption, FS_Subset DEF RecallInv, RecallTyped, RecallTypeOK
    <3>2. PICK t : tier1 = {t}
      BY <3>1, <2>7, FS_Singleton
    <3>3. Hops >= 1
      BY <2>7, RecallAssumption
    <3>4. AroundOnly(t)
      BY <2>1, <2>7, <3>2 DEF Expanding
    <3>5. \A y \in (Ends(t) \cap Ours) \ Successors({t}) : y = t \/ Ends(y) \subseteq reached
      BY <3>2, <3>4, <2>1, <2>2 DEF AroundOnly
    <3>6. CASE x \in Beside(tier1)
      BY <3>3, <3>6, <2>6
    <3>7. ASSUME NEW y \in Beside(tier1) \ Successors(tier1), x \in Ends(y), x \in Ours PROVE x \in tier1 \cup found
      <4>1. y \in Ours /\ (y = t \/ y \in Ends(t))
        BY <3>2, <3>7, <2>3
      <4>2. Ends(y) \subseteq reached
        BY <4>1, <3>2, <3>3, <3>5, <2>4
      <4> QED BY <4>2, <3>7, <2>5
    <3> QED BY <3>6, <3>7, <2>3, <2>7
  <2> QED BY <2>6, <2>7
<1> QED BY <1>1, RecallInvariant, PTL
-----------------------------------------------------------------------------
(***************************************************************************)
(* MCOperations, the composition that is model-checked, adds nothing to    *)
(* its parts: a behaviour of it is one of each of them.  So whatever is    *)
(* proved of a part, here or in LayersProofs, holds of the composition.    *)
(***************************************************************************)

LEMMA OperationsParts ==
  MCSpec => /\ Spec
            /\ UserSpec
            /\ RecallSpec
            /\ RememberSpec
            /\ L5Spec
            /\ L6Spec
            /\ PbSpec
            /\ RegistrySpec
            /\ FrontSpec
<1>1. MCInit => /\ Init
                /\ UserInit
                /\ RecallInit
                /\ RememberInit
                /\ L5Init
                /\ L6Init
                /\ PbInit
                /\ RegistryInit
                /\ FrontInit
  BY DEF MCInit
<1>2. [MCNext]_allVars => [Next]_vars
  BY DEF MCNext, allVars
<1>3. [MCNext]_allVars => [UserNext]_userVars
  BY DEF MCNext, allVars
<1>4. [MCNext]_allVars => [RecallNext]_recallVars
  BY DEF MCNext, allVars
<1>5. [MCNext]_allVars => [RememberNext]_rememberVars
  BY DEF MCNext, allVars
<1>6. [MCNext]_allVars => [L5Next]_l5Vars
  BY DEF MCNext, allVars
<1>7. [MCNext]_allVars => [L6Next]_l6Vars
  BY DEF MCNext, allVars
<1>8. [MCNext]_allVars => [PbNext]_pbVars
  BY DEF MCNext, allVars
<1>9. [MCNext]_allVars => [RegistryNext]_registryVars
  BY DEF MCNext, allVars
<1>10. [MCNext]_allVars => [FrontNext]_frontVars
  BY DEF MCNext, allVars
<1> QED
  BY <1>1, <1>2, <1>3, <1>4, <1>5, <1>6, <1>7, <1>8, <1>9, <1>10, PTL
     DEF MCSpec, Spec, UserSpec, RecallSpec, RememberSpec, L5Spec, L6Spec, PbSpec, RegistrySpec, FrontSpec

(* In the composition every part is typed.                                  *)
THEOREM OperationsTypeCorrect == MCSpec => []TypesOK
  BY OperationsParts, RowTypeCorrect, UserTypeCorrect, RecallTypeCorrect, RememberTypeCorrect,
     L5TypeCorrect, L6TypeCorrect, PbTypeCorrect, RegistryTypeCorrect, FrontTypeCorrect, PTL
     DEF TypesOK
=============================================================================
