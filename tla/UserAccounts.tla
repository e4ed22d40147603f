----------------------------- MODULE UserAccounts -----------------------------
(***************************************************************************)
(* The accounts behind the HTTP API's Basic auth: the handlers of          *)
(* api/crud.go, each behind the auth middleware of api/api.go, and the     *)
(* `ladym user` commands (cli/user.go), which go to the same table.  A     *)
(* change reads the account in one statement and writes it back whole in   *)
(* another.                                                                *)
(***************************************************************************)
EXTENDS Naturals, FiniteSets

CONSTANTS Clerks,     \* requests and commands that may run together
          Accounts,   \* user names
          Founder,    \* the account `ladym user add` made first, an admin
          Hashes, Workspaces,
          NoUser,     \* no row
          Anyone      \* who asks a server that runs without authentication

ASSUME UserAssumption == Anyone \notin Accounts /\ Anyone # NoUser

VARIABLES
  users,      \* users table: name -> [hash, ws, admin] or NoUser
  clerk,      \* clerk -> [op, name, at, row, caller]
  meant,      \* history: name -> the row its completed changes add up to
  crossed     \* history: names two changes of which overlapped

userVars == <<users, clerk, meant, crossed>>

UserRow == [hash : Hashes, ws : Workspaces, admin : BOOLEAN]
Rest == [at |-> "idle"]

UserInit ==
  /\ \E h \in Hashes, w \in Workspaces :
       users = [u \in Accounts |-> IF u = Founder THEN [hash |-> h, ws |-> w, admin |-> TRUE]
                                   ELSE NoUser]
  /\ clerk = [c \in Clerks |-> Rest]
  /\ meant = users /\ crossed = {}

Busy(u) == {c \in Clerks : clerk[c] # Rest /\ clerk[c].at # "caller" /\ clerk[c].name = u}

\* withAuth, checkCredentials and requireAdmin: the caller's row is read once;
\* only an admin goes on.  A command has no caller.
Authenticate(c, caller) ==
  /\ clerk[c] = Rest
  /\ users[caller] # NoUser /\ users[caller].admin
  /\ clerk' = [clerk EXCEPT ![c] = [at |-> "caller", caller |-> caller]]
  /\ UNCHANGED <<users, meant, crossed>>
Command(c) ==
  /\ clerk[c] = Rest
  /\ clerk' = [clerk EXCEPT ![c] = [at |-> "caller", caller |-> NoUser]]
  /\ UNCHANGED <<users, meant, crossed>>

\* A server with [auth] disabled asks nobody who they are (it may serve the table
\* next to one that does).
Anonymous(c) ==
  /\ clerk[c] = Rest
  /\ clerk' = [clerk EXCEPT ![c] = [at |-> "caller", caller |-> Anyone]]
  /\ UNCHANGED <<users, meant, crossed>>

\* The statement that reads the account.  create answers 409 if it is there, the
\* others 404 if it is not, delete 400 for the caller's own; a command may
\* change a password or delete, and its "add" reads nothing.
Allowed(c, op, u) ==
  CASE op = "create" -> clerk[c].caller # NoUser /\ users[u] = NoUser
    [] op = "update" -> clerk[c].caller # NoUser /\ users[u] # NoUser
    [] op = "delete" -> clerk[c].caller # u /\ users[u] # NoUser
    [] op = "passwd" -> clerk[c].caller = NoUser /\ users[u] # NoUser
    [] op = "add"    -> clerk[c].caller = NoUser
ReadUser(c, op, u) ==
  /\ clerk[c].at = "caller"
  /\ IF Allowed(c, op, u)
     THEN /\ clerk' = [clerk EXCEPT ![c] = [at |-> "write", op |-> op, name |-> u, row |-> users[u]]]
          /\ crossed' = IF Busy(u) = {} THEN crossed ELSE crossed \cup {u}
     ELSE clerk' = [clerk EXCEPT ![c] = Rest] /\ UNCHANGED crossed
  /\ UNCHANGED <<users, meant>>

\* The row a change writes: a patch leaves what it does not name.
MutPatched(row, patch) == [row EXCEPT !.ws = patch.ws, !.admin = patch.admin, !.hash = patch.hash]
Patched(row, patch) ==
  [hash  |-> IF "hash" \in patch.fields THEN patch.hash ELSE row.hash,
   ws    |-> IF "ws" \in patch.fields THEN patch.ws ELSE row.ws,
   admin |-> IF "admin" \in patch.fields THEN patch.admin ELSE row.admin]
Patch == [fields : SUBSET {"hash", "ws", "admin"}, hash : Hashes, ws : Workspaces, admin : BOOLEAN]

Finish(c, u, written, intended) ==
  /\ users' = [users EXCEPT ![u] = written]
  /\ meant' = [meant EXCEPT ![u] = intended]
  /\ clerk' = [clerk EXCEPT ![c] = Rest]
  /\ UNCHANGED crossed

\* PutUser, an upsert: what a patch is meant to do is to change the fields it
\* names of the row as it is left by the changes before it.
PutNew(c, row) ==
  /\ clerk[c].at = "write" /\ clerk[c].op \in {"create", "add"}
  /\ Finish(c, clerk[c].name, row, row)
PutPatched(c, patch) ==
  /\ clerk[c].at = "write" /\ clerk[c].op \in {"update", "passwd"}
  /\ clerk[c].op = "passwd" => patch.fields = {"hash"}
  /\ LET u == clerk[c].name
         named(f, new) == IF f \in patch.fields THEN new ELSE meant[u][f]
     IN Finish(c, u, Patched(clerk[c].row, patch),
               IF meant[u] = NoUser THEN NoUser
               ELSE [hash |-> named("hash", patch.hash), ws |-> named("ws", patch.ws),
                     admin |-> named("admin", patch.admin)])
DeleteUser(c) ==
  /\ clerk[c].at = "write" /\ clerk[c].op = "delete"
  /\ Finish(c, clerk[c].name, NoUser, NoUser)

\* A statement fails, or the password cannot be hashed: nothing is written.
UserFails(c) ==
  /\ clerk[c] # Rest
  /\ clerk' = [clerk EXCEPT ![c] = Rest]
  /\ UNCHANGED <<users, meant, crossed>>

UserNext ==
  \E c \in Clerks :
    \/ \E u \in Accounts : Authenticate(c, u)
    \/ Command(c) \/ Anonymous(c) \/ UserFails(c)
    \/ \E u \in Accounts, op \in {"create", "update", "delete", "passwd", "add"} : ReadUser(c, op, u)
    \/ \E row \in UserRow : PutNew(c, row)
    \/ \E patch \in Patch : PutPatched(c, patch)
    \/ DeleteUser(c)

UserSpec == UserInit /\ [][UserNext]_userVars

UserTypeOK ==
  /\ \A u \in Accounts : users[u] \in UserRow \cup {NoUser}
  /\ crossed \subseteq Accounts

\* An account is what its changes add up to, field by field, through requests
\* and commands that run together; a deleted one stays deleted until somebody
\* makes it again.  (Two changes of one account that overlap may lose one: a
\* patch writes the whole row it read, and brings back a row deleted meanwhile.)
ChangesAddUp == \A u \in Accounts \ crossed : users[u] = meant[u]
=============================================================================
