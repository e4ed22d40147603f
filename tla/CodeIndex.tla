------------------------------ MODULE CodeIndex ------------------------------
(***************************************************************************)
(* code/indexer.go over the tables of storage/store_sqlite.go: an index    *)
(* pass walks a project, skips the files whose hash index_state has, and   *)
(* for the others deletes the old artifacts and writes the new ones, one   *)
(* statement at a time.  It may fail or be killed between any two.  Files  *)
(* are edited meanwhile, and projects share the database.                  *)
(*                                                                         *)
(* A file is abstracted to its version, which stands for its hash, for the *)
(* symbols it defines and for the calls among them.                        *)
(***************************************************************************)
EXTENDS Integers, FiniteSets

CONSTANTS Indexers,    \* processes that index
          Workspaces,  \* projects in the database
          Paths,       \* workspace -> the relative paths its project may have
          Module,      \* path -> moduleName: the path without its extension
          Versions,    \* contents of a file
          Names,       \* symbol names
          Symbols,     \* version -> the names it defines
          Calls,       \* version -> its calls, pairs of names
          MaxFailures, \* bound on failed statements and killed passes
          None

Files == UNION {Paths[w] : w \in Workspaces}

ASSUME CodeIndexAssumption ==
  /\ Files \subseteq Int
  /\ DOMAIN Module = Files
  /\ Symbols \in [Versions -> SUBSET Names]
  /\ \A v \in Versions : Calls[v] \subseteq Symbols[v] \X Symbols[v]  \* BuildRefs
  /\ DOMAIN Calls = Versions
  /\ MaxFailures \in Nat
  /\ None \notin Versions \cup Names \cup Files \cup Workspaces \cup Indexers

VARIABLES
  disk,      \* workspace -> path -> the version on disk, or None
  used,      \* workspace -> path -> the versions that have been on disk
  about,     \* <<workspace, path>> -> version its code_file memory describes
  symbols,   \* <<workspace, path, name>> -> version of its code_symbol memory
  rows,      \* the keys of `symbols` that have a row in code_symbols
  refs,      \* code_refs, as <<module, name, name>>
  edges,     \* the projected L4 edges: pairs of keys of `symbols`
  hashes,    \* index_state: path -> version, or None
  lock,      \* the indexer that holds <db>.index.lock
  pass,      \* indexer -> its pass
  failures,  \* statements that have failed and passes killed
  plain      \* history: no pass ignored the hashes, no edit brought back an
             \* earlier version

code == <<about, symbols, rows, refs, edges, hashes>>
vars == <<disk, used, code, lock, pass, failures, plain>>

Keys   == UNION {{<<w, f, n>> : f \in Paths[w], n \in Names} : w \in Workspaces}
Homes  == UNION {{<<w, f>> : f \in Paths[w]} : w \in Workspaces}
Modules == {Module[f] : f \in Files}
Points == {"idle", "next", "delete_refs", "delete_rows", "delete_symbols", "delete_file",
           "put_file", "symbols", "put_symbol", "put_row", "set_indexed", "report"}

Pass == [pc : Points, ws : Workspaces \cup {None}, force : BOOLEAN,
         queue : SUBSET Files,              \* walked and not reached
         file : Files \cup {None},          \* the file in hand
         version : Versions \cup {None},    \* as it was read
         rest : SUBSET Names,               \* its symbols still to write
         name : Names \cup {None},          \* the symbol in hand
         batch : SUBSET (Modules \X Names \X Names),  \* batchRefs
         done : SUBSET (Files \X Versions)] \* found or made up to date

Idle == [pc |-> "idle", ws |-> None, force |-> FALSE, queue |-> {}, file |-> None,
         version |-> None, rest |-> {}, name |-> None, batch |-> {}, done |-> {}]

TypeOK ==
  /\ disk \in [Workspaces -> [Files -> Versions \cup {None}]]
  /\ used \in [Workspaces -> [Files -> SUBSET Versions]]
  /\ about \in [Homes -> Versions \cup {None}]
  /\ symbols \in [Keys -> Versions \cup {None}]
  /\ rows \subseteq Keys
  /\ refs \subseteq Modules \X Names \X Names
  /\ edges \subseteq Keys \X Keys
  /\ hashes \in [Files -> Versions \cup {None}]
  /\ lock \in Indexers \cup {None}
  /\ pass \in [Indexers -> Pass]
  /\ \A i \in Indexers :
       /\ pass[i].pc # "idle" => pass[i].ws # None
       /\ pass[i].pc \notin {"idle", "next", "report"} =>
            pass[i].file # None /\ pass[i].version # None
  /\ failures \in 0..MaxFailures
  /\ plain \in BOOLEAN

Init ==
  /\ disk = [w \in Workspaces |-> [f \in Files |-> None]]
  /\ used = [w \in Workspaces |-> [f \in Files |-> {}]]
  /\ about = [h \in Homes |-> None]
  /\ symbols = [k \in Keys |-> None]
  /\ rows = {} /\ refs = {} /\ edges = {}
  /\ hashes = [f \in Files |-> None]
  /\ lock = None
  /\ pass = [i \in Indexers |-> Idle]
  /\ failures = 0
  /\ plain = TRUE

-----------------------------------------------------------------------------

\* The user writes or removes a file of a project.
Edit(w, f, v) ==
  /\ v # disk[w][f]
  /\ disk' = [disk EXCEPT ![w][f] = v]
  /\ used' = [used EXCEPT ![w][f] = @ \cup ({v} \ {None})]
  /\ plain' = (plain /\ v \notin used[w][f])
  /\ UNCHANGED <<code, lock, pass, failures>>

-----------------------------------------------------------------------------
(* IndexCodebase.                                                          *)

\* The lock is taken or the call fails; the tree is walked, and a language
\* filter may leave files out.
Start(i, w, force) ==
  /\ pass[i].pc = "idle" /\ lock = None
  /\ lock' = i
  /\ plain' = (plain /\ ~force)
  /\ \E walked \in SUBSET {f \in Paths[w] : disk[w][f] # None} :
       pass' = [pass EXCEPT ![i] = [Idle EXCEPT !.pc = "next", !.ws = w, !.force = force,
                                                !.queue = walked]]
  /\ UNCHANGED <<disk, used, code, failures>>

\* The next file in path order is read: it is gone, it is unchanged, or its
\* artifacts are to be replaced.
ReadFile(i) ==
  LET w == pass[i].ws  fs == pass[i].queue IN
  \E f \in fs :
    LET v == disk[w][f]
        left == [pass[i] EXCEPT !.queue = fs \ {f}]
    IN /\ pass[i].pc = "next"
       /\ \A g \in fs : f <= g
       /\ pass' = [pass EXCEPT ![i] =
            IF v = None THEN left
            ELSE IF ~pass[i].force /\ hashes[f] = v
              THEN [left EXCEPT !.done = @ \cup {<<f, v>>}]
            ELSE [left EXCEPT !.pc = "delete_refs", !.file = f, !.version = v]]
       /\ UNCHANGED <<disk, used, code, lock, failures, plain>>

\* DeleteCodeArtifactsByFile, its three statements.  The first two go by path
\* and reach every workspace.
RowsOf(f) == {k \in rows : k[2] = f}

\* The memory of key k defines one end of code_ref r.
Touches(k, r) == Module[k[2]] = r[1] /\ k[3] \in {r[2], r[3]}

DeleteRefs(i) ==
  LET f == pass[i].file IN
  /\ pass[i].pc = "delete_refs"
  /\ refs' = {r \in refs : \A k \in RowsOf(f) : ~Touches(k, r)}
  /\ pass' = [pass EXCEPT ![i].pc = "delete_rows"]
  /\ UNCHANGED <<disk, used, about, symbols, rows, edges, hashes, lock, failures, plain>>

DeleteRows(i) ==
  /\ pass[i].pc = "delete_rows"
  /\ rows' = rows \ RowsOf(pass[i].file)
  /\ pass' = [pass EXCEPT ![i].pc = "delete_symbols"]
  /\ UNCHANGED <<disk, used, about, symbols, refs, edges, hashes, lock, failures, plain>>

\* The edges of deleted memories go with them, and their rows.
Drop(gone) ==
  /\ symbols' = [k \in Keys |-> IF k \in gone THEN None ELSE symbols[k]]
  /\ rows' = rows \ gone
  /\ edges' = {e \in edges : e[1] \notin gone /\ e[2] \notin gone}

MutDeleteSymbols(i) ==
  LET w == pass[i].ws  f == pass[i].file IN
  /\ pass[i].pc = "delete_symbols"
  /\ Drop({k \in Keys : k[1] = w /\ k[2] = f})
  /\ hashes' = [hashes EXCEPT ![f] = pass[i].version]
  /\ pass' = [pass EXCEPT ![i].pc = "delete_file"]
  /\ UNCHANGED <<disk, used, about, refs, lock, failures, plain>>

DeleteSymbols(i) ==
  LET w == pass[i].ws  f == pass[i].file IN
  /\ pass[i].pc = "delete_symbols"
  /\ Drop({k \in Keys : k[1] = w /\ k[2] = f})
  /\ pass' = [pass EXCEPT ![i].pc = "delete_file"]
  /\ UNCHANGED <<disk, used, about, refs, hashes, lock, failures, plain>>

\* putFileMemory.
DeleteFile(i) ==
  /\ pass[i].pc = "delete_file"
  /\ about' = [about EXCEPT ![<<pass[i].ws, pass[i].file>>] = None]
  /\ pass' = [pass EXCEPT ![i].pc = "put_file"]
  /\ UNCHANGED <<disk, used, symbols, rows, refs, edges, hashes, lock, failures, plain>>

PutFile(i) ==
  /\ pass[i].pc = "put_file"
  /\ about' = [about EXCEPT ![<<pass[i].ws, pass[i].file>>] = pass[i].version]
  /\ pass' = [pass EXCEPT ![i].pc = "symbols", ![i].rest = Symbols[pass[i].version]]
  /\ UNCHANGED <<disk, used, symbols, rows, refs, edges, hashes, lock, failures, plain>>

\* putSymbolMemory: what has the qualified name and a row is deleted, though
\* another file defined it; then the memory is written, then its row.
DeleteSymbol(i) ==
  \E n \in pass[i].rest :
    /\ pass[i].pc = "symbols"
    /\ Drop({k \in rows : k[1] = pass[i].ws /\ Module[k[2]] = Module[pass[i].file] /\ k[3] = n})
    /\ pass' = [pass EXCEPT ![i].pc = "put_symbol", ![i].name = n, ![i].rest = @ \ {n}]
    /\ UNCHANGED <<disk, used, about, refs, hashes, lock, failures, plain>>

PutSymbol(i) ==
  /\ pass[i].pc = "put_symbol"
  /\ symbols' = [symbols EXCEPT ![<<pass[i].ws, pass[i].file, pass[i].name>>] = pass[i].version]
  /\ pass' = [pass EXCEPT ![i].pc = "put_row"]
  /\ UNCHANGED <<disk, used, about, rows, refs, edges, hashes, lock, failures, plain>>

PutRow(i) ==
  /\ pass[i].pc = "put_row"
  /\ rows' = rows \cup {<<pass[i].ws, pass[i].file, pass[i].name>>}
  /\ pass' = [pass EXCEPT ![i].pc = "symbols", ![i].name = None]
  /\ UNCHANGED <<disk, used, about, symbols, refs, edges, hashes, lock, failures, plain>>

\* PutCodeRefs, one transaction.
FileRefs(f, v) == {<<Module[f], c[1], c[2]>> : c \in Calls[v]}

MutPutRefs(i) ==
  LET new == FileRefs(pass[i].file, pass[i].version) IN
  /\ pass[i].pc = "symbols" /\ pass[i].rest = {}
  /\ refs' = refs \cup new
  /\ pass' = [pass EXCEPT ![i].pc = "set_indexed", ![i].batch = new]
  /\ UNCHANGED <<disk, used, about, symbols, rows, edges, hashes, lock, failures, plain>>

PutRefs(i) ==
  LET new == FileRefs(pass[i].file, pass[i].version) IN
  /\ pass[i].pc = "symbols" /\ pass[i].rest = {}
  /\ refs' = refs \cup new
  /\ pass' = [pass EXCEPT ![i].pc = "set_indexed", ![i].batch = @ \cup new]
  /\ UNCHANGED <<disk, used, about, symbols, rows, edges, hashes, lock, failures, plain>>

SetIndexed(i) ==
  LET f == pass[i].file  v == pass[i].version IN
  /\ pass[i].pc = "set_indexed"
  /\ hashes' = [hashes EXCEPT ![f] = v]
  /\ pass' = [pass EXCEPT ![i].pc = "next", ![i].file = None, ![i].version = None,
                          ![i].done = @ \cup {<<f, v>>}]
  /\ UNCHANGED <<disk, used, about, symbols, rows, refs, edges, lock, failures, plain>>

\* projectCodeRefs: the edges of this pass's refs whose ends exist.  Of
\* several memories with one qualified name the last one read counts.  An edge
\* that cannot be written is reported and left out.
QualifiedName(k) == <<Module[k[2]], k[3]>>

Readings(i) ==
  LET found == {k \in Keys : k[1] = pass[i].ws /\ symbols[k] # None} IN
  {ks \in SUBSET found :
     \A k \in found : \E q \in ks : /\ QualifiedName(q) = QualifiedName(k)
                                    /\ \A x \in ks \ {q} : QualifiedName(x) # QualifiedName(k)}

Projected(i, ks) ==
  {e \in ks \X ks : Module[e[1][2]] = Module[e[2][2]]
                    /\ <<Module[e[1][2]], e[1][3], e[2][3]>> \in pass[i].batch}

Project(i) ==
  /\ pass[i].pc = "next" /\ pass[i].queue = {}
  /\ \E ks \in Readings(i) : \E lost \in SUBSET Projected(i, ks) :
       /\ lost # {} => failures < MaxFailures
       /\ failures' = IF lost = {} THEN failures ELSE failures + 1
       /\ edges' = edges \cup (Projected(i, ks) \ lost)
       /\ pass' = [pass EXCEPT ![i].pc = "report"]
  /\ UNCHANGED <<disk, used, about, symbols, rows, refs, hashes, lock, plain>>

\* The report is returned and the deferred release runs.
Finish(i) ==
  /\ pass[i].pc = "report"
  /\ lock' = None
  /\ pass' = [pass EXCEPT ![i] = Idle]
  /\ UNCHANGED <<disk, used, code, failures, plain>>

\* A statement or the embedder fails, or the process is killed: the lock goes,
\* what was written stays.
Abort(i) ==
  /\ pass[i].pc \notin {"idle", "report"} /\ failures < MaxFailures
  /\ failures' = failures + 1
  /\ lock' = None
  /\ pass' = [pass EXCEPT ![i] = Idle]
  /\ UNCHANGED <<disk, used, code, plain>>

Step(i) ==
  \/ ReadFile(i) \/ DeleteRefs(i) \/ DeleteRows(i) \/ DeleteSymbols(i)
  \/ DeleteFile(i) \/ PutFile(i) \/ DeleteSymbol(i) \/ PutSymbol(i) \/ PutRow(i)
  \/ PutRefs(i) \/ SetIndexed(i) \/ Project(i) \/ Finish(i)

Next ==
  \/ \E w \in Workspaces, v \in Versions \cup {None} : \E f \in Paths[w] : Edit(w, f, v)
  \/ \E i \in Indexers :
       \/ \E w \in Workspaces, force \in BOOLEAN : Start(i, w, force)
       \/ Step(i)
       \/ Abort(i)

Spec == Init /\ [][Next]_vars

-----------------------------------------------------------------------------

\* The artifacts of path f of workspace w are those of version v, no more.
UpToDate(w, f, v) ==
  /\ about[<<w, f>>] = v
  /\ \A n \in Names : symbols[<<w, f, n>>] = IF n \in Symbols[v] THEN v ELSE None
  /\ \A n \in Names : <<w, f, n>> \in rows <=> n \in Symbols[v]
  /\ {r \in refs : r[1] = Module[f]} = FileRefs(f, v)

Reported == {i \in Indexers : pass[i].pc = "report"}

(* What a pass reports is so: when it returns without an error, each file   *)
(* it has indexed, or skipped as unchanged, has exactly the artifacts of    *)
(* the version it read ("removed symbols do not linger"; "skip if           *)
(* unchanged").  Passes may be cut short anywhere, or ignore hashes and     *)
(* meet versions seen before; a hash survives the purge of what it vouches  *)
(* for, so not both.                                                        *)
ReportIsTrue ==
  failures = 0 \/ plain =>
    \A i \in Reported : \A d \in pass[i].done : UpToDate(pass[i].ws, d[1], d[2])

(* Where nothing fails, the calls of every file a pass has indexed or       *)
(* skipped as unchanged are edges between its symbols' memories.            *)
CallsAreEdges ==
  failures = 0 =>
    \A i \in Reported : \A d \in pass[i].done : \A c \in Calls[d[2]] :
      {c[1], c[2]} \subseteq Symbols[d[2]] =>
        <<<<pass[i].ws, d[1], c[1]>>, <<pass[i].ws, d[1], c[2]>>>> \in edges

(* The hash comes last: it is written in a step of its own, once every      *)
(* artifact of that version is in the tables, so a pass cut short leaves no *)
(* file that the next pass takes for indexed and is not.                    *)
HashComesLast ==
  [][\A w \in Workspaces : \A f \in Paths[w] :
       hashes'[f] # hashes[f] => UpToDate(w, f, hashes'[f])]_vars

\* Over flock, the lock ends with its process only.
LL == INSTANCE LeaderLock
        WITH Actors <- Indexers, Nobody <- None, holder <- lock,
             inside <- {i \in Indexers : pass[i].pc # "idle"}, lapsed <- FALSE

(* The indexers use the lock as the Store interface means it: passes over   *)
(* one database never overlap, and however a pass ends it gives back its    *)
(* own lock with its last step.                                             *)
ImplementsLeaderLock == LL!Spec
=============================================================================
