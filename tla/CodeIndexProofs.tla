--------------------------- MODULE CodeIndexProofs ---------------------------
(* Theorems about CodeIndex: its types, that an index pass reports what is   *)
(* so, that the calls it has seen are edges, that hashes are written last,   *)
(* and that passes use their lock as LeaderLock says.  The second to fourth  *)
(* hold where the projects of a database share no relative path and no two   *)
(* files differ only in their extension (`Separate'): the index is keyed by  *)
(* path, and code_refs by module name.                                       *)
EXTENDS CodeIndex, TLAPS

Working == Points \ {"idle", "next", "report"}

\* A pass stays inside its project, and has not done what it has still to do.
PassFits(p) ==
  /\ p.pc # "idle" =>
       /\ p.ws \in Workspaces
       /\ p.queue \subseteq Paths[p.ws]
       /\ \A d \in p.done : d[1] \in Paths[p.ws] /\ d[1] \notin p.queue /\ d[1] # p.file
  /\ p.pc \in Working =>
       p.file \in Paths[p.ws] /\ p.file \notin p.queue /\ p.version \in Versions
  /\ p.pc \notin Working => p.file = None
  /\ p.pc \in {"put_symbol", "put_row"} => p.name \in Names

TypeInv == TypeOK /\ \A i \in Indexers : PassFits(pass[i])

LEMMA KeysFacts ==
  /\ \A k \in Keys : /\ k = <<k[1], k[2], k[3]>>
                     /\ k[1] \in Workspaces /\ k[2] \in Paths[k[1]] /\ k[3] \in Names
  /\ \A w \in Workspaces : \A f \in Paths[w], n \in Names : <<w, f, n>> \in Keys
  /\ \A w \in Workspaces : \A f \in Paths[w] : <<w, f>> \in Homes /\ f \in Files
  /\ \A h \in Homes : h = <<h[1], h[2]>> /\ h[1] \in Workspaces /\ h[2] \in Paths[h[1]]
BY DEF Keys, Homes, Files


\* The step that gives pass i a next state that fits keeps the types of passes.
LEMMA PassStep ==
  ASSUME TypeInv, NEW i \in Indexers, NEW q \in Pass, PassFits(q),
         pass' = [pass EXCEPT ![i] = q]
  PROVE  /\ pass' \in [Indexers -> Pass]
         /\ \A j \in Indexers :
              /\ pass'[j].pc # "idle" => pass'[j].ws # None
              /\ pass'[j].pc \notin {"idle", "next", "report"} =>
                   pass'[j].file # None /\ pass'[j].version # None
         /\ \A j \in Indexers : PassFits(pass'[j])
<1>1. pass \in [Indexers -> Pass] /\ \A j \in Indexers : PassFits(pass[j])
  BY DEF TypeInv, TypeOK
<1>2. /\ pass' \in [Indexers -> Pass]
      /\ \A j \in Indexers : pass'[j] = IF j = i THEN q ELSE pass[j]
  BY <1>1
<1>3. \A j \in Indexers : pass'[j] \in Pass /\ PassFits(pass'[j])
  BY <1>1, <1>2
<1>4. ASSUME NEW p \in Pass, PassFits(p)
      PROVE  /\ p.pc # "idle" => p.ws # None
             /\ p.pc \notin {"idle", "next", "report"} => p.file # None /\ p.version # None
  BY <1>4, CodeIndexAssumption DEF PassFits, Pass, Working, Files
<1> QED BY <1>2, <1>3, <1>4

\* What TypeInv says of one pass.
LEMMA PassTyped ==
  ASSUME TypeInv, NEW i \in Indexers
  PROVE  /\ pass[i] \in Pass /\ PassFits(pass[i])
         /\ pass \in [Indexers -> Pass]
         /\ pass[i].pc # "idle" => pass[i].ws \in Workspaces /\ Paths[pass[i].ws] \subseteq Files
  BY DEF TypeInv, TypeOK, PassFits, Files

\* The fields that a step of an index pass changes, typed.
TypesLeft ==
  /\ about \in [Homes -> Versions \cup {None}]
  /\ symbols \in [Keys -> Versions \cup {None}]
  /\ rows \subseteq Keys
  /\ refs \subseteq Modules \X Names \X Names
  /\ edges \subseteq Keys \X Keys
  /\ hashes \in [Files -> Versions \cup {None}]
  /\ lock \in Indexers \cup {None}
  /\ failures \in 0..MaxFailures

LEMMA TypeStep ==
  ASSUME TypeInv, TypesLeft', NEW i \in Indexers, NEW q \in Pass, PassFits(q),
         pass' = [pass EXCEPT ![i] = q], disk' = disk, used' = used, plain' \in BOOLEAN
  PROVE  TypeInv'
<1>1. /\ disk' \in [Workspaces -> [Files -> Versions \cup {None}]]
      /\ used' \in [Workspaces -> [Files -> SUBSET Versions]]
  BY DEF TypeInv, TypeOK
<1> QED BY <1>1, PassStep DEF TypeInv, TypeOK, TypesLeft

LEMMA TypedLeft == ASSUME TypeInv PROVE TypesLeft
  BY DEF TypeInv, TypeOK, TypesLeft

LEMMA IdleFits == Idle \in Pass /\ PassFits(Idle)
  BY DEF Idle, Pass, PassFits, Points, Working

LEMMA TypeInit == Init => TypeInv
<1> SUFFICES ASSUME Init PROVE TypeInv
  OBVIOUS
<1>1. pass \in [Indexers -> Pass] /\ \A i \in Indexers : pass[i] = Idle
  BY IdleFits DEF Init
<1>2. TypesLeft /\ plain \in BOOLEAN
  BY CodeIndexAssumption DEF Init, TypesLeft
<1>3. /\ disk \in [Workspaces -> [Files -> Versions \cup {None}]]
      /\ used \in [Workspaces -> [Files -> SUBSET Versions]]
  BY DEF Init
<1>4. \A i \in Indexers : pass[i].pc = "idle"
  BY <1>1 DEF Idle
<1>5. TypeOK
  BY <1>1, <1>2, <1>3, <1>4 DEF TypesLeft, TypeOK
<1> QED BY <1>1, <1>5, IdleFits DEF TypeInv

LEMMA TypeEdit ==
  ASSUME TypeInv, NEW w \in Workspaces, NEW f \in Paths[w], NEW v \in Versions \cup {None},
         Edit(w, f, v)
  PROVE  TypeInv'
<1>0. f \in Files
  BY DEF Files
<1>1. disk' \in [Workspaces -> [Files -> Versions \cup {None}]]
  BY <1>0 DEF Edit, TypeInv, TypeOK
<1>2. used' \in [Workspaces -> [Files -> SUBSET Versions]]
  BY <1>0 DEF Edit, TypeInv, TypeOK
<1>3. plain' \in BOOLEAN
  BY DEF Edit, TypeInv, TypeOK
<1> QED BY <1>1, <1>2, <1>3 DEF Edit, code, TypeInv, TypeOK

LEMMA TypeStart ==
  ASSUME TypeInv, NEW i \in Indexers, NEW w \in Workspaces, NEW force \in BOOLEAN,
         Start(i, w, force)
  PROVE  TypeInv'
<1>1. PICK walked \in SUBSET {f \in Paths[w] : disk[w][f] # None} :
        pass' = [pass EXCEPT ![i] = [Idle EXCEPT !.pc = "next", !.ws = w, !.force = force,
                                                 !.queue = walked]]
  BY DEF Start
<1> DEFINE q == [Idle EXCEPT !.pc = "next", !.ws = w, !.force = force, !.queue = walked]
<1>2. q \in Pass /\ PassFits(q)
  BY DEF Idle, Pass, PassFits, Points, Working, Files
<1>3. TypesLeft'
  BY TypedLeft DEF TypesLeft, Start, code
<1>4. plain' \in BOOLEAN
  BY DEF Start, TypeInv, TypeOK
<1> HIDE DEF q
<1> QED BY <1>1, <1>2, <1>3, <1>4, TypeStep DEF Start, q

LEMMA TypeReadFile ==
  ASSUME TypeInv, NEW i \in Indexers, ReadFile(i)
  PROVE  TypeInv'
<1> DEFINE w == pass[i].ws
           left(f) == [pass[i] EXCEPT !.queue = pass[i].queue \ {f}]
           q(f) == IF disk[w][f] = None THEN left(f)
                   ELSE IF ~pass[i].force /\ hashes[f] = disk[w][f]
                     THEN [left(f) EXCEPT !.done = @ \cup {<<f, disk[w][f]>>}]
                   ELSE [left(f) EXCEPT !.pc = "delete_refs", !.file = f,
                                        !.version = disk[w][f]]
<1>1. PICK f \in pass[i].queue : pass[i].pc = "next" /\ pass' = [pass EXCEPT ![i] = q(f)]
  BY DEF ReadFile
<1>2. pass[i] \in Pass /\ PassFits(pass[i]) /\ w \in Workspaces /\ f \in Paths[w] /\ f \in Files
  BY <1>1, PassTyped DEF PassFits, Files
<1>3. disk[w][f] \in Versions \cup {None}
  BY <1>2 DEF TypeInv, TypeOK
<1>4. q(f) \in Pass
  <2>1. left(f) \in Pass /\ left(f).done = pass[i].done
    BY <1>2 DEF Pass
  <2> HIDE DEF left
  <2>2. CASE disk[w][f] = None
    BY <2>1, <2>2
  <2>3. CASE disk[w][f] # None /\ ~pass[i].force /\ hashes[f] = disk[w][f]
    BY <2>1, <2>3, <1>2, <1>3 DEF Pass
  <2>4. CASE disk[w][f] # None /\ ~(~pass[i].force /\ hashes[f] = disk[w][f])
    BY <2>1, <2>4, <1>2, <1>3 DEF Pass, Points
  <2> QED BY <2>2, <2>3, <2>4
<1>5. PassFits(q(f))
  BY <1>1, <1>2, <1>3, CodeIndexAssumption DEF Pass, PassFits, Points, Working
<1>6. TypesLeft' /\ disk' = disk /\ used' = used /\ plain' \in BOOLEAN
  BY TypedLeft DEF TypesLeft, ReadFile, code, TypeInv, TypeOK
<1> HIDE DEF q
<1> QED BY <1>1, <1>4, <1>5, <1>6, TypeStep

\* A step on the file in hand that only moves the pass on to point pc.
LEMMA MovesOn ==
  ASSUME TypeInv, NEW i \in Indexers, NEW pc \in Working,
         pass[i].pc \in Working, pc \notin {"put_symbol", "put_row"}
  PROVE  /\ [pass[i] EXCEPT !.pc = pc] \in Pass
         /\ PassFits([pass[i] EXCEPT !.pc = pc])
<1>1. pass[i] \in Pass /\ PassFits(pass[i]) /\ pc \in Points
  BY PassTyped DEF Working
<1> QED BY <1>1 DEF Pass, PassFits, Working

LEMMA HandTyped ==
  ASSUME TypeInv, NEW i \in Indexers, pass[i].pc \in Working
  PROVE  /\ pass[i].ws \in Workspaces /\ pass[i].file \in Paths[pass[i].ws]
         /\ pass[i].file \in Files /\ pass[i].version \in Versions
         /\ pass[i].rest \subseteq Names /\ pass[i].file \notin pass[i].queue
         /\ pass[i].batch \subseteq Modules \X Names \X Names
         /\ <<pass[i].ws, pass[i].file>> \in Homes
BY PassTyped, KeysFacts DEF PassFits, Pass, Working

LEMMA TypeDeleteRefs ==
  ASSUME TypeInv, NEW i \in Indexers, DeleteRefs(i)
  PROVE  TypeInv'
<1>1. TypesLeft' /\ plain' \in BOOLEAN
  BY TypedLeft DEF TypesLeft, DeleteRefs, TypeInv, TypeOK
<1>2. pass[i].pc \in Working /\ "delete_rows" \in Working
  BY DEF DeleteRefs, Working, Points
<1>3. pass' = [pass EXCEPT ![i] = [pass[i] EXCEPT !.pc = "delete_rows"]]
  BY PassTyped DEF DeleteRefs
<1> QED BY <1>1, <1>2, <1>3, MovesOn, TypeStep DEF DeleteRefs

LEMMA TypeDeleteRows ==
  ASSUME TypeInv, NEW i \in Indexers, DeleteRows(i)
  PROVE  TypeInv'
<1>1. TypesLeft' /\ plain' \in BOOLEAN
  BY TypedLeft DEF TypesLeft, DeleteRows, TypeInv, TypeOK
<1>2. pass[i].pc \in Working /\ "delete_symbols" \in Working
  BY DEF DeleteRows, Working, Points
<1>3. pass' = [pass EXCEPT ![i] = [pass[i] EXCEPT !.pc = "delete_symbols"]]
  BY PassTyped DEF DeleteRows
<1> QED BY <1>1, <1>2, <1>3, MovesOn, TypeStep DEF DeleteRows

LEMMA TypeDeleteSymbols ==
  ASSUME TypeInv, NEW i \in Indexers, DeleteSymbols(i)
  PROVE  TypeInv'
<1>1. TypesLeft' /\ plain' \in BOOLEAN
  BY TypedLeft DEF TypesLeft, DeleteSymbols, Drop, TypeInv, TypeOK
<1>2. pass[i].pc \in Working /\ "delete_file" \in Working
  BY DEF DeleteSymbols, Working, Points
<1>3. pass' = [pass EXCEPT ![i] = [pass[i] EXCEPT !.pc = "delete_file"]]
  BY PassTyped DEF DeleteSymbols
<1> QED BY <1>1, <1>2, <1>3, MovesOn, TypeStep DEF DeleteSymbols

LEMMA TypeDeleteFile ==
  ASSUME TypeInv, NEW i \in Indexers, DeleteFile(i)
  PROVE  TypeInv'
<1>1. TypesLeft' /\ plain' \in BOOLEAN
  BY TypedLeft DEF TypesLeft, DeleteFile, TypeInv, TypeOK
<1>2. pass[i].pc \in Working /\ "put_file" \in Working
  BY DEF DeleteFile, Working, Points
<1>3. pass' = [pass EXCEPT ![i] = [pass[i] EXCEPT !.pc = "put_file"]]
  BY PassTyped DEF DeleteFile
<1> QED BY <1>1, <1>2, <1>3, MovesOn, TypeStep DEF DeleteFile

LEMMA TypePutFile ==
  ASSUME TypeInv, NEW i \in Indexers, PutFile(i)
  PROVE  TypeInv'
<1>1. pass[i].pc \in Working /\ "symbols" \in Working
  BY DEF PutFile, Working, Points
<1>2. TypesLeft' /\ plain' \in BOOLEAN
  BY <1>1, HandTyped, TypedLeft DEF TypesLeft, PutFile, TypeInv, TypeOK
<1>3. Symbols[pass[i].version] \in SUBSET Names
  BY <1>1, HandTyped, CodeIndexAssumption
<1> DEFINE q == [pass[i] EXCEPT !.pc = "symbols", !.rest = Symbols[pass[i].version]]
<1>4. q \in Pass /\ PassFits(q)
  <2>1. pass[i] \in Pass /\ PassFits(pass[i])
    BY PassTyped
  <2>2. q \in Pass
    BY <2>1, <1>1, <1>3 DEF Pass, Points
  <2>3. PassFits(q)
    BY <2>1, <1>1, <1>3 DEF Pass, PassFits, Working, Points
  <2> QED BY <2>2, <2>3
<1>5. pass' = [pass EXCEPT ![i] = q]
  BY PassTyped DEF PutFile
<1> HIDE DEF q
<1> QED BY <1>2, <1>4, <1>5, TypeStep DEF PutFile

LEMMA TypeDeleteSymbol ==
  ASSUME TypeInv, NEW i \in Indexers, DeleteSymbol(i)
  PROVE  TypeInv'
<1>1. PICK n \in pass[i].rest :
        pass' = [pass EXCEPT ![i].pc = "put_symbol", ![i].name = n, ![i].rest = @ \ {n}]
  BY DEF DeleteSymbol
<1> DEFINE q == [pass[i] EXCEPT !.pc = "put_symbol", !.name = n,
                                !.rest = pass[i].rest \ {n}]
<1>2. TypesLeft' /\ plain' \in BOOLEAN
  BY TypedLeft DEF TypesLeft, DeleteSymbol, Drop, TypeInv, TypeOK
<1>3. pass[i].pc = "symbols" /\ pass[i].pc \in Working
  BY DEF DeleteSymbol, Working, Points
<1>4. pass[i] \in Pass /\ PassFits(pass[i]) /\ n \in Names
  BY <1>3, PassTyped, HandTyped
<1>5. q \in Pass /\ PassFits(q)
  BY <1>3, <1>4 DEF Pass, PassFits, Points, Working
<1>6. pass' = [pass EXCEPT ![i] = q]
  BY <1>1, PassTyped
<1> HIDE DEF q
<1> QED BY <1>2, <1>5, <1>6, TypeStep DEF DeleteSymbol

LEMMA TypePutSymbol ==
  ASSUME TypeInv, NEW i \in Indexers, PutSymbol(i)
  PROVE  TypeInv'
<1> DEFINE q == [pass[i] EXCEPT !.pc = "put_row"]
<1>1. pass[i].pc = "put_symbol" /\ pass[i].pc \in Working
  BY DEF PutSymbol, Working, Points
<1>2. TypesLeft' /\ plain' \in BOOLEAN
  BY <1>1, HandTyped, TypedLeft DEF TypesLeft, PutSymbol, TypeInv, TypeOK
<1>3. q \in Pass /\ PassFits(q)
  BY <1>1, PassTyped DEF Pass, PassFits, Points, Working
<1>4. pass' = [pass EXCEPT ![i] = q]
  BY PassTyped DEF PutSymbol
<1> HIDE DEF q
<1> QED BY <1>2, <1>3, <1>4, TypeStep DEF PutSymbol

LEMMA TypePutRow ==
  ASSUME TypeInv, NEW i \in Indexers, PutRow(i)
  PROVE  TypeInv'
<1>1. pass[i].pc \in Working /\ "symbols" \in Working /\ pass[i].name \in Names
  BY PassTyped DEF PutRow, Working, Points, PassFits
<1>2. <<pass[i].ws, pass[i].file, pass[i].name>> \in Keys
  BY <1>1, HandTyped, KeysFacts
<1>3. TypesLeft' /\ plain' \in BOOLEAN
  BY <1>2, TypedLeft DEF TypesLeft, PutRow, TypeInv, TypeOK
<1> DEFINE q == [pass[i] EXCEPT !.pc = "symbols", !.name = None]
<1>4. q \in Pass /\ PassFits(q)
  <2>1. pass[i] \in Pass /\ PassFits(pass[i])
    BY PassTyped
  <2>2. q \in Pass
    BY <2>1, <1>1 DEF Pass, Points
  <2>3. PassFits(q)
    BY <2>1, <1>1 DEF Pass, PassFits, Working, Points
  <2> QED BY <2>2, <2>3
<1>5. pass' = [pass EXCEPT ![i] = q]
  BY PassTyped DEF PutRow
<1> HIDE DEF q
<1> QED BY <1>3, <1>4, <1>5, TypeStep DEF PutRow

LEMMA FileRefsTyped ==
  ASSUME NEW f \in Files, NEW v \in Versions
  PROVE  /\ FileRefs(f, v) \subseteq Modules \X Names \X Names
         /\ \A r \in FileRefs(f, v) : /\ r[1] = Module[f]
                                      /\ r[2] \in Symbols[v] /\ r[3] \in Symbols[v]
<1>1. \A c \in Calls[v] : c[1] \in Symbols[v] /\ c[2] \in Symbols[v]
  BY CodeIndexAssumption
<1>2. Symbols[v] \subseteq Names /\ Module[f] \in Modules
  BY CodeIndexAssumption DEF Modules
<1> QED BY <1>1, <1>2 DEF FileRefs

LEMMA TypePutRefs ==
  ASSUME TypeInv, NEW i \in Indexers, PutRefs(i)
  PROVE  TypeInv'
<1> DEFINE new == FileRefs(pass[i].file, pass[i].version)
<1>1. pass[i].pc \in Working /\ "set_indexed" \in Working
  BY DEF PutRefs, Working, Points
<1>2. /\ new \subseteq Modules \X Names \X Names
      /\ pass[i].batch \cup new \in SUBSET (Modules \X Names \X Names)
  BY <1>1, HandTyped, FileRefsTyped
<1>3. TypesLeft' /\ plain' \in BOOLEAN
  BY <1>2, TypedLeft DEF TypesLeft, PutRefs, TypeInv, TypeOK
<1> DEFINE q == [pass[i] EXCEPT !.pc = "set_indexed", !.batch = pass[i].batch \cup new]
<1>4. q \in Pass /\ PassFits(q)
  <2>1. pass[i] \in Pass /\ PassFits(pass[i])
    BY PassTyped
  <2>2. q \in Pass
    BY <2>1, <1>1, <1>2 DEF Pass, Points
  <2>3. PassFits(q)
    BY <2>1, <1>1, <1>2 DEF Pass, PassFits, Working, Points
  <2> QED BY <2>2, <2>3
<1>5. pass' = [pass EXCEPT ![i] = q]
  BY PassTyped DEF PutRefs
<1> HIDE DEF q
<1> QED BY <1>3, <1>4, <1>5, TypeStep DEF PutRefs

LEMMA TypeSetIndexed ==
  ASSUME TypeInv, NEW i \in Indexers, SetIndexed(i)
  PROVE  TypeInv'
<1> DEFINE f == pass[i].file
           v == pass[i].version
           q == [pass[i] EXCEPT !.pc = "next", !.file = None, !.version = None,
                                !.done = pass[i].done \cup {<<f, v>>}]
<1>1. pass[i].pc = "set_indexed" /\ pass[i].pc \in Working
  BY DEF SetIndexed, Working, Points
<1>2. pass[i] \in Pass /\ PassFits(pass[i]) /\ f \in Files /\ v \in Versions
  BY <1>1, PassTyped, HandTyped
<1>3. q \in Pass
  <2>1. pass[i].done \cup {<<f, v>>} \subseteq Files \X Versions
    BY <1>2 DEF Pass
  <2> QED BY <2>1, <1>2 DEF Pass, Points
<1>4. PassFits(q)
  BY <1>1, <1>2, CodeIndexAssumption DEF Pass, PassFits, Working, Points, Files
<1>5. TypesLeft' /\ plain' \in BOOLEAN
  BY <1>2, TypedLeft DEF TypesLeft, SetIndexed, TypeInv, TypeOK
<1>6. pass' = [pass EXCEPT ![i] = q]
  BY PassTyped DEF SetIndexed
<1> HIDE DEF q
<1> QED BY <1>3, <1>4, <1>5, <1>6, TypeStep DEF SetIndexed

LEMMA TypeProject ==
  ASSUME TypeInv, NEW i \in Indexers, Project(i)
  PROVE  TypeInv'
<1> DEFINE q == [pass[i] EXCEPT !.pc = "report"]
<1>1. PICK ks \in Readings(i) : \E lost \in SUBSET Projected(i, ks) :
        /\ lost # {} => failures < MaxFailures
        /\ failures' = IF lost = {} THEN failures ELSE failures + 1
        /\ edges' = edges \cup (Projected(i, ks) \ lost)
        /\ pass' = [pass EXCEPT ![i].pc = "report"]
  BY DEF Project
<1>2. ks \subseteq Keys
  BY DEF Readings
<1>3. Projected(i, ks) \subseteq Keys \X Keys
  BY <1>2 DEF Projected
<1>4. edges' \subseteq Keys \X Keys /\ failures' \in 0..MaxFailures
  BY <1>1, <1>3, CodeIndexAssumption DEF TypeInv, TypeOK
<1>5. TypesLeft' /\ plain' \in BOOLEAN
  BY <1>4, TypedLeft DEF TypesLeft, Project, TypeInv, TypeOK
<1>6. q \in Pass /\ PassFits(q)
  BY PassTyped DEF Project, Pass, PassFits, Working, Points
<1>7. pass' = [pass EXCEPT ![i] = q]
  BY <1>1, PassTyped
<1> HIDE DEF q
<1> QED BY <1>5, <1>6, <1>7, TypeStep DEF Project

LEMMA TypeEnd ==
  ASSUME TypeInv, NEW i \in Indexers, Finish(i) \/ Abort(i)
  PROVE  TypeInv'
<1>1. failures' \in 0..MaxFailures
  BY CodeIndexAssumption DEF Finish, Abort, TypeInv, TypeOK
<1>2. TypesLeft' /\ plain' \in BOOLEAN
  BY <1>1, TypedLeft DEF TypesLeft, Finish, Abort, code, TypeInv, TypeOK
<1> QED BY <1>2, IdleFits, TypeStep DEF Finish, Abort

LEMMA TypeNext ==
  ASSUME TypeInv, [Next]_vars
  PROVE  TypeInv'
<1>1. CASE UNCHANGED vars
  BY <1>1 DEF vars, code, TypeInv, TypeOK, PassFits
<1>2. ASSUME NEW w \in Workspaces, NEW v \in Versions \cup {None}, NEW f \in Paths[w],
             Edit(w, f, v)
      PROVE  TypeInv'
  BY <1>2, TypeEdit
<1>3. ASSUME NEW i \in Indexers, NEW w \in Workspaces, NEW force \in BOOLEAN,
             Start(i, w, force)
      PROVE  TypeInv'
  BY <1>3, TypeStart
<1>4. ASSUME NEW i \in Indexers, Step(i) PROVE TypeInv'
  BY <1>4, TypeReadFile, TypeDeleteRefs, TypeDeleteRows, TypeDeleteSymbols,
     TypeDeleteFile, TypePutFile, TypeDeleteSymbol, TypePutSymbol, TypePutRow,
     TypePutRefs, TypeSetIndexed, TypeProject, TypeEnd DEF Step
<1>5. ASSUME NEW i \in Indexers, Abort(i) PROVE TypeInv'
  BY <1>5, TypeEnd
<1> QED BY <1>1, <1>2, <1>3, <1>4, <1>5 DEF Next

\* The types of the variables and of the records of index passes.
THEOREM TypeCorrect == Spec => []TypeOK
<1>1. Init => TypeInv
  BY TypeInit
<1>2. TypeInv /\ [Next]_vars => TypeInv'
  BY TypeNext
<1>3. TypeInv => TypeOK
  BY DEF TypeInv
<1> QED BY <1>1, <1>2, <1>3, PTL DEF Spec

-----------------------------------------------------------------------------
(* Reports and edges.                                                       *)

\* Projects share no relative path; no two files have the same module name.
Separate ==
  /\ \A w, x \in Workspaces : w # x => Paths[w] \cap Paths[x] = {}
  /\ \A f, g \in Files : Module[f] = Module[g] => f = g

\* The symbols with a memory are those of ms, the ones with a row those of rs.
Written(w, f, v, ms, rs) ==
  \A n \in Names : /\ symbols[<<w, f, n>>] = IF n \in ms THEN v ELSE None
                   /\ <<w, f, n>> \in rows <=> n \in rs

NoRefs(f) == \A r \in refs : r[1] # Module[f]

\* How far the file in hand of pass p has come, at each point.
Stage(p) ==
  LET w == p.ws  f == p.file  v == p.version IN
  /\ p.pc \in Working \ {"delete_refs", "set_indexed"} => NoRefs(f)
  /\ p.pc \in {"delete_symbols", "delete_file", "put_file"} =>
       \A n \in Names : <<w, f, n>> \notin rows
  /\ p.pc \in {"delete_file", "put_file"} => \A n \in Names : symbols[<<w, f, n>>] = None
  /\ p.pc \in {"symbols", "put_symbol", "put_row"} =>
       about[<<w, f>>] = v /\ p.rest \subseteq Symbols[v]
  /\ p.pc \in {"put_symbol", "put_row"} => p.name \in Symbols[v] \ p.rest
  /\ p.pc = "symbols" => Written(w, f, v, Symbols[v] \ p.rest, Symbols[v] \ p.rest)
  /\ p.pc = "put_symbol" =>
       Written(w, f, v, Symbols[v] \ (p.rest \cup {p.name}), Symbols[v] \ (p.rest \cup {p.name}))
  /\ p.pc = "put_row" =>
       Written(w, f, v, Symbols[v] \ p.rest, Symbols[v] \ (p.rest \cup {p.name}))
  /\ p.pc = "set_indexed" => UpToDate(w, f, v) /\ FileRefs(f, v) \subseteq p.batch

\* A code_ref belongs to a symbol that has a row.
RefsHaveRows(f) ==
  \A r \in refs : r[1] = Module[f] => \E k \in rows : k[2] = f /\ Touches(k, r)

InHand(f) == \E i \in Indexers : pass[i].pc \in Working /\ pass[i].file = f

\* What the hash of a file vouches for.
HashHolds(w, f) ==
  hashes[f] # None =>
    /\ hashes[f] \in used[w][f]
    /\ plain /\ InHand(f) => disk[w][f] # hashes[f]
    /\ \/ UpToDate(w, f, hashes[f])
       \/ InHand(f)
       \/ failures > 0 /\ (plain => disk[w][f] # hashes[f])

\* The calls of version v are edges.
Edged(w, f, v) ==
  \A c \in Calls[v] : <<<<w, f, c[1]>>, <<w, f, c[2]>>>> \in edges

\* The calls of version v will be edges when pass i projects its batch.
Pending(i, f, v) ==
  /\ pass[i].pc \notin {"idle", "report"}
  /\ <<f, v>> \in pass[i].done /\ FileRefs(f, v) \subseteq pass[i].batch

PassInv(i) ==
  /\ pass[i].pc = "idle" => pass[i].done = {}
  /\ pass[i].pc # "idle" => lock = i /\ (plain => ~pass[i].force)
  /\ pass[i].pc \in Working => pass[i].version \in used[pass[i].ws][pass[i].file]
  /\ Stage(pass[i])
  /\ failures = 0 \/ plain =>
       \A d \in pass[i].done : UpToDate(pass[i].ws, d[1], d[2])
  /\ failures = 0 =>
       \A d \in pass[i].done : Edged(pass[i].ws, d[1], d[2]) \/ Pending(i, d[1], d[2])

FileInv(w, f) ==
  /\ disk[w][f] # None => disk[w][f] \in used[w][f]
  /\ RefsHaveRows(f)
  /\ HashHolds(w, f)
  /\ failures = 0 /\ hashes[f] # None =>
       \/ Edged(w, f, hashes[f])
       \/ InHand(f)
       \/ \E i \in Indexers : Pending(i, f, hashes[f])

IndexInv ==
  /\ TypeInv
  /\ \A i \in Indexers : PassInv(i)
  /\ \A w \in Workspaces : \A f \in Paths[w] : FileInv(w, f)

\* What a step on path f leaves alone.
OnlyFile(f) ==
  /\ \A h \in Homes : h[2] # f => about'[h] = about[h]
  /\ \A k \in Keys : k[2] # f => symbols'[k] = symbols[k] /\ (k \in rows' <=> k \in rows)
  /\ \A r \in refs \cup refs' : r[1] # Module[f] => (r \in refs' <=> r \in refs)
  /\ \A e \in edges : e[1][2] # f /\ e[2][2] # f => e \in edges'

\* The artifacts of other paths stay as they are.
LEMMA Elsewhere ==
  ASSUME Separate, TypeInv, TypeInv', NEW f \in Files, OnlyFile(f),
         NEW w \in Workspaces, NEW g \in Paths[w], g # f, NEW v
  PROVE  /\ UpToDate(w, g, v) => UpToDate(w, g, v)'
         /\ Edged(w, g, v) => Edged(w, g, v)'
         /\ RefsHaveRows(g) => RefsHaveRows(g)'
<1>0. g \in Files /\ <<w, g>> \in Homes /\ \A n \in Names : <<w, g, n>> \in Keys
  BY KeysFacts
<1>1. Module[g] # Module[f]
  BY <1>0 DEF Separate
<1>2. \A r : r[1] = Module[g] => (r \in refs' <=> r \in refs)
  BY <1>1 DEF OnlyFile
<1>3. /\ about'[<<w, g>>] = about[<<w, g>>]
      /\ \A n \in Names : /\ symbols'[<<w, g, n>>] = symbols[<<w, g, n>>]
                          /\ <<w, g, n>> \in rows' <=> <<w, g, n>> \in rows
  BY <1>0 DEF OnlyFile
<1>4. UpToDate(w, g, v) => UpToDate(w, g, v)'
  BY <1>2, <1>3 DEF UpToDate
<1>5. Edged(w, g, v) => Edged(w, g, v)'
  BY DEF Edged, OnlyFile
<1>6. ASSUME NEW k \in rows, k[2] = g PROVE k \in rows'
  BY <1>6 DEF OnlyFile, TypeInv, TypeOK
<1>7. RefsHaveRows(g) => RefsHaveRows(g)'
  BY <1>2, <1>6 DEF RefsHaveRows, Touches
<1> QED BY <1>4, <1>5, <1>7

\* One pass at a time.
LEMMA OthersIdle ==
  ASSUME IndexInv, NEW i \in Indexers, pass[i].pc # "idle", NEW j \in Indexers, j # i
  PROVE  pass[j].pc = "idle" /\ pass[j].done = {}
BY DEF IndexInv, PassInv

LEMMA IdlePassInv ==
  ASSUME NEW j \in Indexers, pass'[j].pc = "idle", pass'[j].done = {}
  PROVE  PassInv(j)'
<1>1. Stage(pass[j])'
  BY DEF Stage, Working
<1>2. pass'[j].pc \notin Working
  BY DEF Working
<1> QED BY <1>1, <1>2 DEF PassInv

\* A statement about the file in hand that brings it to its next point.
LEMMA WorkStep ==
  ASSUME Separate, IndexInv, TypeInv', NEW i \in Indexers, NEW q,
         pass[i].pc \in Working, OnlyFile(pass[i].file),
         UNCHANGED <<disk, used, hashes, lock, failures, plain>>,
         pass' = [pass EXCEPT ![i] = q], q.pc \in Working,
         q.ws = pass[i].ws, q.force = pass[i].force, q.file = pass[i].file,
         q.version = pass[i].version, q.done = pass[i].done,
         pass[i].batch \subseteq q.batch, Stage(pass[i])',
         RefsHaveRows(pass[i].file)'
  PROVE  IndexInv'
<1> DEFINE h == pass[i].file
<1>0. TypeInv /\ PassFits(pass[i]) /\ h \in Files /\ pass[i].ws \in Workspaces
  BY HandTyped, PassTyped DEF IndexInv
<1>1. pass'[i] = q /\ \A j \in Indexers : j # i => pass'[j] = pass[j]
  BY <1>0, PassTyped
<1>2. pass[i].pc \notin {"idle", "report"} /\ q.pc \notin {"idle", "report"}
  BY DEF Working
<1>3. \A j \in Indexers : j # i => PassInv(j)'
  BY <1>1, <1>2, OthersIdle, IdlePassInv
<1>4. \A d \in pass[i].done : d[1] \in Paths[pass[i].ws] /\ d[1] # h
  BY <1>0, <1>2 DEF PassFits
<1>5. ASSUME NEW d \in pass[i].done
      PROVE  /\ UpToDate(pass[i].ws, d[1], d[2]) => UpToDate(pass[i].ws, d[1], d[2])'
             /\ Edged(pass[i].ws, d[1], d[2]) => Edged(pass[i].ws, d[1], d[2])'
  BY <1>0, <1>4, Elsewhere
<1>6. \A g, v : \A j \in Indexers : Pending(j, g, v) => Pending(j, g, v)'
  BY <1>1, <1>2 DEF Pending, FileRefs
<1>7. PassInv(i)'
  <2>1. PassInv(i)
    BY DEF IndexInv
  <2>2. /\ pass'[i].pc # "idle" /\ pass[i].pc # "idle" /\ pass'[i].pc \in Working
        /\ pass'[i].ws = pass[i].ws /\ pass'[i].file = pass[i].file
        /\ pass'[i].version = pass[i].version /\ pass'[i].done = pass[i].done
        /\ pass'[i].force = pass[i].force
    BY <1>1, <1>2
  <2>3. failures' = 0 \/ plain' =>
          \A d \in pass'[i].done : UpToDate(pass[i].ws, d[1], d[2])'
    BY <2>1, <2>2, <1>5 DEF PassInv
  <2>4. failures' = 0 =>
          \A d \in pass'[i].done :
            Edged(pass[i].ws, d[1], d[2])' \/ Pending(i, d[1], d[2])'
    BY <2>1, <2>2, <1>5, <1>6 DEF PassInv
  <2>5. /\ lock' = i /\ (plain' => ~pass'[i].force)
        /\ pass'[i].version \in used'[pass'[i].ws][pass'[i].file]
    BY <2>1, <2>2 DEF PassInv
  <2> QED BY <2>2, <2>3, <2>4, <2>5 DEF PassInv
<1>8. \A g : InHand(g)' <=> InHand(g)
  BY <1>1 DEF InHand
<1>9. ASSUME NEW w \in Workspaces, NEW g \in Paths[w] PROVE FileInv(w, g)'
  <2>1. FileInv(w, g)
    BY DEF IndexInv
  <2>2. RefsHaveRows(g)'
    BY <2>1, <1>0, Elsewhere DEF FileInv
  <2>3. CASE g = h
    <3>1. InHand(g)'
      BY <1>8, <2>3 DEF InHand
    <3> QED BY <2>1, <2>2, <3>1, <1>8 DEF FileInv, HashHolds
  <2>4. CASE g # h
    <3>1. \A v : /\ UpToDate(w, g, v) => UpToDate(w, g, v)'
                 /\ Edged(w, g, v) => Edged(w, g, v)'
      BY <2>4, <1>0, Elsewhere
    <3>2. HashHolds(w, g)'
      BY <2>1, <3>1, <1>8 DEF FileInv, HashHolds
    <3> QED BY <2>1, <2>2, <3>1, <3>2, <1>6, <1>8 DEF FileInv
  <2> QED BY <2>3, <2>4
<1> QED BY <1>3, <1>7, <1>9 DEF IndexInv

\* What is known of the file in hand.
LEMMA HandFacts ==
  ASSUME IndexInv, NEW i \in Indexers, pass[i].pc \in Working
  PROVE  /\ TypeInv /\ pass[i] \in Pass /\ pass \in [Indexers -> Pass]
         /\ pass[i].ws \in Workspaces /\ pass[i].file \in Paths[pass[i].ws]
         /\ pass[i].file \in Files /\ pass[i].version \in Versions
         /\ Stage(pass[i]) /\ FileInv(pass[i].ws, pass[i].file)
         /\ <<pass[i].ws, pass[i].file>> \in Homes
         /\ \A n \in Names : <<pass[i].ws, pass[i].file, n>> \in Keys
         /\ Symbols[pass[i].version] \subseteq Names
BY HandTyped, PassTyped, KeysFacts, CodeIndexAssumption DEF IndexInv, PassInv

LEMMA KeepDeleteRefs ==
  ASSUME Separate, IndexInv, TypeInv', NEW i \in Indexers, DeleteRefs(i)
  PROVE  IndexInv'
<1> DEFINE f == pass[i].file
           q == [pass[i] EXCEPT !.pc = "delete_rows"]
<1>1. pass[i].pc = "delete_refs" /\ pass[i].pc \in Working
  BY DEF DeleteRefs, Working, Points
<1>2. /\ TypeInv /\ pass[i] \in Pass /\ pass \in [Indexers -> Pass] /\ f \in Files
      /\ RefsHaveRows(f) /\ rows \subseteq Keys
  BY <1>1, HandFacts DEF FileInv, TypeInv, TypeOK
<1>3. pass' = [pass EXCEPT ![i] = q] /\ pass'[i] = q
  BY <1>2 DEF DeleteRefs
<1>4. /\ q.pc = "delete_rows" /\ q.ws = pass[i].ws /\ q.force = pass[i].force
      /\ q.file = f /\ q.version = pass[i].version /\ q.done = pass[i].done
      /\ q.batch = pass[i].batch
  BY <1>2 DEF Pass
<1>5. \A r \in refs' : r[1] # Module[f]
  <2>1. \A k \in rows : k[2] = f => k \in RowsOf(f)
    BY DEF RowsOf
  <2> QED BY <2>1, <1>2 DEF DeleteRefs, RefsHaveRows
<1>6. \A r \in refs : r[1] # Module[f] => r \in refs'
  BY DEF DeleteRefs, RowsOf, Touches
<1>7. OnlyFile(f)
  BY <1>6 DEF OnlyFile, DeleteRefs
<1> HIDE DEF q
<1>8. NoRefs(f)'
  BY <1>3, <1>4, <1>5 DEF NoRefs
<1>9. Stage(pass[i])'
  BY <1>3, <1>4, <1>8 DEF Stage
<1>10. RefsHaveRows(f)'
  BY <1>8 DEF NoRefs, RefsHaveRows
<1>11. q.pc \in Working
  BY <1>4 DEF Working, Points
<1> QED BY <1>1, <1>3, <1>4, <1>7, <1>9, <1>10, <1>11, WorkStep DEF DeleteRefs

LEMMA KeepDeleteRows ==
  ASSUME Separate, IndexInv, TypeInv', NEW i \in Indexers, DeleteRows(i)
  PROVE  IndexInv'
<1> DEFINE w == pass[i].ws
           f == pass[i].file
           v == pass[i].version
           q == [pass[i] EXCEPT !.pc = "delete_symbols"]
<1>1. pass[i].pc = "delete_rows" /\ pass[i].pc \in Working
  BY DEF DeleteRows, Working, Points
<1>2. /\ TypeInv /\ pass[i] \in Pass /\ pass \in [Indexers -> Pass] /\ f \in Files
      /\ w \in Workspaces /\ v \in Versions /\ \A n \in Names : <<w, f, n>> \in Keys
      /\ <<w, f>> \in Homes /\ Symbols[v] \subseteq Names
      /\ Stage(pass[i])
  BY <1>1, HandFacts
<1>3. pass' = [pass EXCEPT ![i] = q] /\ pass'[i] = q
  BY <1>2 DEF DeleteRows
<1>4. /\ q.pc = "delete_symbols" /\ q.ws = w /\ q.force = pass[i].force /\ q.file = f
      /\ q.version = v /\ q.done = pass[i].done /\ q.batch = pass[i].batch
  BY <1>2 DEF Pass
<1> HIDE DEF q
<1>7. OnlyFile(f)
  BY DEF OnlyFile, DeleteRows, RowsOf
<1>8. NoRefs(f)'
  BY <1>1, <1>2, <1>3, <1>4 DEF DeleteRows, Stage, NoRefs, Working, Points
<1>9. Stage(pass[i])'
  <2>1. \A n \in Names : <<w, f, n>> \notin rows'
    BY DEF DeleteRows, RowsOf
  <2> QED BY <2>1, <1>3, <1>4, <1>8 DEF Stage
<1>10. RefsHaveRows(f)'
  BY <1>8 DEF NoRefs, RefsHaveRows
<1>11. q.pc \in Working
  BY <1>4 DEF Working, Points
<1> QED BY <1>1, <1>3, <1>4, <1>7, <1>9, <1>10, <1>11, WorkStep DEF DeleteRows

LEMMA KeepDeleteSymbols ==
  ASSUME Separate, IndexInv, TypeInv', NEW i \in Indexers, DeleteSymbols(i)
  PROVE  IndexInv'
<1> DEFINE w == pass[i].ws
           f == pass[i].file
           v == pass[i].version
           q == [pass[i] EXCEPT !.pc = "delete_file"]
<1>1. pass[i].pc = "delete_symbols" /\ pass[i].pc \in Working
  BY DEF DeleteSymbols, Working, Points
<1>2. /\ TypeInv /\ pass[i] \in Pass /\ pass \in [Indexers -> Pass] /\ f \in Files
      /\ w \in Workspaces /\ v \in Versions /\ \A n \in Names : <<w, f, n>> \in Keys
      /\ <<w, f>> \in Homes /\ Symbols[v] \subseteq Names
      /\ Stage(pass[i])
  BY <1>1, HandFacts
<1>3. pass' = [pass EXCEPT ![i] = q] /\ pass'[i] = q
  BY <1>2 DEF DeleteSymbols
<1>4. /\ q.pc = "delete_file" /\ q.ws = w /\ q.force = pass[i].force /\ q.file = f
      /\ q.version = v /\ q.done = pass[i].done /\ q.batch = pass[i].batch
  BY <1>2 DEF Pass
<1> HIDE DEF q
<1>7. OnlyFile(f)
  BY DEF OnlyFile, DeleteSymbols, Drop
<1>8. NoRefs(f)'
  BY <1>1, <1>2, <1>3, <1>4 DEF DeleteSymbols, Stage, NoRefs, Working, Points
<1>9. Stage(pass[i])'
  <2>1. \A n \in Names : <<w, f, n>> \notin rows' /\ symbols'[<<w, f, n>>] = None
    BY <1>1, <1>2 DEF DeleteSymbols, Drop, Stage
  <2> QED BY <2>1, <1>3, <1>4, <1>8 DEF Stage
<1>10. RefsHaveRows(f)'
  BY <1>8 DEF NoRefs, RefsHaveRows
<1>11. q.pc \in Working
  BY <1>4 DEF Working, Points
<1> QED BY <1>1, <1>3, <1>4, <1>7, <1>9, <1>10, <1>11, WorkStep DEF DeleteSymbols

LEMMA KeepDeleteFile ==
  ASSUME Separate, IndexInv, TypeInv', NEW i \in Indexers, DeleteFile(i)
  PROVE  IndexInv'
<1> DEFINE w == pass[i].ws
           f == pass[i].file
           v == pass[i].version
           q == [pass[i] EXCEPT !.pc = "put_file"]
<1>1. pass[i].pc = "delete_file" /\ pass[i].pc \in Working
  BY DEF DeleteFile, Working, Points
<1>2. /\ TypeInv /\ pass[i] \in Pass /\ pass \in [Indexers -> Pass] /\ f \in Files
      /\ w \in Workspaces /\ v \in Versions /\ \A n \in Names : <<w, f, n>> \in Keys
      /\ <<w, f>> \in Homes /\ Symbols[v] \subseteq Names
      /\ Stage(pass[i])
  BY <1>1, HandFacts
<1>3. pass' = [pass EXCEPT ![i] = q] /\ pass'[i] = q
  BY <1>2 DEF DeleteFile
<1>4. /\ q.pc = "put_file" /\ q.ws = w /\ q.force = pass[i].force /\ q.file = f
      /\ q.version = v /\ q.done = pass[i].done /\ q.batch = pass[i].batch
  BY <1>2 DEF Pass
<1> HIDE DEF q
<1>7. OnlyFile(f)
  BY <1>2 DEF OnlyFile, DeleteFile, TypeInv, TypeOK
<1>8. NoRefs(f)'
  BY <1>1, <1>2, <1>3, <1>4 DEF DeleteFile, Stage, NoRefs, Working, Points
<1>9. Stage(pass[i])'
  <2>1. \A n \in Names : <<w, f, n>> \notin rows' /\ symbols'[<<w, f, n>>] = None
    BY <1>1, <1>2 DEF DeleteFile, Stage
  <2> QED BY <2>1, <1>3, <1>4, <1>8 DEF Stage
<1>10. RefsHaveRows(f)'
  BY <1>8 DEF NoRefs, RefsHaveRows
<1>11. q.pc \in Working
  BY <1>4 DEF Working, Points
<1> QED BY <1>1, <1>3, <1>4, <1>7, <1>9, <1>10, <1>11, WorkStep DEF DeleteFile

LEMMA KeepPutFile ==
  ASSUME Separate, IndexInv, TypeInv', NEW i \in Indexers, PutFile(i)
  PROVE  IndexInv'
<1> DEFINE w == pass[i].ws
           f == pass[i].file
           v == pass[i].version
           q == [pass[i] EXCEPT !.pc = "symbols", !.rest = Symbols[v]]
<1>1. pass[i].pc = "put_file" /\ pass[i].pc \in Working
  BY DEF PutFile, Working, Points
<1>2. /\ TypeInv /\ pass[i] \in Pass /\ pass \in [Indexers -> Pass] /\ f \in Files
      /\ w \in Workspaces /\ v \in Versions /\ \A n \in Names : <<w, f, n>> \in Keys
      /\ <<w, f>> \in Homes /\ Symbols[v] \subseteq Names
      /\ Stage(pass[i])
  BY <1>1, HandFacts
<1>3. pass' = [pass EXCEPT ![i] = q] /\ pass'[i] = q
  BY <1>2 DEF PutFile
<1>4. /\ q.pc = "symbols" /\ q.ws = w /\ q.force = pass[i].force /\ q.file = f
      /\ q.version = v /\ q.done = pass[i].done /\ q.batch = pass[i].batch /\ q.rest = Symbols[v]
  BY <1>2 DEF Pass
<1> HIDE DEF q
<1>7. OnlyFile(f)
  BY <1>2 DEF OnlyFile, PutFile, TypeInv, TypeOK
<1>8. NoRefs(f)'
  BY <1>1, <1>2, <1>3, <1>4 DEF PutFile, Stage, NoRefs, Working, Points
<1>9. Stage(pass[i])'
  <2>1. \A n \in Names : <<w, f, n>> \notin rows' /\ symbols'[<<w, f, n>>] = None
    BY <1>1, <1>2 DEF PutFile, Stage
  <2>2. about'[<<w, f>>] = v
    BY <1>2 DEF PutFile, TypeInv, TypeOK
  <2>3. Written(pass[i].ws, pass[i].file, pass[i].version,
                Symbols[pass[i].version] \ pass[i].rest,
                Symbols[pass[i].version] \ pass[i].rest)'
    BY <2>1, <1>3, <1>4 DEF Written
  <2> QED BY <2>2, <2>3, <1>3, <1>4, <1>8 DEF Stage
<1>10. RefsHaveRows(f)'
  BY <1>8 DEF NoRefs, RefsHaveRows
<1>11. q.pc \in Working
  BY <1>4 DEF Working, Points
<1> QED BY <1>1, <1>3, <1>4, <1>7, <1>9, <1>10, <1>11, WorkStep DEF PutFile

LEMMA KeepDeleteSymbol ==
  ASSUME Separate, IndexInv, TypeInv', NEW i \in Indexers, DeleteSymbol(i)
  PROVE  IndexInv'
<1> DEFINE w == pass[i].ws
           f == pass[i].file
           v == pass[i].version
<1>1. pass[i].pc = "symbols" /\ pass[i].pc \in Working
  BY DEF DeleteSymbol, Working, Points
<1>2. /\ TypeInv /\ pass[i] \in Pass /\ pass \in [Indexers -> Pass] /\ f \in Files
      /\ w \in Workspaces /\ v \in Versions /\ \A n \in Names : <<w, f, n>> \in Keys
      /\ <<w, f>> \in Homes /\ Symbols[v] \subseteq Names
      /\ Stage(pass[i])
  BY <1>1, HandFacts
<1>2a. PICK n \in pass[i].rest :
         /\ Drop({k \in rows : k[1] = w /\ Module[k[2]] = Module[f] /\ k[3] = n})
         /\ pass' = [pass EXCEPT ![i].pc = "put_symbol", ![i].name = n, ![i].rest = @ \ {n}]
  BY DEF DeleteSymbol
<1> DEFINE q == [pass[i] EXCEPT !.pc = "put_symbol", !.name = n,
                                !.rest = pass[i].rest \ {n}]
<1>3. pass' = [pass EXCEPT ![i] = q] /\ pass'[i] = q
  BY <1>2, <1>2a DEF DeleteSymbol
<1>4. /\ q.pc = "put_symbol" /\ q.ws = w /\ q.force = pass[i].force /\ q.file = f
      /\ q.version = v /\ q.done = pass[i].done /\ q.batch = pass[i].batch /\ q.name = n
      /\ q.rest = pass[i].rest \ {n}
  BY <1>2 DEF Pass
<1> HIDE DEF q
<1>5. /\ about[<<w, f>>] = v /\ pass[i].rest \subseteq Symbols[v]
      /\ Written(w, f, v, Symbols[v] \ pass[i].rest, Symbols[v] \ pass[i].rest)
  BY <1>1, <1>2 DEF Stage
<1>6. symbols' = symbols /\ rows' = rows /\ edges' = edges
  <2> DEFINE gone == {k \in rows : k[1] = w /\ Module[k[2]] = Module[f] /\ k[3] = n}
  <2>1. ASSUME NEW k \in gone PROVE FALSE
    <3>1. k = <<k[1], k[2], k[3]>> /\ k[2] \in Files /\ k \in rows /\ k[3] \in Names
      BY <1>2, KeysFacts DEF TypeInv, TypeOK
    <3>2. k = <<w, f, n>> /\ n \in Names
      BY <3>1, <1>2 DEF Separate
    <3> QED BY <3>1, <3>2, <1>5, <1>2a DEF Written
  <2>2. gone = {}
    BY <2>1
  <2> HIDE DEF gone
  <2>3. symbols = [k \in Keys |-> symbols[k]]
    BY <1>2 DEF TypeInv, TypeOK
  <2>4. \A e \in edges : e[1] \notin {} /\ e[2] \notin {}
    OBVIOUS
  <2>5. symbols' = [k \in Keys |-> symbols[k]] /\ rows' = rows /\ edges' = edges
    BY <1>2a, <2>2 DEF Drop, gone
  <2> QED BY <2>3, <2>5
<1>7. OnlyFile(f)
  BY <1>6 DEF OnlyFile, DeleteSymbol
<1>8. NoRefs(f)'
  BY <1>1, <1>2, <1>3, <1>4 DEF DeleteSymbol, Stage, NoRefs, Working, Points
<1>9. Stage(pass[i])'
  <2>1. Symbols[v] \ (q.rest \cup {q.name}) = Symbols[v] \ pass[i].rest
    BY <1>2a, <1>4
  <2>2. Written(pass[i].ws, pass[i].file, pass[i].version,
                Symbols[pass[i].version] \ (pass[i].rest \cup {pass[i].name}),
                Symbols[pass[i].version] \ (pass[i].rest \cup {pass[i].name}))'
    BY <2>1, <1>3, <1>4, <1>5, <1>6 DEF Written
  <2>3. about' = about
    BY DEF DeleteSymbol
  <2>4. q.name \in Symbols[v] \ q.rest /\ q.rest \subseteq Symbols[v]
    BY <1>2a, <1>4, <1>5
  <2> QED BY <2>2, <2>3, <2>4, <1>3, <1>4, <1>5, <1>8 DEF Stage
<1>10. RefsHaveRows(f)'
  BY <1>8 DEF NoRefs, RefsHaveRows
<1>11. q.pc \in Working
  BY <1>4 DEF Working, Points
<1> QED BY <1>1, <1>3, <1>4, <1>7, <1>9, <1>10, <1>11, WorkStep DEF DeleteSymbol

LEMMA KeepPutSymbol ==
  ASSUME Separate, IndexInv, TypeInv', NEW i \in Indexers, PutSymbol(i)
  PROVE  IndexInv'
<1> DEFINE w == pass[i].ws
           f == pass[i].file
           v == pass[i].version
           q == [pass[i] EXCEPT !.pc = "put_row"]
<1>1. pass[i].pc = "put_symbol" /\ pass[i].pc \in Working
  BY DEF PutSymbol, Working, Points
<1>2. /\ TypeInv /\ pass[i] \in Pass /\ pass \in [Indexers -> Pass] /\ f \in Files
      /\ w \in Workspaces /\ v \in Versions /\ \A n \in Names : <<w, f, n>> \in Keys
      /\ <<w, f>> \in Homes /\ Symbols[v] \subseteq Names
      /\ Stage(pass[i])
  BY <1>1, HandFacts
<1>3. pass' = [pass EXCEPT ![i] = q] /\ pass'[i] = q
  BY <1>2 DEF PutSymbol
<1>4. /\ q.pc = "put_row" /\ q.ws = w /\ q.force = pass[i].force /\ q.file = f
      /\ q.version = v /\ q.done = pass[i].done /\ q.batch = pass[i].batch /\ q.name = pass[i].name
      /\ q.rest = pass[i].rest
  BY <1>2 DEF Pass
<1> HIDE DEF q
<1>5. /\ about[<<w, f>>] = v /\ pass[i].rest \subseteq Symbols[v]
      /\ pass[i].name \in Symbols[v] \ pass[i].rest
      /\ Written(w, f, v, Symbols[v] \ (pass[i].rest \cup {pass[i].name}),
                 Symbols[v] \ (pass[i].rest \cup {pass[i].name}))
  BY <1>1, <1>2 DEF Stage
<1>6. symbols' = [symbols EXCEPT ![<<w, f, pass[i].name>>] = v]
      /\ symbols \in [Keys -> Versions \cup {None}]
  BY <1>2 DEF PutSymbol, TypeInv, TypeOK
<1>7. OnlyFile(f)
  BY <1>6 DEF OnlyFile, PutSymbol
<1>8. NoRefs(f)'
  BY <1>1, <1>2, <1>3, <1>4 DEF PutSymbol, Stage, NoRefs, Working, Points
<1>9. Stage(pass[i])'
  <2>1. \A n \in Names :
          /\ symbols'[<<w, f, n>>] = IF n \in Symbols[v] \ pass[i].rest THEN v ELSE None
          /\ <<w, f, n>> \in rows' <=> n \in Symbols[v] \ (pass[i].rest \cup {pass[i].name})
    BY <1>2, <1>5, <1>6 DEF Written, PutSymbol
  <2>2. Written(pass[i].ws, pass[i].file, pass[i].version,
                Symbols[pass[i].version] \ pass[i].rest,
                Symbols[pass[i].version] \ (pass[i].rest \cup {pass[i].name}))'
    BY <2>1, <1>3, <1>4 DEF Written
  <2>3. about' = about
    BY DEF PutSymbol
  <2> QED BY <2>2, <2>3, <1>3, <1>4, <1>5, <1>8 DEF Stage
<1>10. RefsHaveRows(f)'
  BY <1>8 DEF NoRefs, RefsHaveRows
<1>11. q.pc \in Working
  BY <1>4 DEF Working, Points
<1> QED BY <1>1, <1>3, <1>4, <1>7, <1>9, <1>10, <1>11, WorkStep DEF PutSymbol

LEMMA KeepPutRow ==
  ASSUME Separate, IndexInv, TypeInv', NEW i \in Indexers, PutRow(i)
  PROVE  IndexInv'
<1> DEFINE w == pass[i].ws
           f == pass[i].file
           v == pass[i].version
           q == [pass[i] EXCEPT !.pc = "symbols", !.name = None]
<1>1. pass[i].pc = "put_row" /\ pass[i].pc \in Working
  BY DEF PutRow, Working, Points
<1>2. /\ TypeInv /\ pass[i] \in Pass /\ pass \in [Indexers -> Pass] /\ f \in Files
      /\ w \in Workspaces /\ v \in Versions /\ \A n \in Names : <<w, f, n>> \in Keys
      /\ <<w, f>> \in Homes /\ Symbols[v] \subseteq Names
      /\ Stage(pass[i])
  BY <1>1, HandFacts
<1>3. pass' = [pass EXCEPT ![i] = q] /\ pass'[i] = q
  BY <1>2 DEF PutRow
<1>4. /\ q.pc = "symbols" /\ q.ws = w /\ q.force = pass[i].force /\ q.file = f
      /\ q.version = v /\ q.done = pass[i].done /\ q.batch = pass[i].batch
      /\ q.rest = pass[i].rest
  BY <1>2 DEF Pass
<1> HIDE DEF q
<1>5. /\ about[<<w, f>>] = v /\ pass[i].rest \subseteq Symbols[v]
      /\ pass[i].name \in Symbols[v] \ pass[i].rest
      /\ Written(w, f, v, Symbols[v] \ pass[i].rest,
                 Symbols[v] \ (pass[i].rest \cup {pass[i].name}))
  BY <1>1, <1>2 DEF Stage
<1>7. OnlyFile(f)
  BY DEF OnlyFile, PutRow
<1>8. NoRefs(f)'
  BY <1>1, <1>2, <1>3, <1>4 DEF PutRow, Stage, NoRefs, Working, Points
<1>9. Stage(pass[i])'
  <2>1. \A n \in Names :
          /\ symbols'[<<w, f, n>>] = IF n \in Symbols[v] \ pass[i].rest THEN v ELSE None
          /\ <<w, f, n>> \in rows' <=> n \in Symbols[v] \ pass[i].rest
    BY <1>2, <1>5 DEF Written, PutRow
  <2>2. Written(pass[i].ws, pass[i].file, pass[i].version,
                Symbols[pass[i].version] \ pass[i].rest,
                Symbols[pass[i].version] \ pass[i].rest)'
    BY <2>1, <1>3, <1>4 DEF Written
  <2>3. about' = about
    BY DEF PutRow
  <2> QED BY <2>2, <2>3, <1>3, <1>4, <1>5, <1>8 DEF Stage
<1>10. RefsHaveRows(f)'
  BY <1>8 DEF NoRefs, RefsHaveRows
<1>11. q.pc \in Working
  BY <1>4 DEF Working, Points
<1> QED BY <1>1, <1>3, <1>4, <1>7, <1>9, <1>10, <1>11, WorkStep DEF PutRow

LEMMA KeepPutRefs ==
  ASSUME Separate, IndexInv, TypeInv', NEW i \in Indexers, PutRefs(i)
  PROVE  IndexInv'
<1> DEFINE w == pass[i].ws
           f == pass[i].file
           v == pass[i].version
           q == [pass[i] EXCEPT !.pc = "set_indexed", !.batch = pass[i].batch \cup FileRefs(f, v)]
<1>1. pass[i].pc = "symbols" /\ pass[i].pc \in Working
  BY DEF PutRefs, Working, Points
<1>2. /\ TypeInv /\ pass[i] \in Pass /\ pass \in [Indexers -> Pass] /\ f \in Files
      /\ w \in Workspaces /\ v \in Versions /\ \A n \in Names : <<w, f, n>> \in Keys
      /\ <<w, f>> \in Homes /\ Symbols[v] \subseteq Names
      /\ Stage(pass[i])
  BY <1>1, HandFacts
<1>3. pass' = [pass EXCEPT ![i] = q] /\ pass'[i] = q
  BY <1>2 DEF PutRefs
<1>4. /\ q.pc = "set_indexed" /\ q.ws = w /\ q.force = pass[i].force /\ q.file = f
      /\ q.version = v /\ q.done = pass[i].done /\ q.batch = pass[i].batch \cup FileRefs(f, v)
  BY <1>2 DEF Pass
<1> HIDE DEF q
<1>5. /\ about[<<w, f>>] = v /\ pass[i].rest = {} /\ NoRefs(f)
      /\ Written(w, f, v, Symbols[v], Symbols[v])
  BY <1>1, <1>2 DEF Stage, PutRefs, Working
<1>6. refs' = refs \cup FileRefs(f, v) /\ about' = about /\ symbols' = symbols /\ rows' = rows
  BY DEF PutRefs
<1>7. OnlyFile(f)
  BY <1>2, <1>6, FileRefsTyped DEF OnlyFile, PutRefs
<1>8. {r \in refs' : r[1] = Module[f]} = FileRefs(f, v)
  BY <1>2, <1>5, <1>6, FileRefsTyped DEF NoRefs
<1>9. Stage(pass[i])'
  <2>1. UpToDate(pass[i].ws, pass[i].file, pass[i].version)'
    BY <1>3, <1>4, <1>5, <1>6, <1>8 DEF UpToDate, Written
  <2>2. FileRefs(f, v) \subseteq q.batch
    BY <1>4
  <2>3. FileRefs(pass[i].file, pass[i].version)' \subseteq pass'[i].batch
    BY <2>2, <1>3, <1>4 DEF FileRefs
  <2> QED BY <2>1, <2>3, <1>3, <1>4 DEF Stage, Working
<1>10. RefsHaveRows(f)'
  <2>1. ASSUME NEW r \in refs', r[1] = Module[f]
        PROVE  \E k \in rows' : k[2] = f /\ Touches(k, r)
    <3>1. r \in FileRefs(f, v)
      BY <2>1, <1>8
    <3>2. r[2] \in Symbols[v]
      BY <3>1, <1>2, FileRefsTyped
    <3>3. <<w, f, r[2]>> \in rows'
      BY <3>2, <1>2, <1>5, <1>6 DEF Written
    <3> QED BY <2>1, <3>3 DEF Touches
  <2> QED BY <2>1, <1>3, <1>4 DEF RefsHaveRows, Touches
<1>11. q.pc \in Working
  BY <1>4 DEF Working, Points
<1> QED BY <1>1, <1>3, <1>4, <1>7, <1>9, <1>10, <1>11, WorkStep DEF PutRefs


LEMMA SameArtifacts ==
  ASSUME UNCHANGED <<about, symbols, rows, refs>>
  PROVE  /\ \A w, f, v : UpToDate(w, f, v) <=> UpToDate(w, f, v)'
         /\ \A f : RefsHaveRows(f) <=> RefsHaveRows(f)'
BY DEF UpToDate, RefsHaveRows

LEMMA KeptEdges ==
  ASSUME edges \subseteq edges', NEW w, NEW f, NEW v, Edged(w, f, v)
  PROVE  Edged(w, f, v)'
BY DEF Edged

\* No file is in hand, or pending, but in the pass that is under way.
LEMMA OnePass ==
  ASSUME IndexInv, NEW i \in Indexers, pass[i].pc # "idle"
  PROVE  /\ \A g : InHand(g) => pass[i].pc \in Working /\ pass[i].file = g
         /\ \A g, v : \A j \in Indexers : Pending(j, g, v) => j = i
<1>1. \A j \in Indexers : j # i => pass[j].pc = "idle"
  BY OthersIdle
<1> QED BY <1>1 DEF InHand, Pending, Working

\* A path has one owner.
LEMMA OneOwner ==
  ASSUME Separate, NEW w \in Workspaces, NEW x \in Workspaces,
         NEW f \in Paths[w], f \in Paths[x]
  PROVE  w = x
BY DEF Separate

LEMMA KeepReadFile ==
  ASSUME Separate, IndexInv, TypeInv', NEW i \in Indexers, ReadFile(i)
  PROVE  IndexInv'
<1> DEFINE w == pass[i].ws
           left(f) == [pass[i] EXCEPT !.queue = pass[i].queue \ {f}]
<1>1. PICK f \in pass[i].queue :
        LET v == disk[w][f] IN
        /\ pass[i].pc = "next"
        /\ pass' = [pass EXCEPT ![i] =
             IF v = None THEN left(f)
             ELSE IF ~pass[i].force /\ hashes[f] = v
               THEN [left(f) EXCEPT !.done = @ \cup {<<f, v>>}]
             ELSE [left(f) EXCEPT !.pc = "delete_refs", !.file = f, !.version = v]]
  BY DEF ReadFile
<1> DEFINE v == disk[w][f]
           taken == v # None /\ ~(~pass[i].force /\ hashes[f] = v)
           skipped == v # None /\ ~pass[i].force /\ hashes[f] = v
<1>2. /\ TypeInv /\ pass \in [Indexers -> Pass] /\ pass[i] \in Pass /\ PassFits(pass[i])
      /\ w \in Workspaces /\ f \in Paths[w] /\ PassInv(i) /\ FileInv(w, f)
  BY <1>1, PassTyped DEF IndexInv, PassFits
<1>3. UNCHANGED <<disk, used, about, symbols, rows, refs, edges, hashes, lock, failures, plain>>
  BY DEF ReadFile, code
<1>4. \A j \in Indexers : j # i =>
        pass'[j] = pass[j] /\ pass[j].pc = "idle" /\ pass[j].done = {}
  BY <1>1, <1>2, OthersIdle
<1>5. /\ left(f).pc = "next" /\ left(f).ws = w /\ left(f).force = pass[i].force
      /\ left(f).done = pass[i].done /\ left(f).batch = pass[i].batch
      /\ left(f) \in Pass
  BY <1>1, <1>2 DEF Pass
<1> HIDE DEF left
<1>6. /\ pass'[i].ws = w /\ pass'[i].force = pass[i].force
      /\ pass'[i].batch = pass[i].batch
      /\ pass'[i].done = IF skipped THEN pass[i].done \cup {<<f, v>>} ELSE pass[i].done
      /\ pass'[i].pc = IF taken THEN "delete_refs" ELSE "next"
      /\ taken => pass'[i].file = f /\ pass'[i].version = v
  <2>1. CASE v = None
    BY <2>1, <1>1, <1>2, <1>5
  <2>2. CASE skipped
    BY <2>2, <1>1, <1>2, <1>5 DEF Pass
  <2>3. CASE taken
    BY <2>3, <1>1, <1>2, <1>5 DEF Pass
  <2> QED BY <2>1, <2>2, <2>3
<1>7. \A g : ~InHand(g)
  BY <1>1, OnePass DEF Working
<1>8. \A g : InHand(g)' => taken /\ g = f
  BY <1>4, <1>6 DEF InHand, Working
<1>9. \A j \in Indexers : \A g, x : Pending(j, g, x) => Pending(j, g, x)'
  BY <1>4, <1>6 DEF Pending, FileRefs
<1>10. ASSUME skipped
       PROVE  /\ failures = 0 \/ plain => UpToDate(w, f, v)
              /\ failures = 0 => Edged(w, f, v)
  <2>1. \A d \in pass[i].done : d[1] # f
    BY <1>1, <1>2 DEF PassFits
  <2>2. \A j \in Indexers : ~Pending(j, f, v)
    <3>1. ~Pending(i, f, v)
      BY <2>1 DEF Pending
    <3>2. \A j \in Indexers : Pending(j, f, v) => j = i
      BY <1>1, OnePass
    <3> QED BY <3>1, <3>2
  <2>3. failures \in Nat
    BY <1>2, CodeIndexAssumption DEF TypeInv, TypeOK
  <2> QED BY <1>2, <1>7, <1>10, <2>2, <2>3 DEF FileInv, HashHolds
<1>11. PassInv(i)'
  <2>1. Stage(pass[i])'
    BY <1>6 DEF Stage, Working
  <2>2. failures' = 0 \/ plain' =>
          \A d \in pass'[i].done : UpToDate(pass[i].ws, d[1], d[2])'
    <3> SUFFICES ASSUME failures = 0 \/ plain, NEW d \in pass'[i].done
                 PROVE  UpToDate(w, d[1], d[2])
      BY <1>3, <1>6 DEF UpToDate
    <3>1. CASE d \in pass[i].done
      BY <3>1, <1>2 DEF PassInv
    <3>2. CASE d \notin pass[i].done
      <4>1. skipped /\ d = <<f, v>>
        BY <3>2, <1>6
      <4> QED BY <4>1, <1>10
    <3> QED BY <3>1, <3>2
  <2>3. failures' = 0 =>
          \A d \in pass'[i].done : Edged(pass[i].ws, d[1], d[2])' \/ Pending(i, d[1], d[2])'
    <3> SUFFICES ASSUME failures = 0, NEW d \in pass'[i].done
                 PROVE  Edged(w, d[1], d[2]) \/ Pending(i, d[1], d[2])'
      BY <1>3, <1>6 DEF Edged
    <3>1. CASE d \in pass[i].done
      BY <3>1, <1>2, <1>9 DEF PassInv
    <3>2. CASE d \notin pass[i].done
      <4>1. skipped /\ d = <<f, v>>
        BY <3>2, <1>6
      <4> QED BY <4>1, <1>10
    <3> QED BY <3>1, <3>2
  <2>4. lock' = i /\ (plain' => ~pass'[i].force) /\ pass'[i].pc # "idle"
    BY <1>1, <1>2, <1>3, <1>6 DEF PassInv
  <2>5. pass'[i].pc \in Working => pass'[i].version \in used'[pass'[i].ws][pass'[i].file]
    BY <1>2, <1>3, <1>6 DEF FileInv, Working
  <2> QED BY <2>1, <2>2, <2>3, <2>4, <2>5 DEF PassInv
<1>12. \A j \in Indexers : j # i => PassInv(j)'
  BY <1>4, IdlePassInv
<1>13. ASSUME NEW x \in Workspaces, NEW g \in Paths[x] PROVE FileInv(x, g)'
  <2>1. FileInv(x, g) /\ (RefsHaveRows(g) <=> RefsHaveRows(g)')
        /\ \A y : (UpToDate(x, g, y) <=> UpToDate(x, g, y)') /\ (Edged(x, g, y) => Edged(x, g, y)')
    BY <1>3, SameArtifacts, KeptEdges DEF IndexInv
  <2>2. InHand(g)' /\ plain /\ hashes[g] # None => disk[x][g] # hashes[g]
    <3> SUFFICES ASSUME InHand(g)', plain PROVE disk[x][g] # hashes[g]
      OBVIOUS
    <3>1. taken /\ g = f
      BY <1>8
    <3>2. x = w
      BY <3>1, <1>2, OneOwner
    <3> QED BY <3>1, <3>2, <1>1, <1>2 DEF PassInv
  <2>3. HashHolds(x, g)'
    BY <2>1, <2>2, <1>3, <1>7 DEF FileInv, HashHolds
  <2> QED BY <2>1, <2>3, <1>3, <1>7, <1>9 DEF FileInv
<1> QED BY <1>11, <1>12, <1>13 DEF IndexInv

LEMMA KeepSetIndexed ==
  ASSUME Separate, IndexInv, TypeInv', NEW i \in Indexers, SetIndexed(i)
  PROVE  IndexInv'
<1>1. pass[i].pc = "set_indexed" /\ pass[i].pc \in Working /\ pass[i].pc # "idle"
  BY DEF SetIndexed, Working, Points
<1>0. PICK w, f, v : w = pass[i].ws /\ f = pass[i].file /\ v = pass[i].version
  OBVIOUS
<1> DEFINE q == [pass[i] EXCEPT !.pc = "next", !.file = None, !.version = None,
                                !.done = pass[i].done \cup {<<f, v>>}]
<1>2. /\ TypeInv /\ pass \in [Indexers -> Pass] /\ pass[i] \in Pass
      /\ w \in Workspaces /\ f \in Paths[w] /\ f \in Files /\ v \in Versions
      /\ PassInv(i) /\ UpToDate(w, f, v) /\ FileRefs(f, v) \subseteq pass[i].batch
      /\ hashes \in [Files -> Versions \cup {None}] /\ v \in used[w][f]
  BY <1>0, <1>1, HandFacts DEF Stage, IndexInv, PassInv, TypeInv, TypeOK
<1>3. /\ UNCHANGED <<disk, used, about, symbols, rows, refs, edges, lock, failures, plain>>
      /\ hashes' = [hashes EXCEPT ![f] = v]
  BY <1>0 DEF SetIndexed
<1>4. pass' = [pass EXCEPT ![i] = q] /\ pass'[i] = q
  BY <1>0, <1>2 DEF SetIndexed
<1>5. /\ q.pc = "next" /\ q.ws = w /\ q.force = pass[i].force /\ q.batch = pass[i].batch
      /\ q.done = pass[i].done \cup {<<f, v>>}
  BY <1>0, <1>2 DEF Pass
<1> HIDE DEF q
<1>6. \A j \in Indexers : j # i =>
        pass'[j] = pass[j] /\ pass[j].pc = "idle" /\ pass[j].done = {}
  BY <1>1, <1>2, <1>4, OthersIdle
<1>7. \A g : (InHand(g) => g = f) /\ ~InHand(g)'
  BY <1>0, <1>1, <1>4, <1>5, <1>6, OnePass DEF InHand, Working
<1>8. \A j \in Indexers : \A g, y : Pending(j, g, y) => Pending(j, g, y)'
  BY <1>4, <1>5, <1>6 DEF Pending, FileRefs
<1>9. Pending(i, f, v)'
  BY <1>2, <1>4, <1>5 DEF Pending, FileRefs
<1>10. PassInv(i)'
  <2>1. Stage(pass[i])'
    BY <1>4, <1>5 DEF Stage, Working
  <2>2. failures' = 0 \/ plain' =>
          \A d \in pass'[i].done : UpToDate(pass[i].ws, d[1], d[2])'
    <3> SUFFICES ASSUME failures = 0 \/ plain, NEW d \in pass'[i].done
                 PROVE  UpToDate(w, d[1], d[2])
      BY <1>3, <1>4, <1>5 DEF UpToDate
    <3>1. d \in pass[i].done \/ d = <<f, v>>
      BY <1>4, <1>5
    <3> QED BY <3>1, <1>0, <1>2 DEF PassInv
  <2>3. failures' = 0 =>
          \A d \in pass'[i].done : Edged(pass[i].ws, d[1], d[2])' \/ Pending(i, d[1], d[2])'
    <3> SUFFICES ASSUME failures = 0, NEW d \in pass'[i].done
                 PROVE  Edged(w, d[1], d[2]) \/ Pending(i, d[1], d[2])'
      BY <1>3, <1>4, <1>5 DEF Edged
    <3>1. d \in pass[i].done \/ d = <<f, v>>
      BY <1>4, <1>5
    <3> QED BY <3>1, <1>0, <1>2, <1>8, <1>9 DEF PassInv
  <2>4. /\ lock' = i /\ (plain' => ~pass'[i].force) /\ pass'[i].pc # "idle"
        /\ pass'[i].pc \notin Working
    BY <1>1, <1>2, <1>3, <1>4, <1>5 DEF PassInv, Working
  <2> QED BY <2>1, <2>2, <2>3, <2>4 DEF PassInv
<1>11. \A j \in Indexers : j # i => PassInv(j)'
  BY <1>6, IdlePassInv
<1>12. ASSUME NEW x \in Workspaces, NEW g \in Paths[x] PROVE FileInv(x, g)'
  <2>1. /\ FileInv(x, g) /\ (RefsHaveRows(g) <=> RefsHaveRows(g)')
        /\ \A y : (UpToDate(x, g, y) <=> UpToDate(x, g, y)') /\ (Edged(x, g, y) => Edged(x, g, y)')
    BY <1>3, SameArtifacts, KeptEdges DEF IndexInv
  <2>2. CASE g = f
    <3>1. x = w
      BY <2>2, <1>2, OneOwner
    <3>2. hashes'[g] = v
      BY <2>2, <1>2, <1>3
    <3>3. HashHolds(x, g)'
      BY <2>1, <2>2, <3>1, <3>2, <1>2, <1>3, <1>7 DEF HashHolds
    <3> QED BY <2>1, <2>2, <3>2, <3>3, <1>3, <1>9 DEF FileInv
  <2>3. CASE g # f
    <3>1. hashes'[g] = hashes[g]
      BY <2>3, <1>2, <1>3
    <3>2. HashHolds(x, g)'
      BY <2>1, <2>3, <3>1, <1>3, <1>7 DEF FileInv, HashHolds
    <3> QED BY <2>1, <2>3, <3>1, <3>2, <1>3, <1>7, <1>8 DEF FileInv
  <2> QED BY <2>2, <2>3
<1> QED BY <1>10, <1>11, <1>12 DEF IndexInv

\* Where no two files share a module name, the last reading of a qualified name
\* is the only one, and the calls of an up-to-date file become edges.
LEMMA CallsProjected ==
  ASSUME Separate, TypeInv, NEW i \in Indexers, pass[i].ws \in Workspaces,
         NEW ks \in Readings(i), NEW f \in Paths[pass[i].ws], NEW v \in Versions,
         UpToDate(pass[i].ws, f, v), FileRefs(f, v) \subseteq pass[i].batch,
         NEW c \in Calls[v]
  PROVE  <<<<pass[i].ws, f, c[1]>>, <<pass[i].ws, f, c[2]>>>> \in Projected(i, ks)
<1> DEFINE w == pass[i].ws
           found == {k \in Keys : k[1] = w /\ symbols[k] # None}
<1>1. /\ c[1] \in Symbols[v] /\ c[2] \in Symbols[v] /\ Symbols[v] \subseteq Names
      /\ v # None /\ f \in Files
  BY CodeIndexAssumption DEF Files
<1>2. ASSUME NEW n \in Symbols[v] PROVE <<w, f, n>> \in ks
  <2>1. <<w, f, n>> \in found
    BY <1>1, KeysFacts DEF UpToDate
  <2>2. PICK q \in ks : QualifiedName(q) = QualifiedName(<<w, f, n>>)
    BY <2>1 DEF Readings
  <2>3. q \in Keys /\ q[1] = w
    BY DEF Readings
  <2>4. q = <<q[1], q[2], q[3]>> /\ q[2] \in Files
    BY <2>3, KeysFacts
  <2>5. Module[q[2]] = Module[f] /\ q[3] = n
    BY <2>2 DEF QualifiedName
  <2> QED BY <2>3, <2>4, <2>5, <1>1 DEF Separate
<1>3. <<Module[f], c[1], c[2]>> \in pass[i].batch
  BY DEF FileRefs
<1> HIDE DEF w
<1> DEFINE e == <<<<w, f, c[1]>>, <<w, f, c[2]>>>>
<1>4. e \in ks \X ks
  BY <1>1, <1>2
<1>5. e[1][2] = f /\ e[2][2] = f /\ e[1][3] = c[1] /\ e[2][3] = c[2]
  OBVIOUS
<1> HIDE DEF e
<1>6. e \in Projected(i, ks)
  BY <1>3, <1>4, <1>5 DEF Projected
<1> QED BY <1>6 DEF e, w

LEMMA KeepProject ==
  ASSUME Separate, IndexInv, TypeInv', NEW i \in Indexers, Project(i)
  PROVE  IndexInv'
<1>1. PICK ks \in Readings(i) : \E lost \in SUBSET Projected(i, ks) :
        /\ failures' = IF lost = {} THEN failures ELSE failures + 1
        /\ edges' = edges \cup (Projected(i, ks) \ lost)
        /\ pass' = [pass EXCEPT ![i].pc = "report"]
  BY DEF Project
<1>0. PICK w : w = pass[i].ws
  OBVIOUS
<1>2. /\ TypeInv /\ pass \in [Indexers -> Pass] /\ pass[i] \in Pass /\ PassFits(pass[i])
      /\ w \in Workspaces /\ PassInv(i) /\ pass[i].pc = "next" /\ failures \in Nat
  BY <1>0, PassTyped, CodeIndexAssumption DEF IndexInv, Project, PassFits, TypeInv, TypeOK
<1>3. /\ UNCHANGED <<disk, used, about, symbols, rows, refs, hashes, lock, plain>>
      /\ edges \subseteq edges' /\ (failures > 0 => failures' > 0)
      /\ failures' = 0 => failures = 0 /\ Projected(i, ks) \subseteq edges'
  BY <1>1, <1>2 DEF Project
<1>4. /\ pass'[i].pc = "report" /\ pass'[i].ws = w /\ pass'[i].force = pass[i].force
      /\ pass'[i].done = pass[i].done
  BY <1>0, <1>1, <1>2 DEF Pass
<1>5. \A j \in Indexers : j # i =>
        pass'[j] = pass[j] /\ pass[j].pc = "idle" /\ pass[j].done = {}
  BY <1>1, <1>2, OthersIdle
<1>6. \A g : ~InHand(g) /\ ~InHand(g)'
  BY <1>2, <1>4, <1>5, OnePass DEF InHand, Working
<1>7. ASSUME failures' = 0, NEW d \in pass[i].done PROVE Edged(w, d[1], d[2])'
  <2>1. d[1] \in Paths[w] /\ d[2] \in Versions /\ UpToDate(w, d[1], d[2])
    BY <1>0, <1>2, <1>3, <1>7 DEF PassFits, PassInv, Pass
  <2>2. CASE Edged(w, d[1], d[2])
    BY <2>2, <1>3, KeptEdges
  <2>3. CASE Pending(i, d[1], d[2])
    <3>1. FileRefs(d[1], d[2]) \subseteq pass[i].batch
      BY <2>3 DEF Pending
    <3>2. \A c \in Calls[d[2]] :
            <<<<w, d[1], c[1]>>, <<w, d[1], c[2]>>>> \in Projected(i, ks)
      BY <1>0, <1>2, <2>1, <3>1, CallsProjected
    <3> QED BY <3>2, <1>3, <1>7 DEF Edged
  <2> QED BY <2>2, <2>3, <1>0, <1>2, <1>3, <1>7 DEF PassInv
<1>8. PassInv(i)'
  <2>1. Stage(pass[i])'
    BY <1>4 DEF Stage, Working
  <2>2. failures' = 0 \/ plain' =>
          \A d \in pass'[i].done : UpToDate(pass[i].ws, d[1], d[2])'
    <3> SUFFICES ASSUME failures = 0 \/ plain, NEW d \in pass'[i].done
                 PROVE  UpToDate(w, d[1], d[2])
      BY <1>3, <1>4 DEF UpToDate
    <3> QED BY <1>0, <1>2, <1>4 DEF PassInv
  <2>3. failures' = 0 => \A d \in pass'[i].done : Edged(pass[i].ws, d[1], d[2])'
    BY <1>4, <1>7 DEF Edged
  <2>4. /\ lock' = i /\ (plain' => ~pass'[i].force) /\ pass'[i].pc # "idle"
        /\ pass'[i].pc \notin Working
    BY <1>2, <1>3, <1>4 DEF PassInv, Working
  <2> QED BY <2>1, <2>2, <2>3, <2>4 DEF PassInv
<1>9. \A j \in Indexers : j # i => PassInv(j)'
  BY <1>5, IdlePassInv
<1>10. ASSUME NEW x \in Workspaces, NEW g \in Paths[x] PROVE FileInv(x, g)'
  <2>1. /\ FileInv(x, g) /\ (RefsHaveRows(g) <=> RefsHaveRows(g)')
        /\ \A y : (UpToDate(x, g, y) <=> UpToDate(x, g, y)') /\ (Edged(x, g, y) => Edged(x, g, y)')
    BY <1>3, SameArtifacts, KeptEdges DEF IndexInv
  <2>2. HashHolds(x, g)'
    BY <2>1, <1>3, <1>6 DEF FileInv, HashHolds
  <2>3. ASSUME failures' = 0, hashes[g] # None PROVE Edged(x, g, hashes[g])'
    <3>1. CASE Edged(x, g, hashes[g])
      BY <3>1, <2>1, <1>3
    <3>2. ASSUME NEW j \in Indexers, Pending(j, g, hashes[g])
          PROVE  Edged(x, g, hashes[g])'
      <4>1. j = i
        BY <3>2, <1>2, OnePass
      <4>2. PICK d : d = <<g, hashes[g]>>
        OBVIOUS
      <4>3. d \in pass[i].done /\ g \in Paths[w]
        BY <3>2, <4>1, <4>2, <1>0, <1>2 DEF Pending, PassFits
      <4>4. x = w /\ Edged(w, d[1], d[2])'
        BY <4>3, <1>2, <1>7, <2>3, OneOwner
      <4> QED BY <4>2, <4>4, <1>3
    <3> QED BY <3>1, <3>2, <2>1, <2>3, <1>3, <1>6 DEF FileInv
  <2> QED BY <2>1, <2>2, <2>3, <1>3 DEF FileInv
<1> QED BY <1>8, <1>9, <1>10 DEF IndexInv

LEMMA KeepEnd ==
  ASSUME Separate, IndexInv, TypeInv', NEW i \in Indexers, Finish(i) \/ Abort(i)
  PROVE  IndexInv'
<1>1. /\ pass \in [Indexers -> Pass] /\ pass[i].pc # "idle" /\ TypeInv /\ failures \in Nat
      /\ pass' = [pass EXCEPT ![i] = Idle]
      /\ UNCHANGED <<disk, used, about, symbols, rows, refs, edges, hashes, plain>>
  BY CodeIndexAssumption DEF IndexInv, TypeInv, TypeOK, Finish, Abort, code
<1>2. \A j \in Indexers : pass'[j].pc = "idle" /\ pass'[j].done = {}
  BY <1>1, OthersIdle DEF Idle
<1>3. \A j \in Indexers : PassInv(j)'
  BY <1>2, IdlePassInv
<1>4. \A g : ~InHand(g)'
  BY <1>2 DEF InHand, Working
<1>5. \/ pass[i].pc = "report" /\ failures' = failures
      \/ failures' > 0
  BY <1>1 DEF Finish, Abort
<1>6. pass[i].pc = "report" => /\ \A g : ~InHand(g)
                               /\ \A j \in Indexers : \A g, v : ~Pending(j, g, v)
  BY <1>1, OnePass DEF Working, Pending
<1>7. ASSUME NEW x \in Workspaces, NEW g \in Paths[x] PROVE FileInv(x, g)'
  <2>1. /\ FileInv(x, g) /\ (RefsHaveRows(g) <=> RefsHaveRows(g)')
        /\ \A y : (UpToDate(x, g, y) <=> UpToDate(x, g, y)') /\ (Edged(x, g, y) => Edged(x, g, y)')
    BY <1>1, SameArtifacts, KeptEdges DEF IndexInv
  <2>2. CASE failures' > 0
    <3>1. HashHolds(x, g)'
      BY <2>1, <2>2, <1>1, <1>4 DEF FileInv, HashHolds
    <3> QED BY <2>1, <2>2, <3>1, <1>1 DEF FileInv
  <2>3. CASE pass[i].pc = "report" /\ failures' = failures
    <3>1. HashHolds(x, g)'
      BY <2>1, <2>3, <1>1, <1>4, <1>6 DEF FileInv, HashHolds
    <3> QED BY <2>1, <2>3, <3>1, <1>1, <1>6 DEF FileInv
  <2> QED BY <2>2, <2>3, <1>5
<1> QED BY <1>3, <1>7 DEF IndexInv

LEMMA KeepStart ==
  ASSUME Separate, IndexInv, TypeInv', NEW i \in Indexers, NEW w \in Workspaces,
         NEW force \in BOOLEAN, Start(i, w, force)
  PROVE  IndexInv'
<1>1. PICK walked \in SUBSET {f \in Paths[w] : disk[w][f] # None} :
        pass' = [pass EXCEPT ![i] = [Idle EXCEPT !.pc = "next", !.ws = w, !.force = force,
                                                 !.queue = walked]]
  BY DEF Start
<1>2. /\ pass \in [Indexers -> Pass] /\ TypeInv
      /\ UNCHANGED <<disk, used, about, symbols, rows, refs, edges, hashes, failures>>
      /\ lock' = i /\ plain' = (plain /\ ~force) /\ plain \in BOOLEAN
  BY DEF IndexInv, TypeInv, TypeOK, Start, code
<1>3. \A j \in Indexers : pass[j].pc = "idle" /\ pass[j].done = {}
  BY CodeIndexAssumption DEF IndexInv, PassInv, Start
<1>4. /\ pass'[i].pc = "next" /\ pass'[i].done = {} /\ pass'[i].force = force
      /\ \A j \in Indexers : j # i => pass'[j] = pass[j]
  BY <1>1, <1>2 DEF Idle
<1>5. PassInv(i)'
  <2>1. Stage(pass[i])'
    BY <1>4 DEF Stage, Working
  <2> QED BY <2>1, <1>2, <1>4 DEF PassInv, Working
<1>6. \A j \in Indexers : j # i => PassInv(j)'
  BY <1>3, <1>4, IdlePassInv
<1>7. /\ \A g : ~InHand(g) /\ ~InHand(g)'
      /\ \A j \in Indexers : \A g, v : ~Pending(j, g, v)
  BY <1>3, <1>4 DEF InHand, Pending, Working
<1>8. ASSUME NEW x \in Workspaces, NEW g \in Paths[x] PROVE FileInv(x, g)'
  <2>1. /\ FileInv(x, g) /\ (RefsHaveRows(g) <=> RefsHaveRows(g)')
        /\ \A y : (UpToDate(x, g, y) <=> UpToDate(x, g, y)') /\ (Edged(x, g, y) => Edged(x, g, y)')
    BY <1>2, SameArtifacts, KeptEdges DEF IndexInv
  <2>2. HashHolds(x, g)'
    BY <2>1, <1>2, <1>7 DEF FileInv, HashHolds
  <2> QED BY <2>1, <2>2, <1>2, <1>7 DEF FileInv
<1> QED BY <1>5, <1>6, <1>8 DEF IndexInv

\* An edit concerns the index only through `plain': what was on disk before is
\* in `used'.
LEMMA KeepEdit ==
  ASSUME Separate, IndexInv, TypeInv', NEW w \in Workspaces, NEW f \in Paths[w],
         NEW v \in Versions \cup {None}, Edit(w, f, v)
  PROVE  IndexInv'
<1>1. /\ UNCHANGED <<about, symbols, rows, refs, edges, hashes, lock, pass, failures>>
      /\ plain' = (plain /\ v \notin used[w][f]) /\ plain \in BOOLEAN /\ TypeInv
  BY DEF IndexInv, TypeInv, TypeOK, Edit, code
<1>2. /\ disk \in [Workspaces -> [Files -> Versions \cup {None}]]
      /\ used \in [Workspaces -> [Files -> SUBSET Versions]]
  BY <1>1 DEF TypeInv, TypeOK
<1>3. ASSUME NEW x \in Workspaces, NEW g \in Files
      PROVE  /\ disk'[x][g] = IF x = w /\ g = f THEN v ELSE disk[x][g]
             /\ used'[x][g] = IF x = w /\ g = f THEN used[w][f] \cup ({v} \ {None})
                                                ELSE used[x][g]
  <2>1. f \in Files
    BY DEF Files
  <2> QED BY <2>1, <1>2 DEF Edit
<1>4. ASSUME NEW j \in Indexers PROVE PassInv(j)'
  <2>1. PassInv(j) /\ (pass[j].pc \in Working =>
                         pass[j].ws \in Workspaces /\ pass[j].file \in Files)
    BY <1>1, HandTyped DEF IndexInv
  <2>2. Stage(pass[j])'
    BY <2>1, <1>1 DEF PassInv, Stage, Written, NoRefs, UpToDate
  <2>3. \A g, y : /\ UpToDate(pass[j].ws, g, y) <=> UpToDate(pass[j].ws, g, y)'
                  /\ Edged(pass[j].ws, g, y) <=> Edged(pass[j].ws, g, y)'
                  /\ Pending(j, g, y) <=> Pending(j, g, y)'
    BY <1>1 DEF UpToDate, Edged, Pending
  <2> QED BY <2>1, <2>2, <2>3, <1>1, <1>3 DEF PassInv
<1>5. ASSUME NEW x \in Workspaces, NEW g \in Paths[x] PROVE FileInv(x, g)'
  <2>1. /\ FileInv(x, g) /\ (RefsHaveRows(g) <=> RefsHaveRows(g)')
        /\ \A y : (UpToDate(x, g, y) <=> UpToDate(x, g, y)') /\ (Edged(x, g, y) => Edged(x, g, y)')
    BY <1>1, SameArtifacts, KeptEdges DEF IndexInv
  <2>2. g \in Files /\ (InHand(g) <=> InHand(g)')
        /\ \A j \in Indexers : \A y : Pending(j, g, y) <=> Pending(j, g, y)'
    BY <1>1 DEF Files, InHand, Pending
  <2>3. plain' /\ hashes[g] # None /\ (plain => disk[x][g] # hashes[g])
          => disk'[x][g] # hashes[g]
    BY <2>1, <2>2, <1>1, <1>3 DEF FileInv, HashHolds
  <2>4. HashHolds(x, g)'
    <3>1. hashes[g] # None => hashes[g] \in used'[x][g]
      BY <2>1, <2>2, <1>3 DEF FileInv, HashHolds
    <3> QED BY <2>1, <2>2, <2>3, <3>1, <1>1 DEF FileInv, HashHolds
  <2>5. disk'[x][g] # None => disk'[x][g] \in used'[x][g]
    BY <2>1, <2>2, <1>3 DEF FileInv
  <2> QED BY <2>1, <2>2, <2>4, <2>5, <1>1 DEF FileInv
<1> QED BY <1>4, <1>5 DEF IndexInv

LEMMA IndexInit == ASSUME Init PROVE IndexInv
<1>1. \A i \in Indexers : pass[i] = Idle
  BY DEF Init
<1>2. ASSUME NEW i \in Indexers PROVE PassInv(i)
  <2>1. pass[i].pc = "idle" /\ pass[i].done = {}
    BY <1>1 DEF Idle
  <2>2. Stage(pass[i])
    BY <2>1 DEF Stage, Working
  <2> QED BY <2>1, <2>2 DEF PassInv, Working
<1>3. ASSUME NEW w \in Workspaces, NEW f \in Paths[w] PROVE FileInv(w, f)
  <2>1. f \in Files
    BY DEF Files
  <2> QED BY <2>1 DEF Init, FileInv, HashHolds, RefsHaveRows
<1> QED BY <1>2, <1>3, TypeInit DEF IndexInv

LEMMA IndexNext ==
  ASSUME Separate, IndexInv, [Next]_vars
  PROVE  IndexInv'
<1>0. TypeInv'
  BY TypeNext DEF IndexInv
<1>1. CASE UNCHANGED vars
  <2>1. UNCHANGED <<disk, used, about, symbols, rows, refs, edges, hashes, lock, pass,
                    failures, plain>>
    BY <1>1 DEF vars, code
  <2>2. ASSUME NEW j \in Indexers PROVE PassInv(j)'
    <3>1. PassInv(j)
      BY DEF IndexInv
    <3>2. Stage(pass[j])'
      BY <2>1, <3>1 DEF PassInv, Stage, Written, NoRefs, UpToDate
    <3>3. \A g, y : /\ UpToDate(pass[j].ws, g, y) <=> UpToDate(pass[j].ws, g, y)'
                    /\ Edged(pass[j].ws, g, y) <=> Edged(pass[j].ws, g, y)'
                    /\ Pending(j, g, y) <=> Pending(j, g, y)'
      BY <2>1 DEF UpToDate, Edged, Pending
    <3> QED BY <2>1, <3>1, <3>2, <3>3 DEF PassInv
  <2>3. ASSUME NEW x \in Workspaces, NEW g \in Paths[x] PROVE FileInv(x, g)'
    <3>1. /\ FileInv(x, g) /\ (RefsHaveRows(g) <=> RefsHaveRows(g)')
          /\ \A y : /\ UpToDate(x, g, y) <=> UpToDate(x, g, y)'
                    /\ Edged(x, g, y) => Edged(x, g, y)'
      BY <2>1, SameArtifacts, KeptEdges DEF IndexInv
    <3>2. /\ InHand(g) <=> InHand(g)'
          /\ \A j \in Indexers : \A y : Pending(j, g, y) <=> Pending(j, g, y)'
      BY <2>1 DEF InHand, Pending
    <3>3. HashHolds(x, g)'
      BY <2>1, <3>1, <3>2 DEF FileInv, HashHolds
    <3> QED BY <2>1, <3>1, <3>2, <3>3 DEF FileInv
  <2> QED BY <1>0, <2>2, <2>3 DEF IndexInv
<1>2. ASSUME NEW w \in Workspaces, NEW v \in Versions \cup {None}, NEW f \in Paths[w],
             Edit(w, f, v)
      PROVE  IndexInv'
  BY <1>0, <1>2, KeepEdit
<1>3. ASSUME NEW i \in Indexers, NEW w \in Workspaces, NEW force \in BOOLEAN,
             Start(i, w, force)
      PROVE  IndexInv'
  BY <1>0, <1>3, KeepStart
<1>4. ASSUME NEW i \in Indexers, Step(i) PROVE IndexInv'
  BY <1>0, <1>4, KeepReadFile, KeepDeleteRefs, KeepDeleteRows, KeepDeleteSymbols,
     KeepDeleteFile, KeepPutFile, KeepDeleteSymbol, KeepPutSymbol, KeepPutRow,
     KeepPutRefs, KeepSetIndexed, KeepProject, KeepEnd DEF Step
<1>5. ASSUME NEW i \in Indexers, Abort(i) PROVE IndexInv'
  BY <1>0, <1>5, KeepEnd
<1> QED BY <1>1, <1>2, <1>3, <1>4, <1>5 DEF Next

\* What an index pass reports is so, in every database whose projects share no
\* path and whose files have module names of their own: each file that the pass
\* has indexed or skipped has the artifacts of the version it read and no more.
THEOREM ReportIsTrueTheorem == Separate => (Spec => []ReportIsTrue)
<1> SUFFICES ASSUME Separate PROVE Spec => []ReportIsTrue
  OBVIOUS
<1>1. Init => IndexInv
  BY IndexInit
<1>2. IndexInv /\ [Next]_vars => IndexInv'
  BY IndexNext
<1>3. IndexInv => ReportIsTrue
  BY DEF IndexInv, PassInv, ReportIsTrue, Reported
<1> QED BY <1>1, <1>2, <1>3, PTL DEF Spec

\* There, as long as nothing fails, the calls of every file that a finished pass
\* has indexed or skipped are edges between its symbols' memories.
THEOREM CallsAreEdgesTheorem == Separate => (Spec => []CallsAreEdges)
<1> SUFFICES ASSUME Separate PROVE Spec => []CallsAreEdges
  OBVIOUS
<1>1. Init => IndexInv
  BY IndexInit
<1>2. IndexInv /\ [Next]_vars => IndexInv'
  BY IndexNext
<1>3. IndexInv => CallsAreEdges
  BY DEF IndexInv, PassInv, Pending, Edged, CallsAreEdges, Reported
<1> QED BY <1>1, <1>2, <1>3, PTL DEF Spec

\* Where paths are told apart, a hash is written only when the artifacts of the
\* version it stands for are all there, however many passes were cut short before.
THEOREM HashComesLastTheorem == Separate => (Spec => HashComesLast)
<1> SUFFICES ASSUME Separate PROVE Spec => HashComesLast
  OBVIOUS
<1>1. Init => IndexInv
  BY IndexInit
<1>2. IndexInv /\ [Next]_vars => IndexInv'
  BY IndexNext
<1> DEFINE Last == \A w \in Workspaces : \A f \in Paths[w] :
                     hashes'[f] # hashes[f] => UpToDate(w, f, hashes'[f])
<1>3. IndexInv /\ [Next]_vars => [Last]_vars
  <2> SUFFICES ASSUME IndexInv, Next PROVE hashes' = hashes \/ Last
    OBVIOUS
  <2>1. ASSUME NEW i \in Indexers, SetIndexed(i) PROVE Last
    <3>1. /\ pass[i].pc = "set_indexed" /\ TypeInv /\ Stage(pass[i])
          /\ hashes' = [hashes EXCEPT ![pass[i].file] = pass[i].version]
      BY <2>1 DEF SetIndexed, IndexInv, PassInv
    <3>2. /\ pass[i].ws \in Workspaces /\ pass[i].file \in Paths[pass[i].ws]
          /\ pass[i].file \in Files
      BY <3>1, HandTyped DEF Working, Points
    <3>3. UpToDate(pass[i].ws, pass[i].file, pass[i].version)
      BY <3>1 DEF Stage
    <3> SUFFICES ASSUME NEW w \in Workspaces, NEW f \in Paths[w], hashes'[f] # hashes[f]
                 PROVE  UpToDate(w, f, hashes'[f])
      OBVIOUS
    <3>4. hashes \in [Files -> Versions \cup {None}] /\ f \in Files
      BY <3>1 DEF TypeInv, TypeOK, Files
    <3>5. f = pass[i].file /\ hashes'[f] = pass[i].version
      BY <3>1, <3>4
    <3>6. w = pass[i].ws
      BY <3>2, <3>5 DEF Separate
    <3> QED BY <3>3, <3>5, <3>6
  <2>2. ASSUME NEW i \in Indexers, Step(i), ~SetIndexed(i) PROVE hashes' = hashes
    BY <2>2 DEF Step, code, ReadFile, DeleteRefs, DeleteRows, DeleteSymbols, DeleteFile, PutFile,
                DeleteSymbol, PutSymbol, PutRow, PutRefs, Project, Finish
  <2>3. ASSUME NEW i \in Indexers, Abort(i) PROVE hashes' = hashes
    BY <2>3 DEF Abort, code
  <2>4. ASSUME NEW i \in Indexers, NEW w \in Workspaces, NEW force \in BOOLEAN,
               Start(i, w, force)
        PROVE  hashes' = hashes
    BY <2>4 DEF Start, code
  <2>5. ASSUME NEW w \in Workspaces, NEW v \in Versions \cup {None}, NEW f \in Paths[w],
               Edit(w, f, v)
        PROVE  hashes' = hashes
    BY <2>5 DEF Edit, code
  <2> HIDE DEF Last
  <2> QED BY <2>1, <2>2, <2>3, <2>4, <2>5 DEF Next
<1>4. IndexInv /\ [Next]_vars => [\A w \in Workspaces : \A f \in Paths[w] :
                     hashes'[f] # hashes[f] => UpToDate(w, f, hashes'[f])]_vars
  BY <1>3
<1> HIDE DEF Last
<1> QED BY <1>1, <1>2, <1>4, PTL DEF Spec, HashComesLast

-----------------------------------------------------------------------------
(* The indexers implement the abstract lock.                                *)

Busy == {j \in Indexers : pass[j].pc # "idle"}

\* The lock is held for a pass, and a pass runs under it.
PassHolds == lock \in Indexers \cup {None} /\ Busy = {lock} \ {None}

\* A step inside pass i.
LEMMA InsidePass ==
  ASSUME TypeInv, NEW i \in Indexers, Step(i), ~Finish(i)
  PROVE  lock' = lock /\ Busy' = Busy
<1>0. pass \in [Indexers -> Pass] /\ pass[i] \in Pass
  BY PassTyped
<1> DEFINE stays == /\ pass[i].pc # "idle" /\ pass'[i].pc # "idle"
                    /\ \A j \in Indexers : j # i => pass'[j] = pass[j]
<1>1. stays
  <2>1. CASE ReadFile(i)
    BY <1>0, <2>1 DEF ReadFile, Pass
  <2>2. CASE DeleteRefs(i) \/ DeleteRows(i) \/ DeleteSymbols(i) \/ DeleteFile(i) \/ PutFile(i)
    BY <1>0, <2>2 DEF DeleteRefs, DeleteRows, DeleteSymbols, DeleteFile, PutFile, Pass
  <2>3. CASE DeleteSymbol(i)
    <3>1. PICK n \in pass[i].rest :
            pass' = [pass EXCEPT ![i].pc = "put_symbol", ![i].name = n, ![i].rest = @ \ {n}]
      BY <2>3 DEF DeleteSymbol
    <3> QED BY <1>0, <2>3, <3>1 DEF DeleteSymbol, Pass
  <2>6. CASE PutSymbol(i) \/ PutRow(i)
    BY <1>0, <2>6 DEF PutSymbol, PutRow, Pass
  <2>4. CASE PutRefs(i) \/ SetIndexed(i)
    BY <1>0, <2>4 DEF PutRefs, SetIndexed, Pass
  <2>5. CASE Project(i)
    BY <1>0, <2>5 DEF Project, Pass
  <2> QED BY <2>1, <2>2, <2>3, <2>4, <2>5, <2>6 DEF Step
<1>2. lock' = lock
  BY DEF Step, ReadFile, DeleteRefs, DeleteRows, DeleteSymbols, DeleteFile, PutFile,
         DeleteSymbol, PutSymbol, PutRow, PutRefs, SetIndexed, Project
<1> QED BY <1>1, <1>2 DEF Busy

\* Passes take the free lock, give it back as they end, and move inside it.
LEMMA LeaderLockStep ==
  ASSUME TypeInv, PassHolds, [Next]_vars
  PROVE  PassHolds' /\ [LL!Next]_(LL!vars)
<1>1. ASSUME lock' = lock, Busy' = Busy PROVE PassHolds' /\ [LL!Next]_(LL!vars)
  BY <1>1 DEF PassHolds, Busy, LL!vars
<1>2. CASE UNCHANGED vars
  BY <1>1, <1>2 DEF vars, Busy
<1>3. ASSUME NEW w \in Workspaces, NEW v \in Versions \cup {None}, NEW f \in Paths[w],
             Edit(w, f, v)
      PROVE  PassHolds' /\ [LL!Next]_(LL!vars)
  BY <1>1, <1>3 DEF Edit, Busy
<1>4. ASSUME NEW i \in Indexers, NEW w \in Workspaces, NEW force \in BOOLEAN,
             Start(i, w, force)
      PROVE  PassHolds' /\ [LL!Next]_(LL!vars)
  <2>1. /\ lock = None /\ lock' = i /\ i # None /\ pass[i].pc = "idle"
        /\ pass'[i].pc = "next" /\ \A j \in Indexers : j # i => pass'[j] = pass[j]
    BY <1>4, PassTyped, CodeIndexAssumption DEF Start, Idle
  <2>2. Busy = {} /\ Busy' = {i}
    BY <2>1 DEF PassHolds, Busy
  <2>3. LL!Enter(i)
    BY <2>1, <2>2 DEF LL!Enter, Busy
  <2> QED BY <2>1, <2>2, <2>3 DEF PassHolds, LL!Next
<1>5. ASSUME NEW i \in Indexers, Step(i), ~Finish(i) PROVE PassHolds' /\ [LL!Next]_(LL!vars)
  BY <1>1, <1>5, InsidePass
<1>6. ASSUME NEW i \in Indexers, Finish(i) \/ Abort(i) PROVE PassHolds' /\ [LL!Next]_(LL!vars)
  <2>1. /\ i # None /\ i \in Busy /\ lock' = None /\ pass'[i].pc = "idle"
        /\ \A j \in Indexers : j # i => pass'[j] = pass[j]
    BY <1>6, PassTyped, CodeIndexAssumption DEF Finish, Abort, Idle, Busy
  <2>2. lock = i /\ Busy = {i} /\ Busy' = {}
    BY <2>1 DEF PassHolds, Busy
  <2>3. LL!Leave(i)
    BY <2>1, <2>2 DEF LL!Leave, Busy
  <2> QED BY <2>1, <2>2, <2>3 DEF PassHolds, LL!Next
<1> QED BY <1>2, <1>3, <1>4, <1>5, <1>6 DEF Next, Step

\* Whatever paths projects share, the passes over one database never overlap and
\* each gives back its own lock as it ends.
THEOREM ImplementsLeaderLockTheorem == Spec => ImplementsLeaderLock
<1>1. Init => TypeInv /\ PassHolds /\ LL!Init
  <2> SUFFICES ASSUME Init PROVE PassHolds /\ LL!Init
    BY TypeInit
  <2>1. Busy = {} /\ lock = None
    BY DEF Init, Busy, Idle
  <2> QED BY <2>1 DEF PassHolds, Busy, LL!Init
<1>2. TypeInv /\ PassHolds /\ [Next]_vars => TypeInv' /\ PassHolds' /\ [LL!Next]_(LL!vars)
  BY TypeNext, LeaderLockStep
<1> QED BY <1>1, <1>2, PTL DEF Spec, ImplementsLeaderLock, LL!Spec
=============================================================================
