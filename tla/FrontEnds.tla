------------------------------ MODULE FrontEnds ------------------------------
(***************************************************************************)
(* The requests that reach an engine, and the workspace each works in.     *)
(* api/ serves requests side by side over one engine: an account that is   *)
(* not an administrator's is bound to its workspace, whatever the body     *)
(* says, and a request that names memories by id looks at each of them     *)
(* first.  mcp/ serves one call after the other over an engine of its own, *)
(* whose default workspace two of its tools set.  Both share the database. *)
(* What a request does to a memory is left to the modules of the           *)
(* operations: here it writes new rows, deletes one, or links two.         *)
(***************************************************************************)
EXTENDS Naturals, FiniteSets

CONSTANTS Requests,  \* HTTP requests that run at the same time
          MCP,       \* the MCP server
          Spaces, ConfiguredSpace,  \* workspaces, and the one of the configuration
          RowIds,    \* ids for memories
          NoSpace    \* the empty string; no row

ASSUME FrontAssumption ==
  /\ ConfiguredSpace \in Spaces /\ NoSpace \notin Spaces
  /\ MCP \notin Requests /\ MCP # "http"

VARIABLES
  rowSpace,  \* id -> the workspace of the row, NoSpace without one
  namable,   \* the ids that have been handed out
  links,     \* pairs of ids
  default,   \* server -> Config.Workspace of its engine
  request    \* server's request -> what it stands at

frontVars == <<rowSpace, namable, links, default, request>>

Servers == {"http", MCP}
Or(a, b) == IF a = NoSpace THEN b ELSE a
NoRequest == [at |-> "none"]
Anywhere == Spaces

FrontInit ==
  /\ rowSpace = [m \in RowIds |-> NoSpace] /\ namable = {} /\ links = {}
  /\ default = [s \in Servers |-> ConfiguredSpace]
  /\ request = [t \in Requests \cup {MCP} |-> NoRequest]

Step(t, r) == request' = [request EXCEPT ![t] = r]
End(t) == Step(t, NoRequest)
FrontRest(t) == UNCHANGED <<rowSpace, namable, links, default>>

-----------------------------------------------------------------------------
(* HTTP.                                                                   *)

\* The row of an account is read once, in the middle of whatever changes it.
AccountRows == [ws : Spaces \cup {NoSpace}, admin : BOOLEAN]

\* withAuth: the workspace that is forced on the request, if any; none without
\* authentication.
AuthenticateRequest(t, row) ==
  /\ request[t] = NoRequest
  /\ Step(t, [at |-> "route",
              forced |-> IF row.admin THEN NoSpace ELSE Or(row.ws, default["http"])])
  /\ FrontRest(t)
WithoutAuth(t) ==
  /\ request[t] = NoRequest
  /\ Step(t, [at |-> "route", forced |-> NoSpace])
  /\ FrontRest(t)

EffectiveWS(t, body) == Or(request[t].forced, body)

\* What the request may touch, by what its caller was told: not a state of the
\* code.
Asked(forced, body) == {Or(forced, Or(body, ConfiguredSpace))}

\* Scope settles the workspace once, for the whole request.  `left` counts the
\* rows the request may still write.
Admit(t, body, n) ==
  /\ request[t].at = "route"
  /\ Step(t, [at |-> "put", ws |-> Or(EffectiveWS(t, body), default["http"]),
              asked |-> Asked(request[t].forced, body), left |-> n])
  /\ FrontRest(t)

\* remember and record_event write one row, or none when the gate drops it; an
\* operation its resources and an episode; a pass over code or the backlog any.
HandleRemember(t, body) == Admit(t, body, 1)
HandleRecordOperation(t, body) == Admit(t, body, Cardinality(RowIds))
HandlePass(t, body) == Admit(t, body, Cardinality(RowIds))

\* Rows go in one by one; the request ends after any of them, or fails.
PutRow(t, m) ==
  /\ request[t].at = "put" /\ request[t].left > 0 /\ m \notin namable
  /\ rowSpace' = [rowSpace EXCEPT ![m] = request[t].ws]
  /\ namable' = namable \cup {m}
  /\ Step(t, [request[t] EXCEPT !.left = @ - 1])
  /\ UNCHANGED <<links, default>>
EndOfWrite(t) ==
  /\ request[t].at = "put" /\ End(t) /\ FrontRest(t)

\* link, forget, and PUT and DELETE of /api/memories/{id}: these two answer 404
\* first when the row is missing.
MutToCheck(ids) == {CHOOSE m \in ids : TRUE}
ToCheck(ids) == ids
HandleById(t, op, ids) ==
  /\ request[t].at = "route"
  /\ IF op = "byPath" /\ \E m \in ids : rowSpace[m] = NoSpace
       THEN End(t)
       ELSE Step(t, [at |-> "check", op |-> op, ids |-> ids, todo |-> ToCheck(ids),
                     forced |-> request[t].forced,
                     asked |-> IF request[t].forced = NoSpace THEN Anywhere
                               ELSE {request[t].forced}])
  /\ FrontRest(t)

\* enforceMemoryWorkspace, one id after the other: 403 for a row of another
\* workspace, and a missing one passes.
MayTouch(t, m) == request[t].forced = NoSpace \/ rowSpace[m] \in {NoSpace, request[t].forced}
EnforceMemoryWorkspace(t, m) ==
  /\ request[t].at = "check" /\ m \in request[t].todo
  /\ IF MayTouch(t, m) THEN Step(t, [request[t] EXCEPT !.todo = @ \ {m}]) ELSE End(t)
  /\ FrontRest(t)

\* A row takes its edges with it, and an edge needs both its rows.
Without(ids) == [m \in RowIds |-> IF m \in ids THEN NoSpace ELSE rowSpace[m]]
Unlinked(ids) == {e \in links : e \cap ids = {}}
LinksWith(ids) == IF \A m \in ids : rowSpace[m] # NoSpace THEN links \cup {ids} ELSE links

\* Store.UpdateMemoryContent leaves the row where it is: nothing to see here.
Forget(t) ==
  /\ request[t].at = "check" /\ request[t].todo = {} /\ request[t].op # "link"
  /\ rowSpace' = Without(request[t].ids) /\ links' = Unlinked(request[t].ids)
  /\ End(t)
  /\ UNCHANGED <<namable, default>>
HandleLink(t) ==
  /\ request[t].at = "check" /\ request[t].todo = {} /\ request[t].op = "link"
  /\ links' = LinksWith(request[t].ids)
  /\ End(t)
  /\ UNCHANGED <<rowSpace, namable, default>>

-----------------------------------------------------------------------------
(* MCP.                                                                    *)

\* remember and record_event retarget the engine; without a workspace they go
\* where the last one went.
ToolWrite(ws) ==
  /\ request[MCP] = NoRequest
  /\ default' = [default EXCEPT ![MCP] = Or(ws, @)]
  /\ Step(MCP, [at |-> "put", ws |-> default'[MCP],
                asked |-> IF ws = NoSpace THEN Anywhere ELSE {ws},
                left |-> Cardinality(RowIds)])
  /\ UNCHANGED <<rowSpace, namable, links>>

\* index_code and consolidate take a workspace for one call.
ToolPass(ws) ==
  /\ request[MCP] = NoRequest
  /\ Step(MCP, [at |-> "put", ws |-> Or(ws, default[MCP]),
                asked |-> IF ws = NoSpace THEN Anywhere ELSE {ws},
                left |-> Cardinality(RowIds)])
  /\ FrontRest(MCP)

\* link and forget check nothing: one statement.
ToolById(ids) ==
  /\ request[MCP] = NoRequest
  /\ IF Cardinality(ids) = 2
       THEN links' = LinksWith(ids) /\ UNCHANGED rowSpace
       ELSE rowSpace' = Without(ids) /\ links' = Unlinked(ids)
  /\ UNCHANGED <<namable, default, request>>

Named == {S \in SUBSET namable : Cardinality(S) \in {1, 2}}
OpOf(S) == IF Cardinality(S) = 2 THEN {"link"} ELSE {"forget", "byPath"}

FrontNext ==
  \/ \E t \in Requests :
       \/ \E row \in AccountRows : AuthenticateRequest(t, row)
       \/ WithoutAuth(t)
       \/ \E body \in Spaces \cup {NoSpace} : \/ HandleRemember(t, body)
                                            \/ HandleRecordOperation(t, body)
                                            \/ HandlePass(t, body)
       \/ \E S \in Named : \E op \in OpOf(S) : HandleById(t, op, S)
       \/ \E m \in RowIds : EnforceMemoryWorkspace(t, m)
       \/ Forget(t) \/ HandleLink(t)
  \/ \E t \in Requests \cup {MCP} :
       \/ EndOfWrite(t)
       \/ \E m \in RowIds : PutRow(t, m)
  \/ \E ws \in Spaces \cup {NoSpace} : \/ ToolWrite(ws)
                                       \/ ToolPass(ws)
  \/ \E S \in Named : ToolById(S)

FrontSpec == FrontInit /\ [][FrontNext]_frontVars

-----------------------------------------------------------------------------

FrontTypeOK ==
  /\ rowSpace \in [RowIds -> Spaces \cup {NoSpace}] /\ namable \subseteq RowIds
  /\ links \subseteq SUBSET namable /\ DOMAIN request = Requests \cup {MCP}
  /\ default \in [Servers -> Spaces]

\* The rows and edges a step changes are of the workspace that the request
\* which takes it was sent to, or that its account is bound to: whatever the
\* other requests name at the same time, whatever becomes of the rows between
\* the check of the ids and the act, and whoever changes the account meanwhile.
\* (A bound caller's edges stay inside its workspace as well.)
TouchedSpaces ==
  {rowSpace[m] : m \in {m \in RowIds : rowSpace'[m] # rowSpace[m]}}
    \cup {rowSpace'[m] : m \in {m \in RowIds : rowSpace'[m] # rowSpace[m]}}
    \cup {rowSpace[m] : m \in UNION (links' \ links)}
ActsWhereAsked ==
  [][\A t \in Requests \cup {MCP} :
       request[t].at \in {"put", "check"} /\ request'[t] # request[t]
         => TouchedSpaces \subseteq request[t].asked \cup {NoSpace}]_frontVars
=============================================================================
