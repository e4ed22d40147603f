------------------------------- MODULE Remember -------------------------------
(***************************************************************************)
(* Writing a memory through a scope of the engine (engine/scope.go): the   *)
(* scope is bound to a workspace and to that workspace's buffer of working *)
(* notes, the attention gate (operations/attention.go) decides whether the *)
(* content is worth keeping, and the memory goes to its layer.  Threads    *)
(* share the engine; SetWorkspace retargets it under them.                 *)
(***************************************************************************)
EXTENDS Naturals, Sequences, FiniteSets

CONSTANTS RThreads,    \* threads that call the engine
          RSpaces,     \* workspaces
          OwnSpace,        \* the workspace the engine is opened with
          Texts,       \* what clients say in words of their own
          Noise,       \* those of it made of noise words alone
          NoteRoom,    \* capacity of a buffer of working notes (64 in the code)
          MaxRemembers,\* bound: writes
          NoBuffer     \* no buffer

ASSUME RememberAssumption == OwnSpace \in RSpaces /\ NoteRoom \in Nat /\ NoBuffer \notin Nat

VARIABLES
  home,      \* e.Config.Workspace
  homes,     \* history: the workspaces it has named
  recent,    \* workspace -> contents, as stored, of the episodes inside the dedup window
  facts,     \* workspace -> contents of the facts and playbooks written
  buffers,   \* the buffers made: a sequence of sequences of notes
  base,      \* e.Working: the buffer of the engine's own workspace
  working,   \* e.working: workspace -> its buffer, or NoBuffer
  call,      \* thread -> [at, ws, buf, content, layer]
  verdict,   \* thread -> the gate's last decision, and whether the workspace had
             \* the content among its own recent events
  pushed,    \* history: workspace -> the notes pushed for it
  writes     \* writes so far

rememberVars == <<home, homes, recent, facts, buffers, base, working, call, verdict, pushed, writes>>

\* An episode is stored as a sentence made of what is said ("agent=... | action=...
\* | observation=..."), never as the words themselves.
Sentence(c) == <<"event", c>>
\* What clients remember: their own words, or the sentence of an event they were
\* shown.  What is stored of that.
Told   == Texts \cup {Sentence(c) : c \in Texts}
Stored == Told \cup {Sentence(c) : c \in Told}

NoCall == [at |-> "idle"]
RememberInit ==
  /\ home = OwnSpace /\ homes = {OwnSpace}
  /\ recent = [w \in RSpaces |-> {}] /\ facts = [w \in RSpaces |-> {}]
  /\ buffers = << <<>> >> /\ base = 1
  /\ working = [w \in RSpaces |-> NoBuffer]
  /\ call = [t \in RThreads |-> NoCall]
  /\ verdict = [t \in RThreads |-> [action |-> "none", own |-> FALSE]]
  /\ pushed = [w \in RSpaces |-> <<>>] /\ writes = 0

\* sync.Map.LoadOrStore: the buffer that is there already wins over the new one.
MutWorkingOf(ws, fresh) == fresh
WorkingOf(ws, fresh) == IF working[ws] = NoBuffer THEN fresh ELSE working[ws]

\* Scope(ws), taken for one call: the engine's own workspace has the base buffer.
Scope(t, ws) ==
  /\ call[t] = NoCall /\ writes < MaxRemembers
  /\ writes' = writes + 1
  /\ LET fresh == Len(buffers) + 1
         buf == IF ws = home THEN base ELSE WorkingOf(ws, fresh)
     IN /\ buffers' = IF buf = fresh THEN Append(buffers, <<>>) ELSE buffers
        /\ working' = IF ws = home THEN working ELSE [working EXCEPT ![ws] = buf]
        /\ call' = [call EXCEPT ![t] = [at |-> "gate", ws |-> ws, buf |-> buf]]
  /\ UNCHANGED <<home, homes, recent, facts, base, verdict, pushed>>

\* The workspace whose recent events the gate compares with: the engine's, not
\* the one of the scope.
GateSpace(t) == home

Decide(t, action, c) ==
  verdict' = [verdict EXCEPT ![t] = [action |-> action, own |-> c \in recent[call[t].ws]]]
Then(t, layer, c) ==
  call' = [call EXCEPT ![t] = [at |-> "write", ws |-> @.ws, buf |-> @.buf,
                               content |-> c, layer |-> layer]]

\* Working notes are never gated.
GateWorking(t, c) ==
  /\ call[t].at = "gate"
  /\ Decide(t, "pass", c) /\ Then(t, "working", c)
  /\ UNCHANGED <<home, homes, recent, facts, buffers, base, working, pushed, writes>>

\* Noise, or word for word what is stored of a recent event: dropped, nothing is
\* written.
GateDrop(t, c) ==
  /\ call[t].at = "gate"
  /\ c \in Noise \/ c \in recent[GateSpace(t)]
  /\ Decide(t, IF c \in Noise THEN "noise" ELSE "duplicate", c)
  /\ call' = [call EXCEPT ![t] = NoCall]
  /\ UNCHANGED <<home, homes, recent, facts, buffers, base, working, pushed, writes>>

\* Otherwise it passes, or the gate's agent drops it, rewrites it or fails.
GatePass(t, c, layer) ==
  /\ call[t].at = "gate" /\ c \notin Noise /\ c \notin recent[GateSpace(t)]
  /\ \/ Decide(t, "pass", c) /\ Then(t, layer, c)
     \/ \E d \in Told : Decide(t, "rewrite", c) /\ Then(t, layer, d)
     \/ Decide(t, "agent", c) /\ call' = [call EXCEPT ![t] = NoCall]
  /\ UNCHANGED <<home, homes, recent, facts, buffers, base, working, pushed, writes>>

\* RecordEvent: an event is written without asking the gate.
RecordEvent(t, c) ==
  /\ call[t].at = "gate" /\ Then(t, "episodic", c)
  /\ UNCHANGED <<home, homes, recent, facts, buffers, base, working, verdict, pushed, writes>>

\* WorkingMemory.Push under the buffer's mutex: the oldest note makes room.
LastNotes(notes) ==
  IF Len(notes) > NoteRoom THEN SubSeq(notes, Len(notes) - NoteRoom + 1, Len(notes)) ELSE notes
Push(t) ==
  LET w == call[t].ws b == call[t].buf
  IN /\ call[t].at = "write" /\ call[t].layer = "working"
     /\ buffers' = [buffers EXCEPT ![b] = LastNotes(Append(@, call[t].content))]
     /\ pushed' = [pushed EXCEPT ![w] = Append(@, call[t].content)]
     /\ call' = [call EXCEPT ![t] = NoCall]
     /\ UNCHANGED <<home, homes, recent, facts, base, working, verdict, writes>>

\* Episodic.Record, and PutFact, PutPlaybook or PutSnippet.
RecordEpisode(t) ==
  /\ call[t].at = "write" /\ call[t].layer = "episodic"
  /\ recent' = [recent EXCEPT ![call[t].ws] = @ \cup {Sentence(call[t].content)}]
  /\ call' = [call EXCEPT ![t] = NoCall]
  /\ UNCHANGED <<home, homes, facts, buffers, base, working, verdict, pushed, writes>>
PutFact(t) ==
  /\ call[t].at = "write" /\ call[t].layer = "semantic"
  /\ facts' = [facts EXCEPT ![call[t].ws] = @ \cup {call[t].content}]
  /\ call' = [call EXCEPT ![t] = NoCall]
  /\ UNCHANGED <<home, homes, recent, buffers, base, working, verdict, pushed, writes>>

\* A client edits the content of an episode (PUT /api/memories/{id}).
Reword(w, s, c) ==
  /\ s \in recent[w] /\ writes < MaxRemembers /\ writes' = writes + 1
  /\ recent' = [recent EXCEPT ![w] = (@ \ {s}) \cup {c}]
  /\ UNCHANGED <<home, homes, facts, buffers, base, working, call, verdict, pushed>>

\* An episode leaves the dedup window, or is forgotten.
Age(w, c) ==
  /\ c \in recent[w]
  /\ recent' = [recent EXCEPT ![w] = @ \ {c}]
  /\ UNCHANGED <<home, homes, facts, buffers, base, working, call, verdict, pushed, writes>>

\* Engine.SetWorkspace: a new base buffer; what the old one held is gone.
SetWorkspace(ws) ==
  /\ writes < MaxRemembers /\ writes' = writes + 1
  /\ home' = ws /\ homes' = homes \cup {ws}
  /\ buffers' = Append(buffers, <<>>) /\ base' = Len(buffers) + 1
  /\ UNCHANGED <<recent, facts, working, call, verdict, pushed>>

RememberSteps ==
  \E t \in RThreads :
    \/ \E ws \in RSpaces : Scope(t, ws)
    \/ \E c \in Told : \/ GateWorking(t, c) \/ GateDrop(t, c)
                       \/ \E layer \in {"episodic", "semantic"} : GatePass(t, c, layer)
    \/ \E c \in Texts : RecordEvent(t, c)
    \/ Push(t) \/ RecordEpisode(t) \/ PutFact(t)
RememberNext ==
  \/ RememberSteps
  \/ \E w \in RSpaces, s \in Stored : Age(w, s) \/ \E c \in Told : Reword(w, s, c)
  \/ \E ws \in RSpaces : SetWorkspace(ws)

RememberSpec == RememberInit /\ [][RememberNext]_rememberVars

RememberTypeOK ==
  /\ home \in RSpaces /\ base \in 1..Len(buffers)
  /\ \A w \in RSpaces : /\ recent[w] \subseteq Stored /\ facts[w] \subseteq Told
                        /\ working[w] \in 1..Len(buffers) \cup {NoBuffer}
  /\ \A b \in 1..Len(buffers) : Len(buffers[b]) <= NoteRoom

\* The buffer of a workspace holds the last notes pushed for it, whoever pushed
\* them and however their scopes were taken: threads that open the first scopes
\* of a workspace together share one buffer.  (A workspace the engine itself has
\* been bound to is excepted: retargeting the engine throws its notes away.)
NotesAreShared ==
  \A w \in RSpaces \ homes :
    pushed[w] # <<>> =>
      working[w] # NoBuffer /\ buffers[working[w]] = LastNotes(pushed[w])

\* README.md:501: LADYM_WORKSPACE gives "Multi-workspace isolation in a shared
\* DB".  What the gate drops as a recent duplicate would then be a recent event
\* of the workspace it was written to.  The code compares it with the events of
\* the engine's own workspace, whatever the scope: the sentence of an event of
\* that workspace (which scenarios/S09-attention-gate.md:16 remembers to show a
\* duplicate) is dropped in another workspace that has no such event.
DropsAreOfTheWorkspace ==
  \A t \in RThreads : verdict[t].action = "duplicate" => verdict[t].own
=============================================================================
