---------------------------- MODULE ForwardIntents ----------------------------
(***************************************************************************)
(* L6 (operations/l6.go): a pass retires the intents that have expired,    *)
(* shows the LLM the episodes created after a watermark, oldest first and  *)
(* no more than a few, stores what it predicts, and moves the watermark to *)
(* the last episode shown.  An episode is created, embedded, and only then *)
(* stored (layers/episodic.go Record); the watermark is one key of `meta`  *)
(* for all workspaces.                                                     *)
(***************************************************************************)
EXTENDS Naturals, FiniteSets, FiniteSetsExt

CONSTANTS Episodes,    \* ids for episodes
          Intents,     \* ids for intents
          L6Spaces,    \* workspaces
          MaxShown,    \* system2.l6_max_episodes
          MaxTime      \* bound on the clock

ASSUME L6Assumption == IsFiniteSet(L6Spaces) /\ MaxTime \in Nat \ {0}

VARIABLES
  clock,      \* schema.Now
  space,      \* episode -> its workspace
  created,    \* episode -> CreatedAt, 0 before it is created
  recorded,   \* the episodes whose rows are stored
  intent,     \* id -> "none", "live" or "retired"
  until,      \* id -> valid_to
  watermark,  \* meta["l6_watermark"]
  l6At,       \* where the pass stands
  l6Space,    \* the workspace it is about
  l6Now,      \* the time it began
  shown,      \* the episodes it has shown to the LLM
  predicted,  \* history: the episodes a pass has predicted from and stored the result
  late        \* history: the episodes stored after one created later, or created at
              \* the same instant as another

l6Pass == <<l6At, l6Space, l6Now, shown>>
l6Vars == <<clock, space, created, recorded, intent, until, watermark, l6Pass, predicted, late>>

L6Init ==
  /\ clock = 1
  /\ space \in [Episodes -> L6Spaces] /\ created = [e \in Episodes |-> 0] /\ recorded = {}
  /\ intent = [i \in Intents |-> "none"] /\ until = [i \in Intents |-> 0]
  /\ watermark = 0
  /\ l6At = "idle" /\ l6Space \in L6Spaces /\ l6Now = 0 /\ shown = {}
  /\ predicted = {} /\ late = {}

-----------------------------------------------------------------------------
(* The world: time passes, episodes are created and then stored.           *)

Tick ==
  /\ clock < MaxTime
  /\ clock' = clock + 1
  /\ UNCHANGED <<space, created, recorded, intent, until, watermark, l6Pass, predicted, late>>

CreateEpisode(e) ==
  /\ created[e] = 0
  /\ created' = [created EXCEPT ![e] = clock]
  /\ UNCHANGED <<clock, space, recorded, intent, until, watermark, l6Pass, predicted, late>>

StoreEpisode(e) ==
  /\ created[e] # 0 /\ e \notin recorded
  /\ recorded' = recorded \cup {e}
  /\ late' = late \cup {f \in recorded \cup {e} :
                         \E g \in recorded : created[g] >= created[e] /\ created[f] = created[e]}
  /\ UNCHANGED <<clock, space, created, intent, until, watermark, l6Pass, predicted>>

-----------------------------------------------------------------------------
(* The pass.                                                               *)

L6Begin(w) ==
  /\ l6At = "idle"
  /\ l6At' = "sweep"
  /\ l6Space' = w /\ l6Now' = clock
  /\ UNCHANGED <<clock, space, created, recorded, intent, until, watermark, shown, predicted, late>>

Expired == {i \in Intents : intent[i] = "live" /\ until[i] < l6Now}

RetireIntent(i) ==
  /\ l6At = "sweep" /\ i \in Expired
  /\ intent' = [intent EXCEPT ![i] = "retired"]
  /\ UNCHANGED <<clock, space, created, recorded, until, watermark, l6Pass, predicted, late>>

\* The episodes after the watermark, those created first.
Window ==
  LET new == {e \in recorded : space[e] = l6Space /\ created[e] > watermark} IN
    {S \in SUBSET new :
       /\ Cardinality(S) = IF Cardinality(new) < MaxShown THEN Cardinality(new) ELSE MaxShown
       /\ \A e \in S, f \in new \ S : created[e] <= created[f]}

ShowEpisodes ==
  /\ l6At = "sweep" /\ Expired = {}
  /\ \E S \in Window :
       /\ shown' = S
       /\ l6At' = IF S = {} THEN "idle" ELSE "predict"
  /\ UNCHANGED <<clock, space, created, recorded, intent, until, watermark, l6Space, l6Now, predicted, late>>

\* One of the intents of the answer, valid for the horizon the LLM names.
PutIntent(i, horizon) ==
  /\ l6At = "predict" /\ intent[i] = "none"
  /\ intent' = [intent EXCEPT ![i] = "live"]
  /\ until' = [until EXCEPT ![i] = l6Now + horizon]
  /\ UNCHANGED <<clock, space, created, recorded, watermark, l6Pass, predicted, late>>

MutSetWatermark ==
  /\ l6At = "predict"
  /\ watermark' = Max({created[e] : e \in recorded})
  /\ predicted' = predicted \cup shown
  /\ l6At' = "idle" /\ shown' = {}
  /\ UNCHANGED <<clock, space, created, recorded, intent, until, l6Space, l6Now, late>>

SetWatermark ==
  /\ l6At = "predict"
  /\ watermark' = Max({created[e] : e \in shown})
  /\ predicted' = predicted \cup shown
  /\ l6At' = "idle" /\ shown' = {}
  /\ UNCHANGED <<clock, space, created, recorded, intent, until, l6Space, l6Now, late>>

\* The LLM, the embedder or the database fails, or the process is killed.
L6Abort ==
  /\ l6At # "idle"
  /\ l6At' = "idle" /\ shown' = {}
  /\ UNCHANGED <<clock, space, created, recorded, intent, until, watermark, l6Space, l6Now, predicted, late>>

L6Next ==
  \/ Tick
  \/ \E e \in Episodes : CreateEpisode(e) \/ StoreEpisode(e)
  \/ \E w \in L6Spaces : L6Begin(w)
  \/ \E i \in Intents : RetireIntent(i) \/ \E h \in {0, 1} : PutIntent(i, h)
  \/ ShowEpisodes \/ SetWatermark \/ L6Abort

L6Spec == L6Init /\ [][L6Next]_l6Vars

-----------------------------------------------------------------------------

L6TypeOK ==
  /\ intent \in [Intents -> {"none", "live", "retired"}]
  /\ watermark \in 0..MaxTime /\ shown \cup predicted \cup late \subseteq Episodes
  /\ l6At \in {"idle", "sweep", "predict"}

(* No episode is passed over: one that the watermark has left behind was    *)
(* shown to the LLM by a pass that stored its predictions, however many     *)
(* passes were capped, failed or killed.  It holds of one workspace, and of *)
(* an episode stored in the order of creation: one that is embedded slowly, *)
(* or created at the same instant as another, may be skipped for good.      *)
NoneSkipped ==
  Cardinality(L6Spaces) = 1 =>
    \A e \in recorded \ late : created[e] <= watermark => e \in predicted
=============================================================================
