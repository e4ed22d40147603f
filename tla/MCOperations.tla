---------------------------- MODULE MCOperations ----------------------------
(* Small instances of the modules of the engine's operations and of what    *)
(* calls them.  They share no state as they are modelled, so a behaviour is *)
(* one of one of them, `part`, and the others stay where they begin.        *)
EXTENDS MemoryRow, UserAccounts, Recall, Remember, MentalModels, ForwardIntents,
        Playbooks, ResourceRegistry, FrontEnds, TLC

CONSTANTS a1, a2, c1, c2, p1, p2, text1, text2, text3

VARIABLE part

\* Registry: three names in a row, each near the next, the first two near enough
\* to be merged.
MCHome == [c \in Clients |-> IF c = c1 THEN p1 ELSE p2]
Same   == {<<n, n>> : n \in Names}
Both(S) == S \cup {<<e[2], e[1]>> : e \in S}
MCMerge == Same \cup Both({<<text1, text2>>})
MCNear  == Same \cup Both({<<text1, text2>>, <<text2, text3>>})

\* Playbooks: the first two episodes are the same step; a playbook is its steps and
\* the number of its episodes, and playbooks are alike when they share a step.
MCSteps(C) == {IF e = 2 THEN 1 ELSE e : e \in C}
MCTells    == [C \in SUBSET Habits |-> <<MCSteps(C), Cardinality(C)>>]
MCStories  == {MCTells[C] : C \in SUBSET Habits}
MCAlike    == {p \in MCStories \X MCStories : p[1] = p[2] \/ p[1][1] \cap p[2][1] # {}}

\* Recall: memory 1 is a symbol, 3 its file's.
MCFileOf == {<<1, 3>>}

Parts == {"row", "users", "recall", "remember", "l5", "l6", "playbooks", "registry", "front"}

MCInit ==
  /\ part \in Parts
  /\ Init /\ UserInit /\ RememberInit /\ L5Init /\ L6Init /\ PbInit /\ RegistryInit /\ FrontInit
  /\ RecallInit
  /\ part # "row" => row.hash = None
  /\ IF part = "recall" THEN Cardinality(graph) <= 2 ELSE graph = {}
  /\ IF part = "playbooks" THEN Cardinality(near) <= 1 ELSE near = {}

MCNext ==
  /\ part' = part
  /\ \/ /\ part = "row" /\ Next
        /\ UNCHANGED <<userVars, recallVars, rememberVars, l5Vars, l6Vars, pbVars, registryVars,
                       frontVars>>
     \/ /\ part = "users" /\ UserNext
        /\ UNCHANGED <<vars, recallVars, rememberVars, l5Vars, l6Vars, pbVars, registryVars,
                       frontVars>>
     \/ /\ part = "recall" /\ RecallNext
        /\ UNCHANGED <<vars, userVars, rememberVars, l5Vars, l6Vars, pbVars, registryVars,
                       frontVars>>
     \/ /\ part = "remember" /\ RememberNext
        /\ UNCHANGED <<vars, userVars, recallVars, l5Vars, l6Vars, pbVars, registryVars,
                       frontVars>>
     \/ /\ part = "l5" /\ L5Next
        /\ UNCHANGED <<vars, userVars, recallVars, rememberVars, l6Vars, pbVars, registryVars,
                       frontVars>>
     \/ /\ part = "l6" /\ L6Next
        /\ UNCHANGED <<vars, userVars, recallVars, rememberVars, l5Vars, pbVars, registryVars,
                       frontVars>>
     \/ /\ part = "playbooks" /\ PbNext
        /\ UNCHANGED <<vars, userVars, recallVars, rememberVars, l5Vars, l6Vars, registryVars,
                       frontVars>>
     \/ /\ part = "registry" /\ RegistryNext
        /\ UNCHANGED <<vars, userVars, recallVars, rememberVars, l5Vars, l6Vars, pbVars,
                       frontVars>>
     \/ /\ part = "front" /\ FrontNext
        /\ UNCHANGED <<vars, userVars, recallVars, rememberVars, l5Vars, l6Vars, pbVars,
                       registryVars>>

allVars == <<part, vars, userVars, recallVars, rememberVars, l5Vars, l6Vars, pbVars,
             registryVars, frontVars>>
MCSpec == MCInit /\ [][MCNext]_allVars

\* Every component's state is of its type.
TypesOK ==
  /\ TypeOK /\ UserTypeOK /\ RecallTypeOK /\ RememberTypeOK /\ L5TypeOK /\ L6TypeOK
  /\ PbTypeOK /\ RegistryTypeOK /\ FrontTypeOK

\* Those who act are told apart by equality only.
Symmetry == Permutations(Editors)
=============================================================================
