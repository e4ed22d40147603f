----------------------------- MODULE LayersProofs -----------------------------
(***************************************************************************)
(* The layers above the episodes, for any number of them, of intents,      *)
(* models, resources, names and workspaces: L6 skips no episode, a merge   *)
(* of L5 models loses no member, every habit has its L3 playbook, and a    *)
(* name of the L2 registry leads to the operations recorded under it.      *)
(***************************************************************************)
EXTENDS ForwardIntents, MentalModels, Playbooks, ResourceRegistry, FiniteSetTheorems,
        WellFoundedInduction, TLAPS

(* Every set of naturals has a least member.                               *)
LEMMA LeastNat ==
  ASSUME NEW T, T \subseteq Nat, T # {}
  PROVE  \E x \in T : \A y \in T : x <= y
<1> DEFINE R == {p \in Nat \X Nat : p[1] < p[2]}
<1>1. R = OpToRel(<, Nat)
  BY DEF OpToRel
<1>2. IsWellFoundedOn(R, Nat)
  BY <1>1, NatLessThanWellFounded
<1>3. \A n, k \in Nat : n < k => <<n, k>> \in R
  OBVIOUS
<1> HIDE DEF R
<1>4. PICK x \in T : \A y \in T : ~ (<<y, x>> \in R)
  BY <1>2, WFMin
<1>5. \A y \in T : ~ (y < x)
  BY <1>3, <1>4
<1> QED
  BY <1>5

(* A set of naturals with a bound has a maximum.                           *)
LEMMA GreatestNat ==
  ASSUME NEW T, NEW b \in Nat, T \subseteq 0..b, T # {}
  PROVE  Max(T) \in T /\ \A y \in T : Max(T) >= y
<1> DEFINE U == {n \in Nat : \E t \in T : n = b - t}
<1>1. U \subseteq Nat /\ \A t \in T : b - t \in U
  OBVIOUS
<1>2. PICK u \in U : \A v \in U : u <= v
  BY <1>1, LeastNat
<1>3. PICK x \in T : u = b - x
  BY <1>2
<1>4. \A y \in T : x >= y
  <2> TAKE y \in T
  <2>1. b - x <= b - y
    BY <1>1, <1>2, <1>3
  <2> QED
    BY <2>1
<1> QED
  BY <1>4 DEF Max

-----------------------------------------------------------------------------
(* L6.                                                                     *)

L6Typed ==
  /\ clock \in 1..MaxTime /\ created \in [Episodes -> 0..MaxTime]
  /\ space \in [Episodes -> L6Spaces] /\ l6Space \in L6Spaces
  /\ watermark \in 0..MaxTime /\ l6At \in {"idle", "sweep", "predict"}
  /\ intent \in [Intents -> {"none", "live", "retired"}]
  /\ shown \cup predicted \cup late \subseteq Episodes
  /\ recorded \subseteq {e \in Episodes : created[e] # 0}

\* Two episodes of the same instant are both late: their order is not theirs.
TwinsAreLate ==
  \A e, f \in recorded : e # f /\ created[e] = created[f] => {e, f} \subseteq late

\* The watermark is the creation of an episode: what is stored behind it is late.
WatermarkIsCreation == watermark = 0 \/ \E e \in recorded : created[e] = watermark

L6Shown == l6At = "predict" => shown # {} /\ shown \subseteq recorded

\* What a pass has shown comes before everything it has not.
ShownFirst ==
  l6At = "predict" =>
    \A e \in recorded \ (late \cup shown) :
      created[e] > watermark => \A s \in shown : created[s] < created[e]

Skipless == \A e \in recorded \ late : created[e] <= watermark => e \in predicted

L6Inv ==
  /\ L6Typed /\ TwinsAreLate /\ WatermarkIsCreation /\ L6Shown
  /\ (\A v, w \in L6Spaces : v = w) => ShownFirst /\ Skipless

LEMMA L6Constants == IsFiniteSet(L6Spaces) /\ MaxTime \in Nat /\ MaxTime >= 1
BY L6Assumption

LEMMA InitL6 == L6Init => L6Inv
BY L6Constants
   DEF L6Init, L6Inv, L6Typed, TwinsAreLate, WatermarkIsCreation, L6Shown, ShownFirst, Skipless

(* A step that neither stores an episode nor shows or predicts any.        *)
LEMMA L6Kept ==
  ASSUME L6Inv, L6Typed', recorded' = recorded, late' = late, watermark' = watermark,
         predicted' = predicted, \A e \in recorded : created'[e] = created[e],
         \/ l6At' # "predict"
         \/ l6At' = l6At /\ shown' = shown
  PROVE  L6Inv'
<1>1. TwinsAreLate' /\ WatermarkIsCreation' /\ L6Shown'
  BY DEF L6Inv, L6Typed, TwinsAreLate, WatermarkIsCreation, L6Shown
<1>2. ASSUME \A v, w \in L6Spaces : v = w
      PROVE  ShownFirst' /\ Skipless'
  BY <1>2 DEF L6Inv, L6Typed, L6Shown, ShownFirst, Skipless
<1> QED
  BY <1>1, <1>2 DEF L6Inv

(* An episode is stored: behind another, it is late; else it is the last.  *)
LEMMA StoreEpisodeInv ==
  ASSUME L6Inv, NEW e \in Episodes, StoreEpisode(e)
  PROVE  L6Inv'
<1> USE L6Constants
<1>1. L6Typed'
  BY DEF L6Inv, L6Typed, StoreEpisode, l6Pass
<1>2. late \subseteq late'
  BY DEF StoreEpisode
<1>3. TwinsAreLate'
  BY <1>2 DEF L6Inv, L6Typed, TwinsAreLate, StoreEpisode, l6Pass
<1>4. WatermarkIsCreation' /\ L6Shown'
  BY DEF L6Inv, WatermarkIsCreation, L6Shown, StoreEpisode, l6Pass
<1>5. e \notin late' => \A g \in recorded : created[g] < created[e]
  BY DEF L6Inv, L6Typed, StoreEpisode, l6Pass
<1>6. ASSUME \A v, w \in L6Spaces : v = w
      PROVE  ShownFirst' /\ Skipless'
  <2>1. ShownFirst'
    BY <1>2, <1>5, <1>6 DEF L6Inv, L6Shown, ShownFirst, StoreEpisode, l6Pass
  <2>2. Skipless'
    <3>1. e \notin late' => created[e] > watermark
      BY <1>5 DEF L6Inv, L6Typed, WatermarkIsCreation, StoreEpisode
    <3> QED
      BY <1>2, <1>6, <3>1 DEF L6Inv, L6Typed, Skipless, StoreEpisode, l6Pass
  <2> QED
    BY <2>1, <2>2
<1> QED
  BY <1>1, <1>3, <1>4, <1>6 DEF L6Inv

(* The episodes shown are the first after the watermark.                   *)
LEMMA ShowEpisodesInv ==
  ASSUME L6Inv, ShowEpisodes
  PROVE  L6Inv'
<1> USE L6Constants
<1>1. PICK S \in Window : shown' = S /\ l6At' = IF S = {} THEN "idle" ELSE "predict"
  BY DEF ShowEpisodes
<1> DEFINE new == {e \in recorded : space[e] = l6Space /\ created[e] > watermark}
<1>2. S \subseteq new /\ \A s \in S, f \in new \ S : created[s] <= created[f]
  BY DEF Window
<1>3. L6Typed'
  BY <1>1, <1>2 DEF L6Inv, L6Typed, ShowEpisodes
<1>4. TwinsAreLate' /\ WatermarkIsCreation' /\ L6Shown'
  BY <1>1, <1>2 DEF L6Inv, TwinsAreLate, WatermarkIsCreation, L6Shown, ShowEpisodes
<1>5. ASSUME \A v, w \in L6Spaces : v = w
      PROVE  ShownFirst' /\ Skipless'
  <2>1. Skipless'
    BY <1>5 DEF L6Inv, Skipless, ShowEpisodes
  <2>2. ASSUME NEW e \in recorded \ (late \cup S), created[e] > watermark, NEW s \in S
        PROVE  created[s] < created[e]
    <3>1. e \in new
      BY <1>5, <2>2 DEF L6Inv, L6Typed
    <3>2. created[s] # created[e]
      BY <1>2, <2>2 DEF L6Inv, TwinsAreLate
    <3>3. created[s] \in Nat /\ created[e] \in Nat
      BY <1>2, <2>2 DEF L6Inv, L6Typed
    <3> QED
      BY <1>2, <3>1, <3>2, <3>3
  <2>3. ShownFirst'
    BY <1>1, <2>2 DEF ShownFirst, ShowEpisodes
  <2> QED
    BY <2>1, <2>3
<1> QED
  BY <1>3, <1>4, <1>5 DEF L6Inv

(* The watermark moves to the last of them, and leaves none behind.        *)
LEMMA SetWatermarkInv ==
  ASSUME L6Inv, SetWatermark
  PROVE  L6Inv'
<1> USE L6Constants
<1> DEFINE times == {created[e] : e \in shown}
<1>1. shown \subseteq recorded /\ shown # {}
  BY DEF L6Inv, L6Shown, SetWatermark
<1>2. times \subseteq 0..MaxTime /\ times # {}
  BY <1>1 DEF L6Inv, L6Typed
<1> HIDE DEF times
<1>3. Max(times) \in times /\ \A y \in times : Max(times) >= y
  BY <1>2, GreatestNat
<1> USE DEF times
<1>4. PICK last \in shown : watermark' = created[last]
  BY <1>3 DEF SetWatermark
<1>5. L6Typed'
  BY <1>1, <1>4 DEF L6Inv, L6Typed, SetWatermark
<1> HIDE DEF times
<1>6. TwinsAreLate' /\ WatermarkIsCreation' /\ L6Shown'
  <2>1. UNCHANGED <<recorded, created, late>> /\ l6At' = "idle"
    BY DEF SetWatermark
  <2> QED
    BY <1>1, <1>4, <2>1 DEF L6Inv, TwinsAreLate, WatermarkIsCreation, L6Shown
<1>7. ASSUME \A v, w \in L6Spaces : v = w
      PROVE  ShownFirst' /\ Skipless'
  <2>1. ShownFirst'
    BY DEF ShownFirst, SetWatermark
  <2>2. ASSUME NEW e \in recorded \ late, created[e] <= watermark'
        PROVE  e \in predicted \cup shown
    <3>1. CASE created[e] <= watermark
      BY <1>7, <3>1 DEF L6Inv, Skipless
    <3>2. CASE created[e] > watermark
      BY <1>1, <1>4, <1>7, <2>2, <3>2 DEF L6Inv, L6Typed, ShownFirst, SetWatermark
    <3> QED
      BY <3>1, <3>2 DEF L6Inv, L6Typed
  <2>3. Skipless'
    BY <2>2 DEF Skipless, SetWatermark
  <2> QED
    BY <2>1, <2>3
<1> QED
  BY <1>5, <1>6, <1>7 DEF L6Inv

LEMMA NextL6 == L6Inv /\ [L6Next]_l6Vars => L6Inv'
<1> SUFFICES ASSUME L6Inv, [L6Next]_l6Vars
             PROVE  L6Inv'
  OBVIOUS
<1> USE L6Constants
<1>1. CASE Tick
  <2>1. L6Typed'
    BY <1>1 DEF L6Inv, L6Typed, Tick, l6Pass
  <2> QED
    BY <1>1, <2>1, L6Kept DEF Tick, l6Pass
<1>2. CASE \E e \in Episodes : CreateEpisode(e)
  <2> PICK e \in Episodes : CreateEpisode(e)
    BY <1>2
  <2>1. L6Typed'
    BY DEF L6Inv, L6Typed, CreateEpisode, l6Pass
  <2>2. \A f \in recorded : created'[f] = created[f]
    BY DEF L6Inv, L6Typed, CreateEpisode
  <2> QED
    BY <2>1, <2>2, L6Kept DEF CreateEpisode, l6Pass
<1>3. CASE \E e \in Episodes : StoreEpisode(e)
  BY <1>3, StoreEpisodeInv
<1>4. CASE \E w \in L6Spaces : L6Begin(w)
  <2>1. L6Typed'
    BY <1>4 DEF L6Inv, L6Typed, L6Begin
  <2> QED
    BY <1>4, <2>1, L6Kept DEF L6Begin
<1>5. CASE \E i \in Intents : RetireIntent(i) \/ \E h \in {0, 1} : PutIntent(i, h)
  <2>1. L6Typed'
    BY <1>5 DEF L6Inv, L6Typed, RetireIntent, PutIntent, l6Pass
  <2> QED
    BY <1>5, <2>1, L6Kept DEF RetireIntent, PutIntent, l6Pass
<1>6. CASE ShowEpisodes
  BY <1>6, ShowEpisodesInv
<1>7. CASE SetWatermark
  BY <1>7, SetWatermarkInv
<1>8. CASE L6Abort
  <2>1. L6Typed'
    BY <1>8 DEF L6Inv, L6Typed, L6Abort
  <2> QED
    BY <1>8, <2>1, L6Kept DEF L6Abort
<1>9. CASE UNCHANGED l6Vars
  <2>1. L6Typed'
    BY <1>9 DEF L6Inv, L6Typed, l6Vars, l6Pass
  <2> QED
    BY <1>9, <2>1, L6Kept DEF l6Vars, l6Pass
<1> QED
  BY <1>1, <1>2, <1>3, <1>4, <1>5, <1>6, <1>7, <1>8, <1>9 DEF L6Next

LEMMA NoneSkippedFollows == L6Inv => NoneSkipped
<1> SUFFICES ASSUME L6Inv, Cardinality(L6Spaces) = 1
             PROVE  Skipless
  BY DEF NoneSkipped, Skipless
<1>1. PICK w : L6Spaces = {w}
  BY L6Constants, FS_Singleton
<1> QED
  BY <1>1 DEF L6Inv

(* No episode is passed over by the prediction passes of a database with   *)
(* one workspace, for any episodes, cap, failures and kills.               *)
THEOREM NoneSkippedTheorem == L6Spec => []NoneSkipped
<1>1. L6Spec => []L6Inv
  BY InitL6, NextL6, PTL DEF L6Spec
<1> QED
  BY <1>1, NoneSkippedFollows, PTL

(* Intents, clock and watermark are of their types.                        *)
THEOREM L6TypeCorrect == L6Spec => []L6TypeOK
<1>1. L6Inv => L6TypeOK
  BY DEF L6Inv, L6Typed, L6TypeOK
<1> QED
  BY <1>1, InitL6, NextL6, PTL DEF L6Spec
-----------------------------------------------------------------------------
(* L5.                                                                     *)

L5Points == {"idle", "extract", "link", "merge", "retire", "cut", "mark", "relink"}
InMerge == l5At \in {"merge", "retire", "cut", "mark", "relink"}

L5Typed == L5TypeOK /\ l5At \in L5Points

\* A model that is retired or forgotten has lost its edges.
LiveCovers == \A c \in covers : model[c[1]] = "live"

GroupsApart == \A G, H \in groups : G = H \/ G \cap H = {}

\* No model covers what is still to be extracted.
Extracting ==
  l5At \in {"extract", "link"} =>
    \A G \in groups : G \subseteq Members /\ \A c \in covers : c[2] \notin G

Linking ==
  l5At = "link" =>
    /\ \A c \in covers : c[2] \notin linking
    /\ \A G \in groups : G \cap linking = {}

\* The models to be merged have been there before the merged one.
Merging == InMerge => \A G \in groups : G \subseteq Models /\ \A m \in G : model[m] # "new"

ModelIsMade ==
  l5At \in {"link", "retire", "cut", "mark", "relink"} => made \in Models /\ model[made] \in {"live", "gone"}

\* What will be linked to the merged model is what the models that are still to
\* be retired cover.
Merged ==
  l5At \in {"retire", "cut", "mark", "relink"} =>
    /\ made \notin closing
    /\ \A c \in covers : c[1] \in closing <=> c[2] \in linking
    /\ l5At = "relink" => closing = {}

Cutting ==
  l5At \in {"cut", "mark"} =>
    /\ old \in closing /\ cutting \subseteq linking
    /\ \A c \in covers : c[1] = old => c[2] \in cutting
    /\ l5At = "mark" => cutting = {}

\* Nobody is lost: who is not covered waits for the merged model.
KeptInv ==
  kept \subseteq Covered \cup (IF l5At \in {"retire", "cut", "mark", "relink"} THEN linking ELSE {})

L5Inv ==
  /\ L5Typed /\ LiveCovers /\ OneModelPerMember /\ GroupsApart /\ Extracting /\ Linking
  /\ Merging /\ ModelIsMade /\ Merged /\ Cutting /\ KeptInv

(* The four that concern who is covered, and the seven that concern where  *)
(* the pass stands.                                                        *)
CoverInv == L5Typed /\ LiveCovers /\ OneModelPerMember /\ KeptInv
PassInv  == GroupsApart /\ Extracting /\ Linking /\ Merging /\ ModelIsMade /\ Merged /\ Cutting

LEMMA InitL5 == L5Init => L5Inv
BY DEF L5Init, L5Inv, L5Typed, L5TypeOK, States, L5Points, LiveCovers, OneModelPerMember, GroupsApart,
       Extracting, Linking, InMerge, Merging, ModelIsMade, Merged, Cutting, KeptInv

(* The pass gives up.                                                      *)
LEMMA FailsInv ==
  ASSUME L5Inv, L5Fails, UNCHANGED <<member, model, covers>>
  PROVE  L5Inv'
<1>1. L5Typed' /\ LiveCovers' /\ OneModelPerMember'
  BY DEF L5Inv, L5Typed, L5TypeOK, L5Points, LiveCovers, OneModelPerMember, L5Fails, L5Rest
<1>2. KeptInv' /\ PassInv'
  BY DEF L5Fails, L5Rest, KeptInv, PassInv, GroupsApart, Extracting, Linking, InMerge, Merging,
         ModelIsMade, Merged, Cutting
<1> QED
  BY <1>1, <1>2 DEF L5Inv, CoverInv, PassInv

LEMMA ReadUncoveredInv ==
  ASSUME L5Inv, ReadUncovered
  PROVE  L5Inv'
<1>1. CoverInv'
  BY DEF L5Inv, CoverInv, L5Typed, L5TypeOK, L5Points, LiveCovers, OneModelPerMember, KeptInv,
         ReadUncovered, Covered
<1>2. groups' \in SUBSET (SUBSET Uncovered) /\ GroupsApart'
  BY DEF ReadUncovered, Clusterings, GroupsApart
<1>3. Uncovered \subseteq Members /\ \A c \in covers : c[2] \notin Uncovered
  <2>1. \A c \in covers : c[1] \in Models /\ c[2] \in Members /\ c = <<c[1], c[2]>>
    BY DEF L5Inv, L5Typed, L5TypeOK
  <2> QED
    BY <2>1 DEF L5Inv, LiveCovers, Uncovered, Covered
<1>4. Extracting'
  <2>1. UNCHANGED covers
    BY DEF ReadUncovered
  <2>2. \A G \in groups' : G \subseteq Uncovered
    BY <1>2
  <2> QED
    BY <1>3, <2>1, <2>2 DEF Extracting
<1>5. Linking' /\ Merging' /\ ModelIsMade' /\ Merged' /\ Cutting'
  BY DEF ReadUncovered, Linking, InMerge, Merging, ModelIsMade, Merged, Cutting
<1> QED
  BY <1>1, <1>2, <1>4, <1>5 DEF L5Inv, CoverInv, PassInv

LEMMA SummariseFailsInv ==
  ASSUME L5Inv, NEW G \in groups, SummariseFails(G)
  PROVE  L5Inv'
<1>1. CoverInv'
  BY DEF L5Inv, CoverInv, L5Typed, L5TypeOK, L5Points, LiveCovers, OneModelPerMember, KeptInv,
         SummariseFails, Covered
<1>2. PassInv'
  BY DEF L5Inv, PassInv, GroupsApart, Extracting, Linking, InMerge, Merging, ModelIsMade, Merged,
         Cutting, SummariseFails
<1> QED
  BY <1>1, <1>2 DEF L5Inv, CoverInv, PassInv

LEMMA ExtractClusterInv ==
  ASSUME L5Inv, NEW G \in groups, NEW m \in Models, ExtractCluster(G, m)
  PROVE  L5Inv'
<1>1. G \subseteq Members /\ \A c \in covers : c[2] \notin G
  BY DEF L5Inv, Extracting, ExtractCluster
<1>2. model' = [model EXCEPT ![m] = "live"] /\ made' = m /\ linking' = G /\ groups' = groups \ {G}
      /\ l5At' = "link" /\ UNCHANGED <<member, covers, cycles, closing, old, cutting, kept>>
  BY DEF ExtractCluster, StoreModel
<1>3. L5Typed' /\ LiveCovers' /\ OneModelPerMember'
  BY <1>1, <1>2 DEF L5Inv, L5Typed, L5TypeOK, States, L5Points, LiveCovers, OneModelPerMember
<1>4. KeptInv'
  BY <1>2 DEF L5Inv, KeptInv, Covered, L5Typed, L5TypeOK, ExtractCluster
<1>5. GroupsApart' /\ Extracting' /\ Linking'
  BY <1>1, <1>2 DEF L5Inv, GroupsApart, Extracting, Linking, ExtractCluster
<1>6. Merging' /\ ModelIsMade' /\ Merged' /\ Cutting'
  BY <1>2 DEF L5Inv, L5Typed, L5TypeOK, InMerge, Merging, ModelIsMade, Merged, Cutting
<1> QED
  BY <1>3, <1>4, <1>5, <1>6 DEF L5Inv, CoverInv, PassInv

LEMMA PutAbstractsInv ==
  ASSUME L5Inv, NEW f \in Members, PutAbstracts(f)
  PROVE  L5Inv'
<1>1. CASE model[made] = "gone" \/ member[f] = "gone"
  BY <1>1, FailsInv DEF PutAbstracts
<1>2. CASE ~ (model[made] = "gone" \/ member[f] = "gone")
  <2>1. /\ l5At \in {"link", "relink"} /\ f \in linking
        /\ covers' = covers \cup {<<made, f>>} /\ linking' = linking \ {f}
        /\ UNCHANGED <<l5At, groups, made, closing, old, cutting, kept, member, model, cycles>>
    BY <1>2 DEF PutAbstracts
  <2>2. made \in Models /\ model[made] = "live"
    BY <1>2, <2>1 DEF L5Inv, ModelIsMade
  <2>3. \A c \in covers : c[2] # f
    BY <2>1 DEF L5Inv, Linking, Merged
  <2>4. L5Typed' /\ LiveCovers'
    BY <2>1, <2>2 DEF L5Inv, L5Typed, L5TypeOK, L5Points, LiveCovers
  <2>5. OneModelPerMember'
    BY <2>1, <2>3 DEF L5Inv, OneModelPerMember
  <2>6. Covered' = Covered \cup {f}
    BY <2>1, <2>2 DEF Covered
  <2>7. KeptInv'
    BY <2>1, <2>6 DEF L5Inv, KeptInv
  <2>8. GroupsApart' /\ Extracting' /\ Linking'
    BY <2>1 DEF L5Inv, GroupsApart, Extracting, Linking
  <2>9. Merging' /\ ModelIsMade' /\ Cutting'
    BY <2>1 DEF L5Inv, InMerge, Merging, ModelIsMade, Cutting
  <2>10. Merged'
    BY <2>1, <2>3 DEF L5Inv, Merged
  <2> QED
    BY <2>4, <2>5, <2>7, <2>8, <2>9, <2>10 DEF L5Inv, CoverInv, PassInv
<1> QED
  BY <1>1, <1>2

LEMMA LinkAbstractsInv ==
  ASSUME L5Inv, LinkAbstracts
  PROVE  L5Inv'
<1>1. CoverInv'
  BY DEF L5Inv, CoverInv, L5Typed, L5TypeOK, L5Points, LiveCovers, OneModelPerMember, KeptInv,
         LinkAbstracts, Covered
<1>2. PassInv'
  BY DEF L5Inv, PassInv, GroupsApart, Extracting, Linking, InMerge, Merging, ModelIsMade, Merged,
         Cutting, LinkAbstracts
<1> QED
  BY <1>1, <1>2 DEF L5Inv, CoverInv, PassInv

LEMMA CountCycleInv ==
  ASSUME L5Inv, CountCycle
  PROVE  L5Inv'
<1> DEFINE live == {m \in Models : model[m] = "live"}
<1>1. \/ l5At' = "merge" /\ groups' \in Clusterings(live, 2)
      \/ l5At' = "idle" /\ groups' = {}
  BY Zenon DEF CountCycle
<1>2. l5At = "extract" /\ UNCHANGED <<member, model, covers, made, closing, old, cutting, linking, kept>>
  BY DEF CountCycle
<1>3. CoverInv'
  BY <1>1, <1>2 DEF L5Inv, CoverInv, L5Typed, L5TypeOK, L5Points, LiveCovers, OneModelPerMember,
                    KeptInv, Covered
<1>4. GroupsApart' /\ (l5At' = "merge" => groups' \subseteq SUBSET live)
  BY <1>1 DEF GroupsApart, Clusterings
<1>5. Merging'
  BY <1>1, <1>2, <1>4 DEF Merging, InMerge
<1>6. Extracting' /\ Linking' /\ ModelIsMade' /\ Merged' /\ Cutting'
  BY <1>1 DEF Extracting, Linking, ModelIsMade, Merged, Cutting
<1> QED
  BY <1>3, <1>4, <1>5, <1>6 DEF L5Inv, CoverInv, PassInv

LEMMA MergeGroupInv ==
  ASSUME L5Inv, NEW G \in groups, NEW m \in Models, MergeGroup(G, m)
  PROVE  L5Inv'
<1>1. CASE MembersOf(G) = {}
  <2>1. /\ l5At = "merge" /\ groups' = groups \ {G}
        /\ UNCHANGED <<member, model, covers, l5At, made, closing, linking, old, cutting, kept>>
    BY <1>1 DEF MergeGroup
  <2>2. CoverInv'
    BY <2>1 DEF L5Inv, CoverInv, L5Typed, L5TypeOK, L5Points, LiveCovers, OneModelPerMember,
                KeptInv, Covered
  <2>3. PassInv'
    BY <2>1 DEF L5Inv, PassInv, GroupsApart, Extracting, Linking, InMerge, Merging, ModelIsMade,
                Merged, Cutting
  <2> QED
    BY <2>2, <2>3 DEF L5Inv, CoverInv, PassInv
<1>2. CASE MembersOf(G) # {}
  <2>1. /\ l5At = "merge" /\ groups' = groups \ {G} /\ model[m] = "new"
        /\ model' = [model EXCEPT ![m] = "live"] /\ made' = m
        /\ l5At' = "retire" /\ closing' = G /\ linking' = MembersOf(G)
        /\ UNCHANGED <<member, covers, old, cutting, kept>>
    BY <1>2 DEF MergeGroup, StoreModel
  <2>2. G \subseteq Models /\ m \notin G
    BY <2>1 DEF L5Inv, Merging, InMerge
  <2>3. L5Typed' /\ LiveCovers' /\ OneModelPerMember'
    BY <2>1, <2>2 DEF L5Inv, L5Typed, L5TypeOK, States, L5Points, LiveCovers, OneModelPerMember,
                      MembersOf
  <2>4. KeptInv'
    BY <2>1 DEF L5Inv, KeptInv, Covered, L5Typed, L5TypeOK
  <2>5. GroupsApart' /\ Extracting' /\ Linking' /\ Cutting'
    BY <2>1 DEF L5Inv, GroupsApart, Extracting, Linking, Cutting
  <2>6. Merging' /\ ModelIsMade'
    BY <2>1 DEF L5Inv, L5Typed, L5TypeOK, Merging, InMerge, ModelIsMade
  <2>7. \A c \in covers : c \in Models \X Members /\ c = <<c[1], c[2]>>
    BY DEF L5Inv, L5Typed, L5TypeOK
  <2>8. \A c \in covers : c[1] \in G <=> c[2] \in MembersOf(G)
    BY <2>7, <2>2 DEF L5Inv, OneModelPerMember, MembersOf
  <2>9. Merged'
    BY <2>1, <2>2, <2>8 DEF Merged
  <2> QED
    BY <2>3, <2>4, <2>5, <2>6, <2>9 DEF L5Inv, CoverInv, PassInv
<1> QED
  BY <1>1, <1>2

LEMMA RetireModelInv ==
  ASSUME L5Inv, NEW m \in closing, RetireModel(m)
  PROVE  L5Inv'
<1>1. /\ l5At = "retire" /\ l5At' = "cut" /\ old' = m
      /\ cutting' = {f \in Members : <<m, f>> \in covers}
      /\ UNCHANGED <<member, model, covers, groups, made, closing, linking, kept>>
  BY DEF RetireModel
<1>2. \A c \in covers : c \in Models \X Members /\ c = <<c[1], c[2]>>
  BY DEF L5Inv, L5Typed, L5TypeOK
<1>3. CoverInv'
  BY <1>1 DEF L5Inv, CoverInv, L5Typed, L5TypeOK, L5Points, LiveCovers, OneModelPerMember,
              KeptInv, Covered
<1>4. GroupsApart' /\ Extracting' /\ Linking' /\ Merging' /\ ModelIsMade' /\ Merged'
  BY <1>1 DEF L5Inv, GroupsApart, Extracting, Linking, InMerge, Merging, ModelIsMade, Merged
<1>5. Cutting'
  BY <1>1, <1>2 DEF L5Inv, Cutting, Merged
<1> QED
  BY <1>3, <1>4, <1>5 DEF L5Inv, CoverInv, PassInv

LEMMA CloseMemberEdgeInv ==
  ASSUME L5Inv, NEW f \in Members, CloseMemberEdge(f)
  PROVE  L5Inv'
<1>1. CASE model[old] = "gone" \/ member[f] = "gone"
  BY <1>1, FailsInv DEF CloseMemberEdge
<1>2. CASE ~ (model[old] = "gone" \/ member[f] = "gone")
  <2>1. /\ l5At = "cut" /\ f \in cutting
        /\ covers' = covers \ {<<old, f>>} /\ cutting' = cutting \ {f}
        /\ UNCHANGED <<l5At, groups, made, closing, old, linking, kept, member, model, cycles>>
    BY <1>2 DEF CloseMemberEdge
  <2>2. f \in linking
    BY <2>1 DEF L5Inv, Cutting
  <2>3. L5Typed' /\ LiveCovers' /\ OneModelPerMember'
    BY <2>1 DEF L5Inv, L5Typed, L5TypeOK, L5Points, LiveCovers, OneModelPerMember
  <2>4. Covered \subseteq Covered' \cup {f}
    BY <2>1 DEF Covered
  <2>5. KeptInv'
    BY <2>1, <2>2, <2>4 DEF L5Inv, KeptInv
  <2>6. GroupsApart' /\ Extracting' /\ Linking' /\ Merging' /\ ModelIsMade' /\ Merged'
    BY <2>1 DEF L5Inv, GroupsApart, Extracting, Linking, InMerge, Merging, ModelIsMade, Merged
  <2>7. \A c \in covers : c = <<c[1], c[2]>>
    BY DEF L5Inv, L5Typed, L5TypeOK
  <2>8. Cutting'
    BY <2>1, <2>7 DEF L5Inv, Cutting
  <2> QED
    BY <2>3, <2>5, <2>6, <2>8 DEF L5Inv, CoverInv, PassInv
<1> QED
  BY <1>1, <1>2

LEMMA NameMergedInv ==
  ASSUME L5Inv, NameMerged
  PROVE  L5Inv'
<1>1. CASE model[old] = "gone" \/ model[made] = "gone"
  BY <1>1, FailsInv DEF NameMerged
<1>2. CASE ~ (model[old] = "gone" \/ model[made] = "gone")
  <2>1. /\ l5At = "cut" /\ l5At' = "mark" /\ cutting = {}
        /\ UNCHANGED <<groups, made, closing, old, cutting, linking, kept, member, model, covers, cycles>>
    BY <1>2 DEF NameMerged
  <2>2. CoverInv'
    BY <2>1 DEF L5Inv, CoverInv, L5Typed, L5TypeOK, L5Points, LiveCovers, OneModelPerMember,
                KeptInv, Covered
  <2>3. PassInv'
    BY <2>1 DEF L5Inv, PassInv, GroupsApart, Extracting, Linking, InMerge, Merging, ModelIsMade,
                Merged, Cutting
  <2> QED
    BY <2>2, <2>3 DEF L5Inv, CoverInv, PassInv
<1> QED
  BY <1>1, <1>2

LEMMA MarkRetiredInv ==
  ASSUME L5Inv, MarkRetired
  PROVE  L5Inv'
<1>1. /\ l5At = "mark"
      /\ model' = [model EXCEPT ![old] = "retired"] /\ closing' = closing \ {old}
      /\ l5At' = IF closing = {old} THEN "relink" ELSE "retire"
      /\ old' = NoModel
      /\ UNCHANGED <<groups, made, cutting, linking, kept, member, covers, cycles>>
  BY DEF MarkRetired
<1>2. old \in closing /\ (\A c \in covers : c[1] # old) /\ cutting = {}
  BY <1>1 DEF L5Inv, Cutting
<1>3. L5Typed' /\ LiveCovers' /\ OneModelPerMember'
  BY <1>1, <1>2 DEF L5Inv, L5Typed, L5TypeOK, States, L5Points, LiveCovers, OneModelPerMember
<1>4. \A m \in Models, f \in Members : <<m, f>> \in covers => m # old
  BY <1>2
<1>5. Covered' = Covered
  BY <1>1, <1>4 DEF Covered, L5Inv, L5Typed, L5TypeOK
<1>6. KeptInv'
  BY <1>1, <1>5 DEF L5Inv, KeptInv
<1>7. GroupsApart' /\ Extracting' /\ Linking' /\ Cutting'
  BY <1>1 DEF L5Inv, GroupsApart, Extracting, Linking, Cutting
<1>8. Merging'
  BY <1>1 DEF L5Inv, L5Typed, L5TypeOK, Merging, InMerge
<1>9. ModelIsMade' /\ Merged'
  BY <1>1, <1>2 DEF L5Inv, L5Typed, L5TypeOK, ModelIsMade, Merged
<1> QED
  BY <1>3, <1>6, <1>7, <1>8, <1>9 DEF L5Inv, CoverInv, PassInv

(* Steps of others.                                                        *)
LEMMA LearnInv ==
  ASSUME L5Inv, member' \in [Members -> States], UNCHANGED <<model, covers, l5Pass, kept>>
  PROVE  L5Inv'
<1>1. CoverInv'
  BY DEF L5Inv, CoverInv, L5Typed, L5TypeOK, L5Points, LiveCovers, OneModelPerMember, KeptInv,
         Covered, l5Pass
<1>2. PassInv'
  BY DEF L5Inv, PassInv, GroupsApart, Extracting, Linking, InMerge, Merging, ModelIsMade, Merged,
         Cutting, l5Pass
<1> QED
  BY <1>1, <1>2 DEF L5Inv, CoverInv, PassInv

(* A memory loses its edges: it is no longer among those kept.             *)
LEMMA LoseMemberInv ==
  ASSUME L5Inv, NEW f \in Members, member' \in [Members -> States],
         kept' = kept \ {f}, covers' = {c \in covers : c[2] # f},
         UNCHANGED <<model, l5Pass>>
  PROVE  L5Inv'
<1>1. L5Typed' /\ LiveCovers' /\ OneModelPerMember'
  BY DEF L5Inv, L5Typed, L5TypeOK, L5Points, LiveCovers, OneModelPerMember, l5Pass
<1>2. Covered \subseteq Covered' \cup {f}
  BY DEF Covered
<1>3. KeptInv'
  BY <1>2 DEF L5Inv, KeptInv, l5Pass
<1>4. PassInv'
  BY DEF L5Inv, PassInv, GroupsApart, Extracting, Linking, InMerge, Merging, ModelIsMade, Merged,
         Cutting, l5Pass
<1> QED
  BY <1>1, <1>3, <1>4 DEF L5Inv, CoverInv, PassInv

LEMMA ForgetModelInv ==
  ASSUME L5Inv, NEW m \in Models, ForgetModel(m)
  PROVE  L5Inv'
<1>1. /\ model' = [model EXCEPT ![m] = "gone"] /\ covers' = {c \in covers : c[1] # m}
      /\ kept' = kept \ {f \in Members : <<m, f>> \in covers}
      /\ UNCHANGED <<member, l5At, groups, made, closing, old, cutting, linking>>
  BY DEF ForgetModel, Changed, l5Pass
<1>2. L5Typed' /\ LiveCovers' /\ OneModelPerMember'
  BY <1>1 DEF L5Inv, L5Typed, L5TypeOK, States, L5Points, LiveCovers, OneModelPerMember
<1>3. Covered \subseteq Covered' \cup {f \in Members : <<m, f>> \in covers}
  BY <1>1 DEF Covered, L5Inv, L5Typed, L5TypeOK
<1>4. KeptInv'
  BY <1>1, <1>3 DEF L5Inv, KeptInv
<1>5. GroupsApart' /\ Extracting' /\ Linking' /\ Merged' /\ Cutting'
  BY <1>1 DEF L5Inv, GroupsApart, Extracting, Linking, Merged, Cutting
<1>6. Merging' /\ ModelIsMade'
  BY <1>1 DEF L5Inv, L5Typed, L5TypeOK, Merging, InMerge, ModelIsMade
<1> QED
  BY <1>2, <1>4, <1>5, <1>6 DEF L5Inv, CoverInv, PassInv

LEMMA NextL5 == L5Inv /\ [L5Next]_l5Vars => L5Inv'
<1> SUFFICES ASSUME L5Inv, [L5Next]_l5Vars
             PROVE  L5Inv'
  OBVIOUS
<1>1. CASE L5Step /\ ~L5Done
  BY <1>1, ReadUncoveredInv, CountCycleInv, LinkAbstractsInv, NameMergedInv, MarkRetiredInv,
     SummariseFailsInv, ExtractClusterInv, MergeGroupInv, RetireModelInv, PutAbstractsInv, CloseMemberEdgeInv
     DEF L5Step
<1>2. CASE L5Done
  <2>1. CoverInv'
    BY <1>2 DEF L5Done, L5Inv, CoverInv, L5Typed, L5TypeOK, L5Points, LiveCovers,
                OneModelPerMember, KeptInv, Covered
  <2>2. PassInv'
    BY <1>2 DEF L5Done, L5Inv, PassInv, GroupsApart, Extracting, Linking, InMerge, Merging,
                ModelIsMade, Merged, Cutting
  <2> QED
    BY <2>1, <2>2 DEF L5Inv, CoverInv, PassInv
<1>3. CASE L5Abort
  BY <1>3, FailsInv DEF L5Abort
<1>4. CASE \E f \in Members : Learn(f)
  <2>1. member' \in [Members -> States]
    BY <1>4 DEF L5Inv, L5Typed, L5TypeOK, Learn, States
  <2> QED
    BY <1>4, <2>1, LearnInv DEF Learn
<1>5. CASE \E f \in Members : Supersede(f) \/ ForgetMember(f)
  <2>1. PICK f \in Members : Supersede(f) \/ ForgetMember(f)
    BY <1>5
  <2>2. member' \in [Members -> States]
    BY <2>1 DEF L5Inv, L5Typed, L5TypeOK, Supersede, ForgetMember, States
  <2> QED
    BY <2>1, <2>2, LoseMemberInv DEF Supersede, ForgetMember, Changed
<1>6. CASE \E m \in Models : ForgetModel(m)
  BY <1>6, ForgetModelInv
<1>7. CASE UNCHANGED l5Vars
  BY <1>7, LearnInv DEF l5Vars, L5Inv, L5Typed, L5TypeOK
<1> QED
  BY <1>1, <1>2, <1>3, <1>4, <1>5, <1>6, <1>7 DEF L5Next

LEMMA L5Invariance == L5Spec => []L5Inv
BY InitL5, NextL5, PTL DEF L5Spec

(* Models, members and the edges between them are of their types.          *)
THEOREM L5TypeCorrect == L5Spec => []L5TypeOK
<1>1. L5Inv => L5TypeOK
  BY DEF L5Inv, L5Typed
<1> QED
  BY <1>1, L5Invariance, PTL

(* At most one model covers a memory, at every moment of every pass, for   *)
(* any memories and models, any clusters, failures, kills and changes.     *)
THEOREM OneModelPerMemberTheorem == L5Spec => []OneModelPerMember
<1>1. L5Inv => OneModelPerMember
  BY DEF L5Inv
<1> QED
  BY <1>1, L5Invariance, PTL

(* A pass that runs to its end has lost no memory that was covered when it *)
(* began and that nobody touched.                                          *)
THEOREM MergeLosesNobodyTheorem == L5Spec => []MergeLosesNobody
<1>1. L5Inv => MergeLosesNobody
  BY DEF L5Inv, KeptInv, MergeLosesNobody
<1> QED
  BY <1>1, L5Invariance, PTL

-----------------------------------------------------------------------------
(* L3.                                                                     *)

LEMMA HabitsFinite ==
  ASSUME NEW S \in SUBSET Habits
  PROVE  IsFiniteSet(S) /\ Cardinality(S) \in Nat /\ S \subseteq Nat
<1>1. S \subseteq Nat
  BY PlaybooksAssumption, FS_CardinalityType
<1> QED BY <1>1, PlaybooksAssumption, FS_Subset, FS_CardinalityType

\* The first of the unassigned takes itself, at least, and none but unassigned ones.
LEMMA TakenOf ==
  ASSUME NEW T \in SUBSET Habits, T # {}
  PROVE  /\ Taken(T) \subseteq T /\ Taken(T) # {}
         /\ T \ Taken(T) \in SUBSET T
         /\ Cardinality(T \ Taken(T)) < Cardinality(T)
<1>1. T \subseteq Nat /\ IsFiniteSet(T) /\ Cardinality(T) \in Nat
  BY HabitsFinite
<1>2. Min(T) \in T
  BY <1>1, LeastNat DEF Min
<1>3. Taken(T) \subseteq T /\ Min(T) \in Taken(T)
  BY <1>2 DEF Taken
<1>4. T \ Taken(T) # T /\ T \ Taken(T) \subseteq T
  BY <1>2, <1>3
<1>5. Cardinality(T \ Taken(T)) < Cardinality(T)
  BY <1>1, <1>4, FS_Subset, FS_CardinalityType
<1> QED BY <1>3, <1>4, <1>5

\* The clusters of the sets of up to n episodes of S.
Upto(S, n) == {T \in SUBSET S : Cardinality(T) <= n}
ClustersOn(f, S, n) ==
  f = [T \in Upto(S, n) |-> IF T = {} THEN {} ELSE {Taken(T)} \cup f[T \ Taken(T)]]

LEMMA ClustersExist ==
  ASSUME NEW S \in SUBSET Habits, NEW n \in Nat
  PROVE  \E f : ClustersOn(f, S, n)
<1> DEFINE Bad == {k \in Nat : ~ \E f : ClustersOn(f, S, k)}
<1> SUFFICES ASSUME Bad # {} PROVE FALSE
  OBVIOUS
<1>1. PICK k \in Bad : \A j \in Bad : k <= j
  BY LeastNat
<1>2. \A T \in SUBSET S : T \in SUBSET Habits /\ IsFiniteSet(T) /\ Cardinality(T) \in Nat
  BY HabitsFinite
<1>3. CASE k = 0
  <2>1. \A T \in Upto(S, 0) : T = {}
    BY <1>2, FS_EmptySet DEF Upto
  <2> DEFINE f == [T \in Upto(S, 0) |-> {}]
  <2>2. f = [T \in Upto(S, 0) |-> IF T = {} THEN {} ELSE {Taken(T)} \cup f[T \ Taken(T)]]
    BY <2>1
  <2> QED BY <2>2, <1>1, <1>3 DEF ClustersOn
<1>4. CASE k # 0
  <2>1. k - 1 \in Nat /\ k - 1 \notin Bad /\ k \in Nat
    BY <1>1, <1>4
  <2>2. PICK g : ClustersOn(g, S, k - 1)
    BY <2>1
  <2> DEFINE f == [T \in Upto(S, k) |-> IF T = {} THEN {} ELSE {Taken(T)} \cup g[T \ Taken(T)]]
  <2>3. ASSUME NEW T \in Upto(S, k), T # {}
        PROVE  /\ T \ Taken(T) \in Upto(S, k - 1) /\ T \ Taken(T) \in Upto(S, k)
    <3>1. T \in SUBSET Habits /\ Cardinality(T) \in Nat /\ Cardinality(T) <= k
      BY <1>2 DEF Upto
    <3>2. T \ Taken(T) \in SUBSET S /\ Cardinality(T \ Taken(T)) < Cardinality(T)
      BY <3>1, <2>3, TakenOf DEF Upto
    <3>3. Cardinality(T \ Taken(T)) \in Nat
      BY <1>2, <3>2
    <3> QED BY <2>1, <3>1, <3>2, <3>3 DEF Upto
  <2>4. \A T \in Upto(S, k - 1) : T \in Upto(S, k)
    BY <2>1, <1>2 DEF Upto
  <2>5. \A T \in Upto(S, k - 1) : f[T] = g[T]
    <3> TAKE T \in Upto(S, k - 1)
    <3>1. g[T] = IF T = {} THEN {} ELSE {Taken(T)} \cup g[T \ Taken(T)]
      BY <2>2 DEF ClustersOn
    <3> QED BY <3>1, <2>4
  <2>6. f = [T \in Upto(S, k) |-> IF T = {} THEN {} ELSE {Taken(T)} \cup f[T \ Taken(T)]]
    <3>1. \A T \in Upto(S, k) : T # {} => f[T \ Taken(T)] = g[T \ Taken(T)]
      BY <2>3, <2>5
    <3> QED BY <3>1
  <2> HIDE DEF f
  <2>7. ClustersOn(f, S, k)
    BY <2>6 DEF ClustersOn
  <2> QED BY <2>7, <1>1
<1> QED BY <1>3, <1>4

\* So the recursive definition has a value, and satisfies its equation.
ClustersFrom(f, S) ==
  f = [T \in SUBSET S |-> IF T = {} THEN {} ELSE {Taken(T)} \cup f[T \ Taken(T)]]

LEMMA LeadersAre ==
  ASSUME NEW S \in SUBSET Habits
  PROVE  \E f : ClustersFrom(f, S) /\ Leaders(S) = f[S]
<1>1. Upto(S, Cardinality(S)) = SUBSET S
  <2>1. IsFiniteSet(S)
    BY HabitsFinite
  <2>2. \A T \in SUBSET S : Cardinality(T) <= Cardinality(S)
    BY <2>1, FS_Subset
  <2> QED BY <2>2 DEF Upto
<1>2. \E f : ClustersFrom(f, S)
  <2>1. PICK n : n = Cardinality(S)
    OBVIOUS
  <2>2. PICK f : ClustersOn(f, S, n)
    BY <2>1, HabitsFinite, ClustersExist
  <2>3. Upto(S, n) = SUBSET S
    BY <1>1, <2>1
  <2> QED BY <2>2, <2>3 DEF ClustersOn, ClustersFrom
<1>3. PICK f : f = CHOOSE g : ClustersFrom(g, S)
  OBVIOUS
<1>4. Leaders(S) = f[S]
  BY <1>3 DEF Leaders, ClustersFrom
<1> QED BY <1>2, <1>3, <1>4

\* The clusters of S are of its episodes, and none of them is in two.
LEMMA LeadersApart ==
  ASSUME NEW S \in SUBSET Habits
  PROVE  \A C, D \in Leaders(S) : C \subseteq S /\ C # {} /\ (C # D => C \cap D = {})
<1>1. PICK f : ClustersFrom(f, S) /\ Leaders(S) = f[S]
  BY LeadersAre
<1> DEFINE Apart(T) == \A C, D \in f[T] : C \subseteq T /\ C # {} /\ (C # D => C \cap D = {})
           Bad == {k \in Nat : \E T \in SUBSET S : Cardinality(T) = k /\ ~Apart(T)}
<1>2. \A T \in SUBSET S : T \in SUBSET Habits /\ Cardinality(T) \in Nat
  BY HabitsFinite
<1>3. SUFFICES ASSUME Bad # {} PROVE FALSE
  <2>1. Apart(S)
    BY <1>2, <1>3
  <2> QED BY <2>1, <1>1
<1>4. PICK k \in Bad : \A j \in Bad : k <= j
  BY <1>3, LeastNat
<1>5. PICK T \in SUBSET S : Cardinality(T) = k /\ ~Apart(T)
  BY <1>4
<1>6. f[T] = IF T = {} THEN {} ELSE {Taken(T)} \cup f[T \ Taken(T)]
  BY <1>1 DEF ClustersFrom
<1>7. T # {}
  BY <1>5, <1>6
<1>8. PICK U : U = T \ Taken(T)
  OBVIOUS
<1>9. /\ U \in SUBSET S /\ Cardinality(U) < k /\ Cardinality(U) \in Nat /\ Taken(T) \subseteq T
      /\ Taken(T) # {}
  BY <1>2, <1>5, <1>7, <1>8, TakenOf
<1>10. Apart(U)
  BY <1>4, <1>9
<1>11. f[T] = {Taken(T)} \cup f[U]
  BY <1>6, <1>7, <1>8
<1>12. Apart(T)
  <2> SUFFICES ASSUME NEW C \in f[T], NEW D \in f[T]
               PROVE  C \subseteq T /\ C # {} /\ (C # D => C \cap D = {})
    OBVIOUS
  <2>1. \A E \in f[U] : E \subseteq T /\ E # {} /\ E \cap Taken(T) = {} /\ Taken(T) \cap E = {}
    BY <1>8, <1>9, <1>10
  <2>2. CASE C \in f[U] /\ D \in f[U]
    BY <2>2, <1>8, <1>10
  <2>3. CASE C = Taken(T) \/ D = Taken(T)
    <3>1. C \in {Taken(T)} \cup f[U] /\ D \in {Taken(T)} \cup f[U]
      BY <1>11
    <3>2. CASE C = Taken(T)
      BY <2>1, <3>1, <3>2, <1>9
    <3>3. CASE C \in f[U] /\ D = Taken(T)
      BY <2>1, <3>3
    <3> QED BY <2>3, <3>1, <3>2, <3>3
  <2> QED BY <2>2, <2>3, <1>11
<1> QED BY <1>5, <1>12

LEMMA LargeApart ==
  ASSUME NEW S \in SUBSET Habits
  PROVE  \A C, D \in LargeEnough(S) : C \in SUBSET Habits /\ C # {} /\ (C # D => C \cap D = {})
BY LeadersApart DEF LargeEnough

PbTyped ==
  /\ PbTypeOK
  /\ pbAt \in {"idle", "clusters", "retire"}
  /\ \A i \in retired \cup {stale} : i \in PlaybookIds => book[i] # NoStory

\* A live playbook of one of S is there, and is not about to be retired.
InHand(S) == \E i \in PlaybookIds \ (retired \cup {stale}) : \E C \in S : book[i] = Tells[C]

\* The pass has a playbook for each group of its clusters that is like none of the
\* others, once it has treated one of the group: what it replaces is like the cluster
\* it treats.
Treated ==
  pbAt # "idle" =>
    /\ clusters \subseteq LargeEnough(read) /\ settled = {}
    /\ \A S \in SUBSET LargeEnough(read) :
         Isolated(S, LargeEnough(read)) /\ S \ clusters # {} => InHand(S)

PbInv == PbTyped /\ Treated /\ HabitsHavePlaybooks

LEMMA TreatClusterInv ==
  ASSUME PbInv, NEW C \in clusters, TreatCluster(C)
  PROVE  PbInv'
<1>1. /\ pbAt = "clusters" /\ clusters' = clusters \ {C}
      /\ UNCHANGED <<near, done, retired, read, settled>>
      /\ read \in SUBSET Habits /\ book \in [PlaybookIds -> Stories \cup {NoStory}]
      /\ retired \subseteq PlaybookIds /\ done \cup read \subseteq Habits
      /\ \A i \in retired : book[i] # NoStory
      /\ stale = NoPlaybook /\ settled = {} /\ NoPlaybook \notin PlaybookIds
  BY PlaybooksAssumption DEF TreatCluster, PbInv, PbTyped, PbTypeOK, Treated
<1>2. PICK large : large = LargeEnough(read)
  OBVIOUS
<1>3. large = LargeEnough(read)'
  BY <1>1, <1>2 DEF LargeEnough, Leaders, Taken
<1>4. /\ clusters \subseteq large /\ C \in large
      /\ \A D \in large : Tells[D] \in Stories /\ NoStory \notin Stories
      /\ \A S \in SUBSET large : Isolated(S, large) /\ S \ clusters # {} => InHand(S)
  <2>1. clusters \subseteq large /\ \A D \in large : D \in SUBSET Habits
    BY <1>1, <1>2, LargeApart DEF PbInv, Treated
  <2> QED BY <2>1, <1>1, <1>2, PlaybooksAssumption DEF PbInv, Treated
<1>5. PICK found \in FoundFor(C) :
       \/ /\ \E i \in found : book[i] = Tells[C]
          /\ UNCHANGED <<book, pbAt, stale>>
       \/ /\ found = {}
          /\ \E i \in PlaybookIds : PutPlaybook(i, C)
          /\ UNCHANGED <<pbAt, stale>>
       \/ /\ found # {} /\ \A i \in found : book[i] # Tells[C]
          /\ \E i \in PlaybookIds : PutPlaybook(i, C)
          /\ stale' \in found
          /\ pbAt' = "retire"
  BY DEF TreatCluster
<1>6. \A i \in found : /\ i \in PlaybookIds \ retired /\ book[i] # NoStory
                       /\ <<book[i], Tells[C]>> \in StoriesAlike
  BY <1>5 DEF FoundFor
<1>7. \/ pbAt' = "clusters" /\ stale' = NoPlaybook
      \/ pbAt' = "retire" /\ stale' \in found /\ book[stale'] # Tells[C]
  BY <1>1, <1>5
\* Books are written once.
<1>8. /\ book' \in [PlaybookIds -> Stories \cup {NoStory}]
      /\ \A i \in PlaybookIds : book[i] # NoStory => book'[i] = book[i]
      /\ \E i \in PlaybookIds \ (retired \cup {stale'}) : book'[i] = Tells[C]
  <2>1. CASE (\E i \in found : book[i] = Tells[C]) /\ UNCHANGED <<book, pbAt, stale>>
    BY <2>1, <1>1, <1>6
  <2>2. CASE \E i \in PlaybookIds : PutPlaybook(i, C)
    <3>1. PICK i \in PlaybookIds : book[i] = NoStory /\ book' = [book EXCEPT ![i] = Tells[C]]
      BY <2>2 DEF PutPlaybook
    <3>2. i \notin retired /\ i # stale'
      BY <3>1, <1>1, <1>6, <1>7
    <3> QED BY <3>1, <3>2, <1>1, <1>4
  <2> QED BY <1>5, <2>1, <2>2
<1>9. \A S \in SUBSET large : Isolated(S, large) /\ S \ clusters' # {} => InHand(S)'
  <2> SUFFICES ASSUME NEW S \in SUBSET large, Isolated(S, large), S \ clusters' # {}
               PROVE  InHand(S)'
    OBVIOUS
  <2>1. CASE C \in S
    <3>1. PICK i \in PlaybookIds \ (retired \cup {stale'}) : book'[i] = Tells[C]
      BY <1>8
    <3> QED BY <3>1, <2>1, <1>1 DEF InHand
  <2>2. CASE C \notin S
    <3>1. PICK i \in PlaybookIds \ (retired \cup {stale}) : \E D \in S : book[i] = Tells[D]
      BY <2>2, <1>1, <1>4 DEF InHand
    <3>2. PICK D \in S : book[i] = Tells[D]
      BY <3>1
    <3>3. <<book[i], Tells[C]>> \notin StoriesAlike /\ book[i] # NoStory
      BY <2>2, <3>2, <1>4 DEF Isolated
    <3>4. i # stale' /\ book'[i] = Tells[D]
      BY <3>1, <3>2, <3>3, <1>1, <1>6, <1>7, <1>8
    <3> QED BY <3>1, <3>4, <1>1 DEF InHand
  <2> QED BY <2>1, <2>2
<1>10. PbTyped'
  <2>1. stale' \in PlaybookIds \cup {NoPlaybook} /\ (pbAt' = "retire" <=> stale' # NoPlaybook)
    BY <1>1, <1>6, <1>7
  <2>2. \A i \in retired' \cup {stale'} : i \in PlaybookIds => book'[i] # NoStory
    BY <1>1, <1>6, <1>7, <1>8
  <2> QED BY <1>1, <1>7, <1>8, <2>1, <2>2 DEF PbTyped, PbTypeOK
<1>11. Treated' /\ HabitsHavePlaybooks'
  <2>1. \A S : Isolated(S, large)' <=> Isolated(S, large)
    BY DEF Isolated
  <2>2. Treated'
    BY <1>1, <1>3, <1>4, <1>9 DEF Treated, Isolated
  <2> QED BY <1>1, <2>2 DEF HabitsHavePlaybooks
<1> QED BY <1>10, <1>11 DEF PbInv

LEMMA RetireStaleInv ==
  ASSUME PbInv, RetireStale
  PROVE  PbInv'
<1>1. /\ pbAt = "retire" /\ retired' = retired \cup {stale} /\ stale' = NoPlaybook
      /\ pbAt' = "clusters" /\ UNCHANGED <<near, done, book, clusters, read, settled>>
      /\ settled = {} /\ stale \in PlaybookIds /\ NoPlaybook \notin PlaybookIds
  BY PlaybooksAssumption DEF RetireStale, PbInv, PbTyped, PbTypeOK, Treated
<1>2. LargeEnough(read)' = LargeEnough(read)
  BY <1>1 DEF LargeEnough, Leaders, Taken
<1>3. \A S : InHand(S) => InHand(S)'
  BY <1>1 DEF InHand
<1>4. PbTyped'
  BY <1>1 DEF PbInv, PbTyped, PbTypeOK
<1>5. Treated'
  <2>1. PICK large : large = LargeEnough(read)
    OBVIOUS
  <2> QED BY <2>1, <1>1, <1>2, <1>3 DEF PbInv, Treated, Isolated
<1> QED BY <1>1, <1>4, <1>5 DEF PbInv, HabitsHavePlaybooks

LEMMA EpisodesInv ==
  ASSUME PbInv, NEW e \in Habits, EpisodeEnds(e) \/ EpisodeForgotten(e)
  PROVE  PbInv'
<1>1. /\ UNCHANGED <<near, book, retired, pbAt, clusters, stale, read>> /\ settled' = {}
      /\ done' \subseteq done \cup {e}
  BY DEF EpisodeEnds, EpisodeForgotten, pbPass
<1>2. LargeEnough(read)' = LargeEnough(read)
  BY <1>1 DEF LargeEnough, Leaders, Taken
<1>3. \A S : InHand(S)' <=> InHand(S)
  BY <1>1 DEF InHand
<1>4. PbTyped'
  BY <1>1 DEF PbInv, PbTyped, PbTypeOK
<1>5. Treated'
  <2>1. PICK large : large = LargeEnough(read)
    OBVIOUS
  <2> QED BY <2>1, <1>1, <1>2, <1>3 DEF PbInv, Treated, Isolated
<1>6. HabitsHavePlaybooks'
  BY <1>1 DEF HabitsHavePlaybooks
<1> QED BY <1>4, <1>5, <1>6 DEF PbInv

LEMMA PlaybookPassInv ==
  ASSUME PbInv, Proceduralize \/ EndOfPass \/ PbAbort
  PROVE  PbInv'
<1>1. /\ UNCHANGED <<near, done, book, retired>> /\ stale' = NoPlaybook
      /\ done \cup read \subseteq Habits /\ pbAt' \in {"idle", "clusters"}
  <2>1. done \cup read \subseteq Habits /\ (pbAt = "retire" <=> stale # NoPlaybook)
    BY DEF PbInv, PbTyped, PbTypeOK
  <2>2. pbAt = "idle" \/ pbAt = "clusters" => stale = NoPlaybook
    BY <2>1
  <2> QED BY <2>1, <2>2 DEF Proceduralize, EndOfPass, PbAbort
<1>2. read' \subseteq Habits
  BY <1>1 DEF Proceduralize, EndOfPass, PbAbort
<1>3. PbTyped'
  BY <1>1, <1>2, PlaybooksAssumption DEF PbInv, PbTyped, PbTypeOK
<1>4. CASE Proceduralize
  <2>1. /\ pbAt' = "clusters" /\ read' = done /\ clusters' = LargeEnough(done)
        /\ settled' = {}
    BY <1>4 DEF Proceduralize
  <2>2. clusters' = LargeEnough(read)'
    BY <2>1, <1>1 DEF LargeEnough, Leaders, Taken
  <2> QED BY <1>3, <2>1, <2>2 DEF PbInv, Treated, HabitsHavePlaybooks
<1>5. CASE EndOfPass
  <2>1. /\ pbAt' = "idle" /\ pbAt = "clusters" /\ clusters = {}
        /\ settled' = IF done = read THEN LargeEnough(read) ELSE {}
    BY <1>5 DEF EndOfPass
  <2>2. \A S \in (SUBSET settled') \ {{}} :
          Isolated(S, settled') => \E i \in PlaybookIds \ retired : \E C \in S : book[i] = Tells[C]
    BY <2>1 DEF PbInv, Treated, InHand
  <2>3. HabitsHavePlaybooks'
    BY <2>2, <1>1 DEF HabitsHavePlaybooks, Isolated
  <2> QED BY <1>3, <2>1, <2>3 DEF PbInv, Treated
<1>6. CASE PbAbort
  BY <1>1, <1>3, <1>6 DEF PbAbort, PbInv, Treated, HabitsHavePlaybooks
<1> QED BY <1>4, <1>5, <1>6

LEMMA PbInvariant == PbSpec => []PbInv
<1>1. PbInit => PbInv
  <2> SUFFICES ASSUME PbInit PROVE PbInv
    OBVIOUS
  <2>1. PbTyped
    BY PlaybooksAssumption DEF PbInit, PbTyped, PbTypeOK
  <2> QED BY <2>1 DEF PbInit, PbInv, Treated, HabitsHavePlaybooks
<1>2. PbInv /\ [PbNext]_pbVars => PbInv'
  <2> SUFFICES ASSUME PbInv, [PbNext]_pbVars PROVE PbInv'
    OBVIOUS
  <2>1. CASE UNCHANGED pbVars
    <3>1. UNCHANGED <<near, done, book, retired, pbAt, clusters, stale, read, settled>>
      BY <2>1 DEF pbVars, pbPass
    <3>2. LargeEnough(read)' = LargeEnough(read)
      BY <3>1 DEF LargeEnough, Leaders, Taken
    <3>3. PbTyped' /\ HabitsHavePlaybooks'
      BY <3>1 DEF PbInv, PbTyped, PbTypeOK, HabitsHavePlaybooks, Isolated
    <3>4. PICK large : large = LargeEnough(read)
      OBVIOUS
    <3>5. Treated'
      BY <3>1, <3>2, <3>4 DEF PbInv, Treated, InHand, Isolated
    <3> QED BY <3>3, <3>5 DEF PbInv
  <2>2. CASE PbNext
    BY <2>2, TreatClusterInv, RetireStaleInv, EpisodesInv, PlaybookPassInv DEF PbNext
  <2> QED BY <2>1, <2>2
<1> QED BY <1>1, <1>2, PTL DEF PbSpec

\* The rows of the playbooks, and where a pass over the episodes stands.
THEOREM PbTypeCorrect == PbSpec => []PbTypeOK
<1>1. PbInv => PbTypeOK
  BY DEF PbInv, PbTyped
<1> QED BY <1>1, PbInvariant, PTL

\* After a pass that ran to its end every group of large clusters whose playbooks are
\* like none of the others has a live one of them, whatever texts the clusters make,
\* whichever of them are alike, and whatever was replaced, forgotten or cut short before.
THEOREM HabitsHavePlaybooksTheorem == PbSpec => []HabitsHavePlaybooks
<1>1. PbInv => HabitsHavePlaybooks
  BY DEF PbInv
<1> QED BY <1>1, PbInvariant, PTL

-----------------------------------------------------------------------------
(* L2: the registry of resources.                                          *)

\* The merge pass, field by field; its rows are those of resources.
WorkTyped ==
  /\ work = [pc |-> work.pc, live |-> work.live, at |-> work.at, todo |-> work.todo]
  /\ work.live = [i \in DOMAIN work.live |-> work.live[i]]
  /\ work.at \in (0..MaxId) \X (0..MaxId)
  /\ work.pc \notin {"idle", "pair"} =>
       Winner \in DOMAIN work.live /\ Loser \in DOMAIN work.live /\ Winner < Loser
  /\ \A i \in DOMAIN work.live : Exists(i)

CallTyped(c) ==
  /\ pc[c] # "idle" => name[c] \in Names /\ op[c] \in 1..MaxOps
  /\ pc[c] = "grow" => hit[c] \in Resource
  /\ pc[c] \in {"grow", "record", "edge"} => target[c] \in Ids /\ Exists(target[c])

RegTyped ==
  /\ RegistryTypeOK /\ WorkTyped
  /\ begun \in 0..MaxOps
  /\ \A c \in Clients : CallTyped(c)

-----------------------------------------------------------------------------

\* A call or a merge pass runs alone.
RunsAlone ==
  \A c \in Clients : pc[c] # "idle" =>
    work.pc = "idle" /\ \A d \in Clients : d # c => pc[d] = "idle"

Moving  == work.pc \in {"neighbors", "rebuild"}

\* A resource that answers to a name: the first one, where rows come in order.
Answers(n, i) == i \in Matches(n) /\ (InOrder => \A j \in Matches(n) : i <= j)

\* Ids are given out in order, and a name is one of its resource's aliases.
RowsInOrder ==
  /\ \A i \in Used : (1..i) \subseteq Used
  /\ \A i \in Used : res[i].name \in res[i].aliases

\* A name that is being resolved has no owner yet; a resolved one has it in hand.
CallKnows(c) ==
  /\ pc[c] \in {"search", "grow", "create"} => Matches(name[c]) = {}
  /\ pc[c] = "grow" => hit[c] = res[target[c]]
  /\ pc[c] \in {"record", "edge"} => Answers(name[c], target[c])

\* What the pass read is still so.
PassKnows ==
  /\ work.pc # "idle" => \A i \in DOMAIN work.live :
       /\ res[i].name = work.live[i].name /\ res[i].aliases = work.live[i].aliases
       /\ work.live[i].by = NoResource => res[i].by = NoResource
  /\ work.pc \notin {"idle", "pair"} => work.live[Winner].by = NoResource /\ Live(Loser)
  /\ work.pc \notin {"idle", "pair", "close", "mark"} => work.live[Loser].by = NoResource
  /\ work.pc \in {"close", "mark"} => work.live[Loser].by = Winner
  /\ HandingOver => res[Loser].aliases \subseteq res[Winner].aliases

\* The loser's operations are the winner's too before the loser's edges go.
EdgesFollow ==
  /\ work.pc = "rebuild" =>
       /\ \A o \in 1..MaxOps : <<o, Loser>> \in edges => o \in work.todo \/ <<o, Winner>> \in edges
       /\ \A o \in work.todo : <<o, Loser>> \in edges
  /\ work.pc = "retire" =>
       \A o \in 1..MaxOps : <<o, Loser>> \in edges => <<o, Winner>> \in edges
  /\ work.pc = "close" => \A o \in work.todo : <<o, Winner>> \in edges

Linked == \A o \in ops : \E i \in Ids : <<o[1], i>> \in edges

\* A live resource answers to its names, and no other live one does; the loser
\* of a merge has handed them over.
Keeps(i) == Live(i) /\ ~(HandingOver /\ i = Loser)
OwnNames ==
  \A i \in Ids : Keeps(i) => \A n \in res[i].aliases :
    Answers(n, i) /\ \A j \in Ids : Keeps(j) /\ n \in res[j].aliases => j = i

\* An operation is an edge of what answers to its name, or about to be one.
Reached(o) ==
  \E i \in Ids : /\ Answers(o[2], i)
                 /\ \/ <<o[1], i>> \in edges
                    \/ /\ Moving /\ i = Winner /\ <<o[1], Loser>> \in edges
                       /\ work.pc = "rebuild" => o[1] \in work.todo

RegInv ==
  /\ RegTyped
  /\ RunsAlone /\ RowsInOrder /\ PassKnows /\ EdgesFollow /\ Linked
  /\ \A c \in Clients : CallKnows(c)
  /\ ~cut => OwnNames /\ \A o \in ops : Reached(o)

LEMMA RowTyped ==
  ASSUME NEW r \in Resource, NEW S \in SUBSET Names, NEW b \in BOOLEAN,
         NEW w \in Ids \cup {NoResource}
  PROVE  /\ r # NoResource
         /\ [r EXCEPT !.aliases = S, !.embedded = b] \in Resource
         /\ [r EXCEPT !.aliases = S] \in Resource
         /\ [r EXCEPT !.embedded = b] \in Resource
         /\ [r EXCEPT !.by = w] \in Resource
BY RegistryAssumption DEF Resource

LEMMA ReadTyped ==
  ASSUME RegTyped
  PROVE  /\ \A i \in Used : i \in Ids /\ res[i] \in Resource
         /\ \A i \in Ids : Exists(i) <=> i \in Used
         /\ res \in [Ids -> Resource \cup {NoResource}]
         /\ \A p \in Procs : Loaded(p) \subseteq Ids
BY DEF RegTyped, RegistryTypeOK, Used, Exists, Loaded

\* A step of a call leaves the merge pass alone, and no row goes.
LEMMA CallStepTyped ==
  ASSUME RegTyped, UNCHANGED <<work, cut>>,
         res' \in [Ids -> Resource \cup {NoResource}], \A i \in Ids : Exists(i) => Exists(i)',
         edges' \subseteq (1..MaxOps) \X Ids,
         index' \in [Procs -> (SUBSET Ids) \cup {NoResource}],
         pc' \in [Clients -> {"idle", "search", "grow", "create", "record", "edge"}],
         name' \in [Clients -> Names \cup {NoResource}],
         hit' \in [Clients -> Resource \cup {NoResource}],
         target' \in [Clients -> Ids \cup {NoResource}],
         op' \in [Clients -> 0..MaxOps], ops' \subseteq (1..MaxOps) \X Names,
         begun' \in 0..MaxOps, \A c \in Clients : CallTyped(c)'
  PROVE  RegTyped'
<1>1. \A i \in DOMAIN work.live : i \in Ids
  BY DEF RegTyped, RegistryTypeOK
<1>2. WorkTyped'
  BY <1>1 DEF RegTyped, WorkTyped, Winner, Loser
<1>3. \A c \in Clients : pc'[c] \in {"record", "edge"} => Exists(target[c])'
  BY DEF CallTyped
<1> QED BY <1>2, <1>3 DEF RegTyped, RegistryTypeOK

LEMMA TypedResolve ==
  ASSUME RegTyped, NEW c \in Clients, NEW n \in Names, Resolve(c, n)
  PROVE  RegTyped'
<1>1. Foremost(n) \subseteq Matches(n)
  <2>1. Matches(n) \subseteq Nat
    BY RegistryAssumption DEF Matches, Used, Ids
  <2>2. Matches(n) # {} => Min(Matches(n)) \in Matches(n)
    <3>1. SUFFICES ASSUME Matches(n) # {}
                   PROVE \E x \in Matches(n) : \A y \in Matches(n) : x <= y
      BY DEF Min
    <3> QED BY <2>1, <3>1, LeastNat
  <2> QED BY <2>2 DEF Foremost
<1>2. Matches(n) \subseteq Used
  BY DEF Matches
<1>3. \A i \in Foremost(n) : i \in Ids /\ Exists(i)
  BY <1>1, <1>2, ReadTyped
<1>4. /\ pc' \in [Clients -> {"idle", "search", "grow", "create", "record", "edge"}]
      /\ name' \in [Clients -> Names \cup {NoResource}]
      /\ target' \in [Clients -> Ids \cup {NoResource}]
      /\ op' \in [Clients -> 0..MaxOps] /\ begun' \in 0..MaxOps
  BY <1>3, RegistryAssumption DEF Resolve, Goto, RegTyped, RegistryTypeOK
<1>5. \A d \in Clients : CallTyped(d)'
  BY <1>3, RegistryAssumption DEF Resolve, Goto, CallTyped, RegTyped, RegistryTypeOK, db, Exists
<1>6. /\ UNCHANGED <<work, cut, res, edges, index, hit, ops>>
      /\ edges \subseteq (1..MaxOps) \X Ids
      /\ index \in [Procs -> (SUBSET Ids) \cup {NoResource}]
      /\ hit \in [Clients -> Resource \cup {NoResource}]
      /\ ops \subseteq (1..MaxOps) \X Names
  BY DEF Resolve, db, RegTyped, RegistryTypeOK
<1> QED BY <1>4, <1>5, <1>6, ReadTyped, CallStepTyped DEF Exists

\* The id of the next row.
LEMMA NextId ==
  ASSUME Used # Ids
  PROVE  Cardinality(Used) \in Nat /\ Cardinality(Used) + 1 \in Ids
<1>1. MaxId \in Nat /\ IsFiniteSet(Ids) /\ Cardinality(Ids) = MaxId
  BY RegistryAssumption, FS_Interval DEF Ids
<1>2. Used \subseteq Ids
  BY DEF Used
<1>3. IsFiniteSet(Used) /\ Cardinality(Used) <= MaxId /\ Cardinality(Used) # MaxId
  BY <1>1, <1>2, FS_Subset
<1>4. Cardinality(Used) \in Nat
  BY <1>3, FS_CardinalityType
<1> QED BY <1>1, <1>3, <1>4 DEF Ids

LEMMA TypedSearch ==
  ASSUME RegTyped, NEW c \in Clients, Search(c)
  PROVE  RegTyped'
<1>1. Home[c] \in Procs /\ Loaded(Home[c]) \subseteq Ids
  BY RegistryAssumption, ReadTyped
<1>2. \A i \in Hits(Home[c], name[c], WriteNear) : i \in Ids /\ Exists(i) /\ res[i] \in Resource
  BY ReadTyped DEF Hits
<1>3. /\ pc' \in [Clients -> {"idle", "search", "grow", "create", "record", "edge"}]
      /\ target' \in [Clients -> Ids \cup {NoResource}]
      /\ hit' \in [Clients -> Resource \cup {NoResource}]
  BY <1>2 DEF Search, Goto, RegTyped, RegistryTypeOK
<1>4. index' \in [Procs -> (SUBSET Ids) \cup {NoResource}]
  BY <1>1 DEF Search, RegTyped, RegistryTypeOK
<1>5. \A d \in Clients : CallTyped(d)'
  BY <1>2 DEF Search, Goto, CallTyped, RegTyped, RegistryTypeOK, Exists
<1>6. /\ UNCHANGED <<work, cut, res, edges, name, op, begun, ops>>
      /\ edges \subseteq (1..MaxOps) \X Ids
      /\ name \in [Clients -> Names \cup {NoResource}]
      /\ op \in [Clients -> 0..MaxOps] /\ begun \in 0..MaxOps
      /\ ops \subseteq (1..MaxOps) \X Names
  BY DEF Search, RegTyped, RegistryTypeOK
<1> QED BY <1>3, <1>4, <1>5, <1>6, ReadTyped, CallStepTyped DEF Exists

\* PutMemory keeps the types.
LEMMA PutTyped ==
  ASSUME RegTyped, NEW p \in Procs, NEW i \in Ids, NEW r \in Resource, Put(p, i, r)
  PROVE  /\ res' \in [Ids -> Resource \cup {NoResource}]
         /\ res'[i] = r /\ \A j \in Ids : j # i => res'[j] = res[j]
         /\ \A j \in Ids : Exists(j) => Exists(j)'
         /\ Exists(i)'
         /\ index' \in [Procs -> (SUBSET Ids) \cup {NoResource}]
<1>1. res \in [Ids -> Resource \cup {NoResource}] /\ res' = [res EXCEPT ![i] = r]
  BY DEF RegTyped, RegistryTypeOK, Put
<1>2. res'[i] = r /\ \A j \in Ids : j # i => res'[j] = res[j]
  BY <1>1
<1>3. Exists(i)' /\ \A j \in Ids : Exists(j) => Exists(j)'
  BY <1>2, RegistryAssumption DEF Exists
<1>4. index' \in [Procs -> (SUBSET Ids) \cup {NoResource}]
  BY DEF RegTyped, RegistryTypeOK, Put
<1> QED BY <1>1, <1>2, <1>3, <1>4

LEMMA TypedGrow ==
  ASSUME RegTyped, NEW c \in Clients, Grow(c)
  PROVE  RegTyped'
<1> DEFINE r == [hit[c] EXCEPT !.aliases = hit[c].aliases \cup {name[c]}, !.embedded = TRUE]
<1>1. /\ hit[c] \in Resource /\ target[c] \in Ids /\ name[c] \in Names /\ Home[c] \in Procs
      /\ hit[c].aliases \subseteq Names
  BY RegistryAssumption DEF Grow, RegTyped, CallTyped, Resource
<1>2. r \in Resource
  BY <1>1, RowTyped
<1> HIDE DEF r
<1>3. Put(Home[c], target[c], r)
  BY DEF Grow, r
<1>4. pc' \in [Clients -> {"idle", "search", "grow", "create", "record", "edge"}]
  BY DEF Grow, Goto, RegTyped, RegistryTypeOK
<1>5. \A j \in Ids : Exists(j) => Exists(j)'
  BY <1>1, <1>2, <1>3, PutTyped
<1>6. \A d \in Clients : CallTyped(d)'
  BY <1>5 DEF Grow, Goto, CallTyped, RegTyped, RegistryTypeOK
<1>7. /\ UNCHANGED <<work, cut, edges, name, hit, target, op, begun, ops>>
      /\ edges \subseteq (1..MaxOps) \X Ids
      /\ name \in [Clients -> Names \cup {NoResource}]
      /\ hit \in [Clients -> Resource \cup {NoResource}]
      /\ target \in [Clients -> Ids \cup {NoResource}]
      /\ op \in [Clients -> 0..MaxOps] /\ begun \in 0..MaxOps
      /\ ops \subseteq (1..MaxOps) \X Names
  BY DEF Grow, RegTyped, RegistryTypeOK
<1> QED BY <1>1, <1>2, <1>3, <1>4, <1>5, <1>6, <1>7, PutTyped, CallStepTyped

LEMMA TypedCreate ==
  ASSUME RegTyped, NEW c \in Clients, Create(c)
  PROVE  RegTyped'
<1>0. PICK i : i = Cardinality(Used) + 1
  OBVIOUS
<1> DEFINE r == [name |-> name[c], aliases |-> {name[c]}, by |-> NoResource, embedded |-> TRUE]
<1>1. i \in Ids /\ name[c] \in Names /\ Home[c] \in Procs
  BY <1>0, RegistryAssumption, NextId DEF Create, RegTyped, CallTyped
<1>2. r \in Resource
  BY <1>1 DEF Resource
<1> HIDE DEF r
<1>3. Put(Home[c], i, r) /\ target' = [target EXCEPT ![c] = i]
  BY <1>0 DEF Create, r
<1>4. pc' \in [Clients -> {"idle", "search", "grow", "create", "record", "edge"}]
      /\ target' \in [Clients -> Ids \cup {NoResource}]
  BY <1>1, <1>3 DEF Create, Goto, RegTyped, RegistryTypeOK
<1>5. /\ \A j \in Ids : Exists(j) => Exists(j)'
      /\ Exists(i)'
  BY <1>1, <1>2, <1>3, PutTyped
<1>6. ASSUME NEW d \in Clients PROVE CallTyped(d)'
  <2>1. CASE d = c
    <3>1. pc'[c] = "record" /\ target'[c] = i /\ name' = name /\ op' = op /\ pc[c] = "create"
      BY <1>3 DEF Create, Goto, RegTyped, RegistryTypeOK
    <3>2. Exists(target[c])'
      BY <3>1, <1>5 DEF Exists
    <3> QED BY <2>1, <3>1, <3>2, <1>1 DEF CallTyped, RegTyped
  <2>2. CASE d # c
    <3>1. pc'[d] = pc[d] /\ target'[d] = target[d] /\ name' = name /\ op' = op /\ hit' = hit
      BY <2>2, <1>3 DEF Create, Goto, RegTyped, RegistryTypeOK
    <3> QED BY <3>1, <1>5 DEF CallTyped, RegTyped, Exists
  <2> QED BY <2>1, <2>2
<1>7. /\ UNCHANGED <<work, cut, edges, name, hit, op, begun, ops>>
      /\ edges \subseteq (1..MaxOps) \X Ids
      /\ name \in [Clients -> Names \cup {NoResource}]
      /\ hit \in [Clients -> Resource \cup {NoResource}]
      /\ op \in [Clients -> 0..MaxOps] /\ begun \in 0..MaxOps
      /\ ops \subseteq (1..MaxOps) \X Names
  BY DEF Create, RegTyped, RegistryTypeOK
<1> QED BY <1>1, <1>2, <1>3, <1>4, <1>5, <1>6, <1>7, PutTyped, CallStepTyped

LEMMA TypedReturn ==
  ASSUME RegTyped, NEW c \in Clients, Return(c)
  PROVE  /\ pc' \in [Clients -> {"idle", "search", "grow", "create", "record", "edge"}]
         /\ name' \in [Clients -> Names \cup {NoResource}]
         /\ hit' \in [Clients -> Resource \cup {NoResource}]
         /\ target' \in [Clients -> Ids \cup {NoResource}]
         /\ op' \in [Clients -> 0..MaxOps]
         /\ pc'[c] = "idle"
         /\ \A d \in Clients : d # c => /\ pc'[d] = pc[d] /\ name'[d] = name[d]
                                        /\ hit'[d] = hit[d] /\ target'[d] = target[d]
                                        /\ op'[d] = op[d]
BY RegistryAssumption DEF Return, Goto, RegTyped, RegistryTypeOK

LEMMA TypedRecord ==
  ASSUME RegTyped, NEW c \in Clients, Record(c) \/ Link(c) \/ CallFails(c)
  PROVE  RegTyped'
<1>1. UNCHANGED <<work, res, index, begun, cut>>
  BY DEF Record, Link, CallFails, db
<1>2. /\ edges \subseteq (1..MaxOps) \X Ids /\ ops \subseteq (1..MaxOps) \X Names
      /\ index \in [Procs -> (SUBSET Ids) \cup {NoResource}] /\ begun \in 0..MaxOps
      /\ res \in [Ids -> Resource \cup {NoResource}]
  BY DEF RegTyped, RegistryTypeOK
<1>3. CASE Record(c)
  <2>1. /\ pc' \in [Clients -> {"idle", "search", "grow", "create", "record", "edge"}]
        /\ UNCHANGED <<name, hit, target, op, edges, ops>>
        /\ \A d \in Clients : pc'[d] = IF d = c THEN "edge" ELSE pc[d]
        /\ pc[c] = "record"
    BY <1>3 DEF Record, Goto, db, RegTyped, RegistryTypeOK
  <2>2. \A d \in Clients : CallTyped(d)'
    BY <2>1, <1>1 DEF CallTyped, RegTyped, Exists
  <2>3. /\ name \in [Clients -> Names \cup {NoResource}]
        /\ hit \in [Clients -> Resource \cup {NoResource}]
        /\ target \in [Clients -> Ids \cup {NoResource}] /\ op \in [Clients -> 0..MaxOps]
    BY DEF RegTyped, RegistryTypeOK
  <2> QED BY <1>1, <1>2, <2>1, <2>2, <2>3, CallStepTyped DEF Exists
<1>4. CASE Link(c) \/ CallFails(c)
  <2>1. Return(c)
    BY <1>4 DEF Link, CallFails
  <2>2. edges' \subseteq (1..MaxOps) \X Ids /\ ops' \subseteq (1..MaxOps) \X Names
    <3>1. CASE Link(c)
      <4>1. op[c] \in 1..MaxOps /\ target[c] \in Ids /\ name[c] \in Names
        BY <3>1 DEF Link, RegTyped, CallTyped
      <4> QED BY <3>1, <4>1, <1>2 DEF Link
    <3>2. CASE CallFails(c)
      BY <3>2, <1>2 DEF CallFails, db
    <3> QED BY <3>1, <3>2, <1>4
  <2>3. \A d \in Clients : CallTyped(d)'
    BY <2>1, <1>1, TypedReturn DEF CallTyped, RegTyped, Exists
  <2> QED BY <1>1, <1>2, <2>1, <2>2, <2>3, TypedReturn, CallStepTyped DEF Exists
<1> QED BY <1>3, <1>4

PassPoints == {"idle", "pair", "absorb", "neighbors", "rebuild", "retire", "close", "mark"}

\* What RegTyped says of the merge pass.
PassRecord(p) ==
  /\ p = [pc |-> p.pc, live |-> p.live, at |-> p.at, todo |-> p.todo]
  /\ p.pc \in PassPoints
  /\ p.live = [i \in DOMAIN p.live |-> p.live[i]]
  /\ DOMAIN p.live \subseteq Ids /\ \A i \in DOMAIN p.live : p.live[i] \in Resource
  /\ p.at \in (0..MaxId) \X (0..MaxId)
  /\ p.pc \notin {"idle", "pair"} =>
       p.at[1] \in DOMAIN p.live /\ p.at[2] \in DOMAIN p.live /\ p.at[1] < p.at[2]
  /\ p.todo \subseteq 1..MaxOps

LEMMA PassIs ==
  ASSUME RegTyped
  PROVE  PassRecord(work) /\ \A i \in DOMAIN work.live : Exists(i)
BY DEF RegTyped, RegistryTypeOK, WorkTyped, PassRecord, PassPoints, Winner, Loser

LEMMA MergeStepTyped ==
  ASSUME RegTyped, UNCHANGED <<calls, ops, begun>>, cut' \in BOOLEAN,
         res' \in [Ids -> Resource \cup {NoResource}], \A i \in Ids : Exists(i) => Exists(i)',
         edges' \subseteq (1..MaxOps) \X Ids,
         index' \in [Procs -> (SUBSET Ids) \cup {NoResource}],
         PassRecord(work'), \A i \in DOMAIN work'.live : i \in DOMAIN work.live \/ Exists(i)
  PROVE  RegTyped'
<1>1. \A i \in DOMAIN work'.live : Exists(i)'
  BY PassIs DEF PassRecord
<1>2. WorkTyped'
  BY <1>1 DEF WorkTyped, PassRecord, Winner, Loser
<1>3. /\ UNCHANGED <<pc, name, hit, target, op, ops, begun>>
      /\ \A c \in Clients : CallTyped(c)
  BY DEF calls, RegTyped
<1>4. \A c \in Clients : CallTyped(c)'
  BY <1>3 DEF CallTyped
<1>5. \A c \in Clients : pc'[c] \in {"record", "edge"} => Exists(target[c])'
  BY <1>4 DEF CallTyped
<1> QED BY <1>2, <1>3, <1>4, <1>5 DEF RegTyped, RegistryTypeOK, PassRecord, PassPoints

\* A pass that only moves on, or takes up other operations.
LEMMA MovesOn ==
  ASSUME RegTyped, NEW point \in PassPoints, work.pc \notin {"idle", "pair"},
         NEW S \in SUBSET (1..MaxOps), NEW q,
         q = [pc |-> point, live |-> work.live, at |-> work.at, todo |-> S]
  PROVE  /\ PassRecord(q)
         /\ q.pc = point /\ q.todo = S /\ q.live = work.live /\ q.at = work.at
<1>1. PassRecord(work)
  BY PassIs
<1>2. q.pc = point /\ q.todo = S /\ q.live = work.live /\ q.at = work.at
  OBVIOUS
<1> QED BY <1>1, <1>2 DEF PassRecord

LEMMA TypedIdle == PassRecord(IdlePass) /\ DOMAIN IdlePass.live = {}
<1>1. /\ IdlePass = [pc |-> "idle", live |-> [i \in {} |-> NoResource], at |-> <<0, 0>>,
                     todo |-> {}]
      /\ IdlePass.live = [i \in {} |-> NoResource] /\ MaxId \in Nat
      /\ IdlePass.at = <<0, 0>> /\ IdlePass.pc = "idle" /\ IdlePass.todo = {}
  BY RegistryAssumption DEF IdlePass
<1>2. DOMAIN IdlePass.live = {}
  BY <1>1
<1>3. IdlePass.live = [i \in DOMAIN IdlePass.live |-> IdlePass.live[i]]
  BY <1>1, <1>2
<1>4. IdlePass = [pc |-> IdlePass.pc, live |-> IdlePass.live, at |-> IdlePass.at,
                  todo |-> IdlePass.todo]
  BY <1>1
<1> HIDE DEF IdlePass
<1> QED BY <1>1, <1>2, <1>3, <1>4 DEF PassRecord, PassPoints

\* Statements of the pass that leave the tables alone.
LEMMA TypedQuiet ==
  ASSUME RegTyped, BeginMerge \/ Confirm \/ ReadEdges \/ RetireLoser \/ EndMerge \/ PassFails
  PROVE  RegTyped'
<1>1. /\ UNCHANGED <<res, edges, index, calls, ops, begun>> /\ cut' \in BOOLEAN
      /\ res \in [Ids -> Resource \cup {NoResource}] /\ \A i \in Ids : Exists(i) => Exists(i)'
      /\ edges \subseteq (1..MaxOps) \X Ids
      /\ index \in [Procs -> (SUBSET Ids) \cup {NoResource}]
  BY DEF BeginMerge, Confirm, ReadEdges, RetireLoser, EndMerge, PassFails, db, RegTyped,
         RegistryTypeOK, Exists
<1>2. PassRecord(work) /\ \A e \in edges : e[1] \in 1..MaxOps
  BY <1>1, PassIs
<1>3. LoserOps \in SUBSET (1..MaxOps)
  BY <1>2 DEF LoserOps
<1>4. CASE BeginMerge
  <2>0. PICK rows : rows = [i \in {j \in Ids : Live(j)} |-> res[i]]
    OBVIOUS
  <2> DEFINE q == [IdlePass EXCEPT !.pc = "pair", !.live = rows]
  <2>1. /\ q = [pc |-> "pair", live |-> rows, at |-> <<0, 0>>, todo |-> {}]
        /\ MaxId \in Nat
    <3>1. PICK none : none = [i \in {} |-> NoResource]
      OBVIOUS
    <3>2. IdlePass = [pc |-> "idle", live |-> none, at |-> <<0, 0>>, todo |-> {}]
      BY <3>1 DEF IdlePass
    <3>3. PICK z : z = IdlePass
      OBVIOUS
    <3>4. z = [pc |-> "idle", live |-> none, at |-> <<0, 0>>, todo |-> {}]
      BY <3>2, <3>3
    <3>5. [z EXCEPT !.pc = "pair", !.live = rows]
            = [pc |-> "pair", live |-> rows, at |-> <<0, 0>>, todo |-> {}]
      <4>1. PICK y : y = [z EXCEPT !.pc = "pair"]
        OBVIOUS
      <4>2. y = [pc |-> "pair", live |-> none, at |-> <<0, 0>>, todo |-> {}]
        BY <3>4, <4>1
      <4>3. [y EXCEPT !.live = rows] = [pc |-> "pair", live |-> rows, at |-> <<0, 0>>, todo |-> {}]
        BY <4>2
      <4> QED BY <4>1, <4>3
    <3> QED BY <3>3, <3>5, RegistryAssumption
  <2>2. /\ rows = [i \in DOMAIN rows |-> rows[i]] /\ DOMAIN rows = {j \in Ids : Live(j)}
        /\ \A i \in DOMAIN rows : rows[i] \in Resource /\ Exists(i)
    BY <1>1, <2>0 DEF Live, Exists
  <2>3. work' = q
    BY <1>4, <2>0 DEF BeginMerge
  <2>4. q.pc = "pair" /\ q.live = rows /\ q.at = <<0, 0>> /\ q.todo = {}
    BY <2>1
  <2> HIDE DEF q
  <2>5. PassRecord(q)
    BY <2>1, <2>2, <2>4 DEF PassRecord, PassPoints
  <2> QED BY <1>1, <2>2, <2>3, <2>4, <2>5, MergeStepTyped
<1>5. CASE Confirm
  <2>1. PICK i \in DOMAIN work.live, j \in DOMAIN work.live :
          i < j /\ work' = [work EXCEPT !.pc = "absorb", !.at = <<i, j>>]
    BY <1>5 DEF Confirm
  <2>2. /\ <<i, j>> \in (0..MaxId) \X (0..MaxId)
    BY <1>2, RegistryAssumption DEF PassRecord, Ids
  <2>3. /\ work'.pc = "absorb" /\ work'.at = <<i, j>> /\ work'.live = work.live
        /\ work'.todo = work.todo
        /\ work' = [pc |-> work'.pc, live |-> work'.live, at |-> work'.at, todo |-> work'.todo]
    BY <1>2, <2>1 DEF PassRecord
  <2>4. PassRecord(work')
    BY <1>2, <2>1, <2>2, <2>3 DEF PassRecord, PassPoints
  <2> QED BY <1>1, <2>3, <2>4, MergeStepTyped
<1>6. CASE ReadEdges
  <2>1. work' = [work EXCEPT !.pc = "rebuild", !.todo = LoserOps] /\ work.pc = "neighbors"
    BY <1>6 DEF ReadEdges
  <2>2. PassRecord(work') /\ work'.live = work.live
    <3>1. PICK q, S : q = work' /\ S = LoserOps
      OBVIOUS
    <3>2. /\ S \in SUBSET (1..MaxOps)
            /\ q = [pc |-> "rebuild", live |-> work.live, at |-> work.at, todo |-> S]
      BY <3>1, <1>2, <1>3, <2>1 DEF PassRecord
    <3>3. "rebuild" \in PassPoints /\ work.pc \notin {"idle", "pair"}
      BY <2>1 DEF PassPoints
    <3>4. PassRecord(q) /\ q.live = work.live
      BY <3>2, <3>3, MovesOn
    <3> QED BY <3>1, <3>4
  <2> QED BY <1>1, <2>2, MergeStepTyped
<1>7. CASE RetireLoser
  <2>1. /\ work' = [work EXCEPT !.pc = "close", !.todo = LoserOps, !.live[Loser].by = Winner]
        /\ work.pc = "retire"
    BY <1>7 DEF RetireLoser
  <2> DEFINE r == [work.live[Loser] EXCEPT !.by = Winner]
             rows == [work.live EXCEPT ![Loser] = r]
  <2>2. Winner \in Ids /\ Loser \in DOMAIN work.live /\ work.live[Loser] \in Resource
    BY <1>2, <2>1 DEF PassRecord, Winner, Loser
  <2>3. r \in Resource
    BY <2>2, RowTyped
  <2>4. /\ work'.pc = "close" /\ work'.todo = LoserOps /\ work'.live = rows
        /\ work'.at = work.at
        /\ work' = [pc |-> work'.pc, live |-> work'.live, at |-> work'.at, todo |-> work'.todo]
    BY <1>2, <2>1 DEF PassRecord
  <2> HIDE DEF r
  <2>5. /\ rows = [i \in DOMAIN rows |-> rows[i]] /\ DOMAIN rows = DOMAIN work.live
        /\ \A i \in DOMAIN rows : rows[i] \in Resource
    BY <1>2, <2>2, <2>3 DEF PassRecord
  <2> HIDE DEF rows
  <2>6. PassRecord(work')
    BY <1>2, <1>3, <2>1, <2>4, <2>5 DEF PassRecord, PassPoints
  <2> QED BY <1>1, <2>4, <2>5, <2>6, MergeStepTyped
<1>8. CASE EndMerge \/ PassFails
  <2>1. work' = IdlePass
    BY <1>8 DEF EndMerge, PassFails
  <2>2. PassRecord(work') /\ DOMAIN work'.live = {}
    BY <2>1, TypedIdle
  <2> QED BY <1>1, <2>2, MergeStepTyped
<1> QED BY <1>4, <1>5, <1>6, <1>7, <1>8

LEMMA TypedAbsorb ==
  ASSUME RegTyped, Absorb
  PROVE  /\ RegTyped'
         /\ Winner \in Ids /\ Loser \in Ids /\ Winner < Loser
         /\ Winner \in DOMAIN work.live /\ Loser \in DOMAIN work.live
         /\ work'.pc = "neighbors" /\ work'.at = work.at
         /\ work'.live = [work.live EXCEPT ![Winner] =
              [work.live[Winner] EXCEPT
                 !.aliases = work.live[Winner].aliases \cup work.live[Loser].aliases]]
         /\ UNCHANGED <<edges, calls, ops, begun, cut>>
         /\ \A i \in Ids : i # Winner => res'[i] = res[i]
         /\ \/ /\ res' = res
               /\ work.live[Loser].aliases \subseteq work.live[Winner].aliases
            \/ res'[work.at[1]] = [work.live[Winner] EXCEPT
                 !.aliases = work.live[Winner].aliases \cup work.live[Loser].aliases,
                 !.embedded = TRUE]
<1>0. PICK win, los : win = Winner /\ los = Loser
  OBVIOUS
<1> DEFINE w == work.live[win]
           all == w.aliases \cup work.live[los].aliases
           rows == [work.live EXCEPT ![win] = [w EXCEPT !.aliases = all]]
<1>0a. PICK r : r = [w EXCEPT !.aliases = all, !.embedded = TRUE]
  OBVIOUS
<1>1. /\ PassRecord(work) /\ work.pc = "absorb"
      /\ work' = [work EXCEPT !.pc = "neighbors", !.live[win].aliases = all]
  BY <1>0, PassIs DEF Absorb
<1>2. /\ win \in Ids /\ los \in Ids /\ win < los
      /\ win \in DOMAIN work.live /\ los \in DOMAIN work.live
      /\ w \in Resource /\ work.live[los] \in Resource
  BY <1>0, <1>1 DEF PassRecord, Winner, Loser
<1>3. all \in SUBSET Names
  BY <1>2 DEF Resource
<1>4. r \in Resource /\ [w EXCEPT !.aliases = all] \in Resource
  BY <1>0a, <1>2, <1>3, RowTyped
<1>5. /\ work'.pc = "neighbors" /\ work'.todo = work.todo /\ work'.live = rows
      /\ work'.at = work.at
      /\ work' = [pc |-> work'.pc, live |-> work'.live, at |-> work'.at, todo |-> work'.todo]
  BY <1>1 DEF PassRecord
<1>6. /\ rows = [i \in DOMAIN rows |-> rows[i]] /\ DOMAIN rows = DOMAIN work.live
      /\ \A i \in DOMAIN rows : rows[i] \in Resource
  BY <1>1, <1>2, <1>4 DEF PassRecord
<1>7. UNCHANGED <<edges, calls, ops, begun, cut>>
  BY DEF Absorb
<1>8. /\ \/ all = w.aliases /\ UNCHANGED <<res, index>>
         \/ Put(WorkerHome, win, r)
      /\ WorkerHome \in Procs
  BY <1>0, <1>0a, RegistryAssumption DEF Absorb
<1>9. /\ res' \in [Ids -> Resource \cup {NoResource}] /\ \A i \in Ids : Exists(i) => Exists(i)'
      /\ index' \in [Procs -> (SUBSET Ids) \cup {NoResource}]
      /\ \A i \in Ids : i # win => res'[i] = res[i]
      /\ \/ res' = res /\ work.live[los].aliases \subseteq w.aliases
         \/ res'[win] = r
  <2>1. CASE all = w.aliases /\ UNCHANGED <<res, index>>
    BY <2>1 DEF RegTyped, RegistryTypeOK, Exists
  <2>2. CASE Put(WorkerHome, win, r)
    <3> HIDE DEF all, w
    <3> QED BY <2>2, <1>2, <1>4, <1>8, PutTyped
  <2> QED BY <1>8, <2>1, <2>2
<1> HIDE DEF rows
<1>10. PassRecord(work')
  <2>1. /\ work.at \in (0..MaxId) \X (0..MaxId) /\ work.todo \subseteq 1..MaxOps
        /\ work.at[1] \in DOMAIN work.live /\ work.at[2] \in DOMAIN work.live
        /\ work.at[1] < work.at[2] /\ DOMAIN work.live \subseteq Ids
    BY <1>1 DEF PassRecord
  <2>2. PICK q : q = work'
    OBVIOUS
  <2>3. q.pc = "neighbors" /\ q.todo = work.todo /\ q.live = rows /\ q.at = work.at
        /\ q = [pc |-> q.pc, live |-> q.live, at |-> q.at, todo |-> q.todo]
    BY <2>2, <1>5
  <2>4. PassRecord(q)
    BY <2>1, <2>3, <1>6 DEF PassRecord, PassPoints
  <2> QED BY <2>2, <2>4
<1>11. edges' \subseteq (1..MaxOps) \X Ids /\ cut' \in BOOLEAN
  BY <1>7 DEF RegTyped, RegistryTypeOK
<1>12. RegTyped'
  BY <1>5, <1>6, <1>7, <1>9, <1>10, <1>11, MergeStepTyped
<1> USE DEF rows
<1> QED BY <1>0, <1>0a, <1>2, <1>5, <1>7, <1>9, <1>12 DEF Winner

\* The statements on edges.
LEMMA TypedEdges ==
  ASSUME RegTyped, Rebuild \/ CloseEdge
  PROVE  /\ RegTyped' /\ UNCHANGED <<res, index, calls, ops, begun, cut>>
         /\ work'.live = work.live /\ work'.at = work.at
         /\ work.pc \in {"rebuild", "close"}
         /\ \/ /\ work.todo = {} /\ edges' = edges /\ work'.todo = {}
               /\ work'.pc = IF work.pc = "rebuild" THEN "retire" ELSE "mark"
            \/ \E o \in work.todo :
                 /\ work'.pc = work.pc /\ work'.todo = work.todo \ {o}
                 /\ edges' = IF work.pc = "rebuild" THEN edges \cup {<<o, Winner>>}
                                                    ELSE edges \ {<<o, Loser>>}
<1>1. /\ UNCHANGED <<res, index, calls, ops, begun, cut>>
      /\ work.pc \in {"rebuild", "close"}
  BY DEF Rebuild, CloseEdge
<1>2. PassRecord(work) /\ Winner \in Ids /\ work.todo \subseteq 1..MaxOps
  BY <1>1, PassIs DEF PassRecord, Winner
<1>3. ASSUME work.todo = {}, edges' = edges,
             NEW pt \in {"retire", "mark"}, work' = [work EXCEPT !.pc = pt]
      PROVE  /\ PassRecord(work') /\ work'.pc = pt /\ work'.todo = work.todo
             /\ work'.live = work.live /\ work'.at = work.at
  <2>1. PICK q : q = work'
    OBVIOUS
  <2>2. q = [pc |-> pt, live |-> work.live, at |-> work.at, todo |-> work.todo]
    BY <2>1, <1>2, <1>3 DEF PassRecord
  <2>3. work.todo \in SUBSET (1..MaxOps) /\ pt \in PassPoints /\ work.pc \notin {"idle", "pair"}
    BY <1>1, <1>2 DEF PassPoints
  <2>4. /\ PassRecord(q) /\ q.pc = pt /\ q.todo = work.todo
        /\ q.live = work.live /\ q.at = work.at
    BY <2>2, <2>3, MovesOn
  <2> QED BY <2>1, <2>4
<1>4. ASSUME NEW o \in work.todo, work' = [work EXCEPT !.todo = @ \ {o}]
      PROVE  /\ PassRecord(work') /\ work'.pc = work.pc /\ work'.todo = work.todo \ {o}
             /\ work'.live = work.live /\ work'.at = work.at
  <2>1. PICK q, S : q = work' /\ S = work.todo \ {o}
    OBVIOUS
  <2>2. q = [pc |-> work.pc, live |-> work.live, at |-> work.at, todo |-> S]
    BY <2>1, <1>2, <1>4 DEF PassRecord
  <2>3. S \in SUBSET (1..MaxOps) /\ work.pc \in PassPoints /\ work.pc \notin {"idle", "pair"}
    BY <2>1, <1>1, <1>2 DEF PassPoints
  <2>4. /\ PassRecord(q) /\ q.pc = work.pc /\ q.todo = S
        /\ q.live = work.live /\ q.at = work.at
    BY <2>2, <2>3, MovesOn
  <2> QED BY <2>1, <2>4
<1>5. /\ PassRecord(work') /\ work'.live = work.live /\ work'.at = work.at
      /\ \/ /\ work.todo = {} /\ edges' = edges /\ work'.todo = {}
            /\ work'.pc = IF work.pc = "rebuild" THEN "retire" ELSE "mark"
         \/ \E o \in work.todo :
              /\ work'.pc = work.pc /\ work'.todo = work.todo \ {o}
              /\ edges' = IF work.pc = "rebuild" THEN edges \cup {<<o, Winner>>}
                                                 ELSE edges \ {<<o, Loser>>}
  BY <1>3, <1>4 DEF Rebuild, CloseEdge
<1>6. /\ edges' \subseteq (1..MaxOps) \X Ids
      /\ index' \in [Procs -> (SUBSET Ids) \cup {NoResource}] /\ cut' \in BOOLEAN
      /\ res' \in [Ids -> Resource \cup {NoResource}] /\ \A i \in Ids : Exists(i) => Exists(i)'
  BY <1>1, <1>2, <1>5 DEF RegTyped, RegistryTypeOK, Exists
<1>7. RegTyped'
  BY <1>1, <1>5, <1>6, MergeStepTyped
<1> QED BY <1>1, <1>5, <1>7

LEMMA TypedMarkLoser ==
  ASSUME RegTyped, MarkLoser
  PROVE  /\ RegTyped' /\ UNCHANGED <<edges, index, calls, ops, begun, cut>>
         /\ work.pc = "mark" /\ work'.pc = "pair"
         /\ work'.live = work.live /\ work'.at = work.at
         /\ Loser \in DOMAIN work.live /\ Loser \in Ids /\ Winner \in Ids
         /\ work.live[Loser] \in Resource
         /\ res'[work.at[2]] = [work.live[Loser] EXCEPT !.embedded = FALSE]
         /\ \A i \in Ids : i # Loser => res'[i] = res[i]
<1>1. /\ UNCHANGED <<edges, index, calls, ops, begun, cut>> /\ work.pc = "mark"
      /\ work' = [work EXCEPT !.pc = "pair"]
  BY DEF MarkLoser
<1>2. PassRecord(work)
  BY PassIs
<1>3. PICK los, r : los = Loser /\ r = [work.live[los] EXCEPT !.embedded = FALSE]
  OBVIOUS
<1>4. /\ los \in DOMAIN work.live /\ los \in Ids /\ work.live[los] \in Resource
      /\ r \in Resource /\ r # NoResource /\ Winner \in Ids
  BY <1>1, <1>2, <1>3, RowTyped, RegistryAssumption DEF PassRecord, Loser, Winner
<1>5. res' = [res EXCEPT ![los] = r] /\ res \in [Ids -> Resource \cup {NoResource}]
  BY <1>3 DEF MarkLoser, RegTyped, RegistryTypeOK
<1>6. /\ res' \in [Ids -> Resource \cup {NoResource}] /\ \A i \in Ids : Exists(i) => Exists(i)'
      /\ res'[los] = r /\ \A i \in Ids : i # los => res'[i] = res[i]
  BY <1>4, <1>5 DEF Exists
<1>7. /\ PassRecord(work') /\ work'.pc = "pair" /\ work'.todo = work.todo
      /\ work'.live = work.live /\ work'.at = work.at
  <2>1. PICK q : q = work'
    OBVIOUS
  <2>2. q = [pc |-> "pair", live |-> work.live, at |-> work.at, todo |-> work.todo]
    BY <2>1, <1>1, <1>2 DEF PassRecord
  <2>3. /\ work.todo \in SUBSET (1..MaxOps) /\ "pair" \in PassPoints
        /\ work.pc \notin {"idle", "pair"}
    BY <1>1, <1>2 DEF PassPoints, PassRecord
  <2>4. /\ PassRecord(q) /\ q.pc = "pair" /\ q.todo = work.todo
        /\ q.live = work.live /\ q.at = work.at
    BY <2>2, <2>3, MovesOn
  <2> QED BY <2>1, <2>4
<1>8. /\ edges' \subseteq (1..MaxOps) \X Ids
      /\ index' \in [Procs -> (SUBSET Ids) \cup {NoResource}] /\ cut' \in BOOLEAN
  BY <1>1 DEF RegTyped, RegistryTypeOK
<1>9. RegTyped'
  BY <1>1, <1>6, <1>7, <1>8, MergeStepTyped
<1> QED BY <1>1, <1>3, <1>4, <1>6, <1>7, <1>9 DEF Loser

LEMMA TypedIndex ==
  ASSUME RegTyped, NEW p \in Procs, OtherSearch(p) \/ Restart(p)
  PROVE  RegTyped'
<1>1. /\ UNCHANGED <<res, edges, calls, work, ops, begun, cut>>
      /\ Loaded(p) \subseteq Ids
  BY ReadTyped DEF OtherSearch, Restart
<1>2. index' \in [Procs -> (SUBSET Ids) \cup {NoResource}]
  BY <1>1 DEF OtherSearch, Restart, RegTyped, RegistryTypeOK
<1>3. /\ edges' \subseteq (1..MaxOps) \X Ids /\ cut' \in BOOLEAN
      /\ res' \in [Ids -> Resource \cup {NoResource}] /\ \A i \in Ids : Exists(i) => Exists(i)'
  BY <1>1 DEF RegTyped, RegistryTypeOK, Exists
<1>4. PassRecord(work')
  BY <1>1, PassIs
<1> QED BY <1>1, <1>2, <1>3, <1>4, MergeStepTyped

LEMMA TypedInit == ASSUME RegistryInit PROVE RegTyped
<1>1. /\ work = IdlePass /\ PassRecord(work) /\ DOMAIN work.live = {}
  BY TypedIdle DEF RegistryInit
<1>2. WorkTyped
  BY <1>1 DEF WorkTyped, PassRecord, Winner, Loser
<1>3. /\ pc = [c \in Clients |-> "idle"] /\ target = [c \in Clients |-> NoResource]
  BY DEF RegistryInit
<1>4. \A c \in Clients : CallTyped(c)
  BY <1>3 DEF CallTyped
<1>5. RegistryTypeOK
  <2>1. /\ work.pc \in PassPoints /\ DOMAIN work.live \subseteq Ids
        /\ \A i \in DOMAIN work.live : work.live[i] \in Resource
        /\ work.todo \subseteq 1..MaxOps
    BY <1>1 DEF PassRecord
  <2>2. /\ res \in [Ids -> Resource \cup {NoResource}]
        /\ edges \subseteq (1..MaxOps) \X Ids /\ ops \subseteq (1..MaxOps) \X Names
        /\ index \in [Procs -> (SUBSET Ids) \cup {NoResource}] /\ cut \in BOOLEAN
    BY DEF RegistryInit
  <2>3. /\ pc \in [Clients -> {"idle", "search", "grow", "create", "record", "edge"}]
        /\ name \in [Clients -> Names \cup {NoResource}]
        /\ hit \in [Clients -> Resource \cup {NoResource}]
        /\ target \in [Clients -> Ids \cup {NoResource}]
        /\ op \in [Clients -> 0..MaxOps]
        /\ \A c \in Clients : pc[c] \notin {"record", "edge"}
    BY RegistryAssumption DEF RegistryInit
  <2> QED BY <2>1, <2>2, <2>3 DEF RegistryTypeOK, PassPoints
<1> QED BY <1>2, <1>4, <1>5, RegistryAssumption DEF RegTyped, RegistryInit

LEMMA TypedNext ==
  ASSUME RegTyped, [RegistryNext]_registryVars
  PROVE  RegTyped'
<1>1. CASE UNCHANGED registryVars
  <2>1. UNCHANGED <<res, edges, index, pc, name, hit, target, op, work, ops, begun, failures, cut>>
    BY <1>1 DEF registryVars, db, calls
  <2>2. RegistryTypeOK'
    BY <2>1 DEF RegTyped, RegistryTypeOK, Exists
  <2>3. WorkTyped'
    BY <2>1 DEF RegTyped, WorkTyped, Winner, Loser, Exists
  <2> QED BY <2>1, <2>2, <2>3 DEF RegTyped, CallTyped, Exists
<1>2. ASSUME NEW c \in Clients, NEW n \in Names, Resolve(c, n) PROVE RegTyped'
  BY <1>2, TypedResolve
<1>3. ASSUME NEW c \in Clients, Call(c) \/ CallFails(c) PROVE RegTyped'
  BY <1>3, TypedSearch, TypedGrow, TypedCreate, TypedRecord DEF Call
<1>4. CASE Merge \/ PassFails
  BY <1>4, TypedQuiet, TypedAbsorb, TypedEdges, TypedMarkLoser DEF Merge
<1>5. ASSUME NEW p \in Procs, OtherSearch(p) \/ Restart(p) PROVE RegTyped'
  BY <1>5, TypedIndex
<1> QED BY <1>1, <1>2, <1>3, <1>4, <1>5 DEF RegistryNext

\* The rows of the registry, what calls and merge passes hold, and that a call
\* that has resolved its name holds a resource that exists.
THEOREM RegistryTypeCorrect == RegistrySpec => []RegistryTypeOK
<1>1. RegistryInit => RegTyped
  BY TypedInit
<1>2. RegTyped /\ [RegistryNext]_registryVars => RegTyped'
  BY TypedNext
<1>3. RegTyped => RegistryTypeOK
  BY DEF RegTyped
<1> QED BY <1>1, <1>2, <1>3, PTL DEF RegistrySpec

-----------------------------------------------------------------------------
(* Names and operations, where calls and merge passes do not overlap.       *)

\* The names of an existing row are its aliases.
LEMMA MatchesAre ==
  ASSUME RegInv, NEW n
  PROVE  /\ Matches(n) = {i \in Used : n \in res[i].aliases}
         /\ Matches(n) \subseteq Ids /\ Ids \subseteq Nat
BY RegistryAssumption DEF RegInv, RowsInOrder, Matches, Used, Ids

LEMMA OneAnswers ==
  ASSUME InOrder, NEW n, NEW i \in Ids, NEW j \in Ids, Answers(n, i), Answers(n, j)
  PROVE  i = j
BY RegistryAssumption DEF Answers, Ids

LEMMA FirstAnswers ==
  ASSUME NEW n
  PROVE  /\ Foremost(n) = {} <=> Matches(n) = {}
         /\ \A i : i \in Foremost(n) <=> Answers(n, i)
<1>1. Matches(n) \subseteq Nat
  BY RegistryAssumption DEF Matches, Used, Ids
<1>2. CASE InOrder /\ Matches(n) # {}
  <2>1. PICK x : x = Min(Matches(n))
    OBVIOUS
  <2>2. x \in Matches(n) /\ \A y \in Matches(n) : x <= y
    <3>1. \E z \in Matches(n) : \A y \in Matches(n) : z <= y
      BY <1>1, <1>2, LeastNat
    <3> QED BY <2>1, <3>1 DEF Min
  <2>3. Foremost(n) = {x}
    BY <1>2, <2>1 DEF Foremost
  <2>4. \A i \in Matches(n) : (\A j \in Matches(n) : i <= j) => i = x
    BY <1>1, <2>2
  <2> QED BY <1>2, <2>2, <2>3, <2>4 DEF Answers
<1>3. CASE ~(InOrder /\ Matches(n) # {})
  BY <1>3 DEF Foremost, Answers
<1> QED BY <1>2, <1>3

LEMMA UsedAre ==
  ASSUME RegInv
  PROVE  Used = 1..Cardinality(Used)
<1>1. Used \subseteq 0..MaxId /\ Used \subseteq Ids /\ MaxId \in Nat
  BY RegistryAssumption DEF Used, Ids
<1>2. CASE Used = {}
  <2>1. Cardinality(Used) = 0
    BY <1>2, FS_EmptySet
  <2> QED BY <2>1, <1>2
<1>3. CASE Used # {}
  <2>1. PICK m \in Used : \A y \in Used : m >= y
    BY <1>1, <1>3, GreatestNat
  <2>2. Used = 1..m /\ m \in Nat
    <3>1. m \in Nat /\ \A y \in Used : y \in Nat /\ y >= 1 /\ y <= m
      BY <2>1, <1>1 DEF Ids
    <3>2. 1..m \subseteq Used
      BY <2>1 DEF RegInv, RowsInOrder
    <3>3. Used \subseteq 1..m
      BY <3>1
    <3> QED BY <3>1, <3>2, <3>3
  <2>3. Cardinality(1..m) = m
    BY <2>2, FS_Interval
  <2> QED BY <2>2, <2>3
<1> QED BY <1>2, <1>3

\* A step of a call: nothing else is under way.
LEMMA CallStep ==
  ASSUME RegInv, RegTyped', NEW c \in Clients, pc[c] # "idle" \/ Quiescent,
         \A d \in Clients : d # c => pc'[d] = pc[d],
         UNCHANGED <<work, cut>>, RowsInOrder', CallKnows(c)', Linked',
         ~cut => OwnNames' /\ \A o \in ops' : Reached(o)'
  PROVE  RegInv'
<1>1. work.pc = "idle" /\ \A d \in Clients : d # c => pc'[d] = "idle"
  BY DEF RegInv, RunsAlone, Quiescent
<1>2. PassKnows' /\ EdgesFollow' /\ RunsAlone'
  BY <1>1 DEF PassKnows, EdgesFollow, RunsAlone, HandingOver, Moving
<1>3. \A d \in Clients : CallKnows(d)'
  BY <1>1 DEF CallKnows
<1> QED BY <1>2, <1>3 DEF RegInv

\* What does not change with the rows, the edges, the pass and the history.
LEMMA SameTables ==
  ASSUME RegInv, UNCHANGED <<res, edges, work, ops>>
  PROVE  /\ RowsInOrder' /\ Linked'
         /\ \A n : Matches(n)' = Matches(n)
         /\ \A n, i : Answers(n, i) <=> Answers(n, i)'
         /\ ~cut => OwnNames' /\ \A o \in ops' : Reached(o)'
<1>1. \A n : Matches(n)' = Matches(n)
  BY DEF Matches, Used, Exists
<1>2. \A n, i : Answers(n, i) <=> Answers(n, i)'
  BY <1>1 DEF Answers
<1>3. RowsInOrder' /\ Linked'
  BY DEF RegInv, RowsInOrder, Linked, Used, Exists
<1>4. (HandingOver <=> HandingOver') /\ (Moving <=> Moving') /\ Loser' = Loser /\ Winner' = Winner
  BY DEF HandingOver, Moving, Loser, Winner
<1>5. ~cut => OwnNames'
  BY <1>2, <1>4 DEF RegInv, OwnNames, Keeps, Live, Exists
<1>6. ~cut => \A o \in ops' : Reached(o)'
  BY <1>2, <1>4 DEF RegInv, Reached
<1> QED BY <1>1, <1>2, <1>3, <1>5, <1>6

LEMMA KeepResolve ==
  ASSUME ~Overlap, RegInv, RegTyped', NEW c \in Clients, NEW n \in Names, Resolve(c, n)
  PROVE  RegInv'
<1>1. /\ UNCHANGED <<res, edges, work, ops, cut>> /\ Quiescent
      /\ \A d \in Clients : d # c => pc'[d] = pc[d]
  BY DEF Resolve, Goto, db, RegInv, RegTyped, RegistryTypeOK
<1>2. name'[c] = n
  BY DEF Resolve, RegInv, RegTyped, RegistryTypeOK
<1>3. CallKnows(c)'
  <2>1. ASSUME NEW i \in Foremost(n), Goto(c, "record"), target' = [target EXCEPT ![c] = i]
        PROVE  CallKnows(c)'
    <3>1. pc'[c] = "record" /\ target'[c] = i
      BY <2>1 DEF Goto, RegInv, RegTyped, RegistryTypeOK
    <3>2. Answers(n, i)
      BY FirstAnswers
    <3>3. Answers(n, i)'
      BY <3>2, <1>1, SameTables
    <3> QED BY <3>1, <3>3, <1>2 DEF CallKnows
  <2>2. ASSUME Matches(n) = {}, Goto(c, "search") PROVE CallKnows(c)'
    <3>1. pc'[c] = "search"
      BY <2>2 DEF Goto, RegInv, RegTyped, RegistryTypeOK
    <3>2. Matches(n)' = {}
      BY <2>2, <1>1, SameTables
    <3> QED BY <3>1, <3>2, <1>2 DEF CallKnows
  <2> QED BY <2>1, <2>2 DEF Resolve
<1> QED BY <1>1, <1>3, SameTables, CallStep

LEMMA KeepSearch ==
  ASSUME RegInv, RegTyped', NEW c \in Clients, Search(c)
  PROVE  RegInv'
<1>1. /\ UNCHANGED <<res, edges, work, ops, cut, name>> /\ pc[c] = "search"
      /\ \A d \in Clients : d # c => pc'[d] = pc[d]
  BY DEF Search, Goto, RegInv, RegTyped, RegistryTypeOK
<1>2. Matches(name[c]) = {}
  BY <1>1 DEF RegInv, CallKnows
<1>3. Matches(name[c])' = {}
  BY <1>1, <1>2 DEF Matches, Used, Exists
<1>4. \/ pc'[c] = "create"
      \/ pc'[c] = "grow" /\ hit'[c] = res[target'[c]]
  <2>1. CASE Hits(Home[c], name[c], WriteNear) = {}
    BY <2>1 DEF Search, Goto, RegInv, RegTyped, RegistryTypeOK
  <2>2. ASSUME NEW i \in Hits(Home[c], name[c], WriteNear),
               target' = [target EXCEPT ![c] = i], hit' = [hit EXCEPT ![c] = res[i]],
               Goto(c, IF name[c] \in res[i].aliases THEN "record" ELSE "grow")
        PROVE  pc'[c] = "grow" /\ hit'[c] = res[target'[c]]
    <3>1. name[c] \notin res[i].aliases
      BY <1>2, MatchesAre DEF Hits
    <3> QED BY <2>2, <3>1 DEF Goto, RegInv, RegTyped, RegistryTypeOK
  <2> QED BY <2>1, <2>2 DEF Search, Goto, RegInv, RegTyped, RegistryTypeOK
<1>5. CallKnows(c)'
  BY <1>1, <1>3, <1>4 DEF CallKnows
<1> QED BY <1>1, <1>5, SameTables, CallStep

LEMMA KeepRecord ==
  ASSUME RegInv, RegTyped', NEW c \in Clients, Record(c) \/ CallFails(c)
  PROVE  RegInv'
<1>1. /\ UNCHANGED <<res, edges, work, ops, cut>> /\ pc[c] # "idle"
      /\ \A d \in Clients : d # c => pc'[d] = pc[d]
  BY DEF Record, CallFails, Return, Goto, db, RegInv, RegTyped, RegistryTypeOK
<1>2. CASE Record(c)
  <2>1. /\ pc[c] = "record" /\ pc'[c] = "edge" /\ target'[c] = target[c] /\ name'[c] = name[c]
    BY <1>2 DEF Record, Goto, RegInv, RegTyped, RegistryTypeOK
  <2>2. PICK n, i : n = name[c] /\ i = target[c]
    OBVIOUS
  <2>3. Answers(n, i)
    BY <2>1, <2>2 DEF RegInv, CallKnows
  <2>4. Answers(n, i)'
    BY <2>3, <1>1, SameTables
  <2>5. CallKnows(c)'
    BY <2>1, <2>2, <2>4 DEF CallKnows
  <2> QED BY <2>5, <1>1, SameTables, CallStep
<1>3. CASE CallFails(c)
  <2>1. pc'[c] = "idle"
    BY <1>3 DEF CallFails, Return, Goto, RegInv, RegTyped, RegistryTypeOK
  <2>2. CallKnows(c)'
    BY <2>1 DEF CallKnows
  <2> QED BY <2>2, <1>1, SameTables, CallStep
<1> QED BY <1>2, <1>3

LEMMA KeepLink ==
  ASSUME RegInv, RegTyped', NEW c \in Clients, Link(c)
  PROVE  RegInv'
<1>0. PICK o, n, i : o = op[c] /\ n = name[c] /\ i = target[c]
  OBVIOUS
<1>1. /\ UNCHANGED <<res, work, cut>> /\ pc[c] = "edge" /\ i \in Ids
      /\ edges' = edges \cup {<<o, i>>} /\ ops' = ops \cup {<<o, n>>}
      /\ \A d \in Clients : d # c => pc'[d] = pc[d]
      /\ pc'[c] = "idle"
  BY <1>0 DEF Link, Return, Goto, RegInv, RegTyped, CallTyped, RegistryTypeOK
<1>2. Answers(n, i)
  BY <1>0, <1>1 DEF RegInv, CallKnows
<1>3. \A m : Matches(m)' = Matches(m)
  BY <1>1 DEF Matches, Used, Exists
<1>4. \A m, j : Answers(m, j) <=> Answers(m, j)'
  BY <1>3 DEF Answers
<1>5. RowsInOrder' /\ Linked'
  BY <1>1 DEF RegInv, RowsInOrder, Linked, Used, Exists
<1>6. (HandingOver <=> HandingOver') /\ (Moving <=> Moving') /\ Loser' = Loser /\ Winner' = Winner
  BY <1>1 DEF HandingOver, Moving, Loser, Winner
<1>7. ~cut => OwnNames'
  BY <1>1, <1>4, <1>6 DEF RegInv, OwnNames, Keeps, Live, Exists
<1>8. ASSUME ~cut, NEW x \in ops' PROVE Reached(x)'
  <2>1. CASE x = <<o, n>>
    <3>1. Answers(x[2], i)' /\ <<x[1], i>> \in edges'
      BY <2>1, <1>1, <1>2, <1>4
    <3> QED BY <3>1, <1>1 DEF Reached
  <2>2. CASE x \in ops
    <3>1. Reached(x)
      BY <2>2, <1>8 DEF RegInv
    <3> QED BY <3>1, <1>1, <1>4, <1>6 DEF Reached
  <2> QED BY <2>1, <2>2, <1>1
<1>9. CallKnows(c)'
  BY <1>1 DEF CallKnows
<1> QED BY <1>1, <1>5, <1>7, <1>8, <1>9, CallStep

HasName(i, m) == m = res[i].name \/ m \in res[i].aliases

\* Resource t takes a name that nothing answered to.
LEMMA AddName ==
  ASSUME RegInv, NEW n \in Names, Matches(n) = {}, NEW t \in Ids, Exists(t)',
         \A j \in Ids : j # t => res'[j] = res[j],
         \A m : HasName(t, m)' <=> (m = n \/ (t \in Used /\ HasName(t, m)))
  PROVE  /\ Matches(n)' = {t}
         /\ \A m : m # n => Matches(m)' = Matches(m)
         /\ Answers(n, t)'
         /\ \A m, i : Answers(m, i) => Answers(m, i)'
         /\ Used' = Used \cup {t}
<1>1. Used' = Used \cup {t} /\ t \in Used' /\ Used \subseteq Ids
  BY DEF Used, Exists
<1>2. \A j \in Used : j \notin Matches(n)
  OBVIOUS
<1>3. Matches(n)' = {t}
  BY <1>1, <1>2 DEF Matches, HasName
<1>4. \A m : m # n => Matches(m)' = Matches(m)
  BY <1>1 DEF Matches, HasName
<1>5. t <= t
  BY RegistryAssumption DEF Ids
<1> QED BY <1>1, <1>3, <1>4, <1>5 DEF Answers

\* The step of a call that gives the name it resolves, n, to resource t.
TakesName(c, n, t) ==
  /\ pc[c] \in {"grow", "create"}
  /\ n \in Names /\ n = name[c] /\ t \in Ids /\ Exists(t)' /\ t = target'[c]
  /\ UNCHANGED <<edges, work, ops, cut, name>>
  /\ pc' = [pc EXCEPT ![c] = "record"]
  /\ \A j \in Ids : j # t => res'[j] = res[j]
  /\ \A m : HasName(t, m)' <=> (m = n \/ (t \in Used /\ HasName(t, m)))
  /\ res'[t].name \in res'[t].aliases
  /\ t \in Used => res'[t].by = res[t].by
  /\ t \notin Used => t = Cardinality(Used) + 1

LEMMA NameAdded ==
  ASSUME RegInv, RegTyped', NEW c \in Clients, NEW n, NEW t, TakesName(c, n, t)
  PROVE  RegInv'
<1> USE DEF TakesName
<1>1. Matches(n) = {}
  BY DEF RegInv, CallKnows
<1>2. /\ Matches(n)' = {t} /\ Answers(n, t)' /\ Used' = Used \cup {t}
      /\ \A m : m # n => Matches(m)' = Matches(m)
      /\ \A m, i : Answers(m, i) => Answers(m, i)'
  BY <1>1, AddName
<1>3. RowsInOrder'
  <2>1. ASSUME NEW i \in Used' PROVE (1..i) \subseteq Used'
    <3>1. CASE i \in Used
      BY <3>1, <1>2 DEF RegInv, RowsInOrder
    <3>2. CASE i \notin Used
      <4>1. i = t /\ t = Cardinality(Used) + 1
        BY <2>1, <3>2, <1>2
      <4>2. Used = 1..Cardinality(Used) /\ Cardinality(Used) \in Int
        <5>1. Cardinality(Used) + 1 \in Ids
          BY <4>1
        <5>2. Used \subseteq Ids /\ IsFiniteSet(Ids)
          BY RegistryAssumption, FS_Interval DEF Used, Ids
        <5>3. Cardinality(Used) \in Nat
          BY <5>2, FS_Subset, FS_CardinalityType
        <5> QED BY <5>3, UsedAre
      <4> QED BY <4>1, <4>2, <1>2
    <3> QED BY <3>1, <3>2
  <2>2. ASSUME NEW i \in Used' PROVE res'[i].name \in res'[i].aliases
    <3>1. CASE i = t
      BY <3>1
    <3>2. CASE i # t
      <4>1. i \in Used /\ i \in Ids
        BY <2>2, <3>2, <1>2 DEF Used
      <4> QED BY <3>2, <4>1 DEF RegInv, RowsInOrder
    <3> QED BY <3>1, <3>2
  <2> QED BY <2>1, <2>2 DEF RowsInOrder
<1>4. CallKnows(c)'
  <2>1. pc'[c] = "record"
    BY DEF RegInv, RegTyped, RegistryTypeOK
  <2> QED BY <2>1, <1>2 DEF CallKnows
<1>5. Linked'
  BY DEF RegInv, Linked
<1>6. (HandingOver <=> HandingOver') /\ (Moving <=> Moving') /\ Loser' = Loser /\ Winner' = Winner
  BY DEF HandingOver, Moving, Loser, Winner
<1>7. work.pc = "idle"
  BY DEF RegInv, RunsAlone
<1>8. ASSUME ~cut PROVE OwnNames'
  <2>1. ~HandingOver /\ ~HandingOver'
    BY <1>6, <1>7 DEF HandingOver
  <2>2. \A i \in Ids : \A m : Live(i) /\ m \in res[i].aliases =>
          /\ Answers(m, i)
          /\ \A j \in Ids : Live(j) /\ m \in res[j].aliases => j = i
    BY <1>8, <2>1 DEF RegInv, OwnNames, Keeps
  <2>3. ASSUME NEW i \in Ids, Live(i)', NEW m \in res'[i].aliases, ~(i = t /\ m = n)
        PROVE  Live(i) /\ m \in res[i].aliases /\ m # n
    <3>1. CASE i # t
      <4>1. Live(i) /\ m \in res[i].aliases /\ i \in Used
        BY <2>3, <3>1 DEF Live, Exists, Used
      <4> QED BY <4>1, <1>1 DEF Matches
    <3>2. CASE i = t
      <4>1. t \in Used /\ (m = res[t].name \/ m \in res[t].aliases)
        BY <2>3, <3>2 DEF HasName
      <4> QED BY <2>3, <3>2, <4>1 DEF Live, Exists, RegInv, RowsInOrder, Used
    <3> QED BY <3>1, <3>2
  <2>4. \A i \in Ids : Live(i)' => \A m \in res'[i].aliases : Answers(m, i)'
    BY <1>2, <2>2, <2>3
  <2>5. ASSUME NEW i \in Ids, NEW j \in Ids, Live(i)', Live(j)',
               NEW m \in res'[i].aliases, m \in res'[j].aliases
        PROVE  j = i
    BY <2>2, <2>3, <2>5
  <2> QED BY <2>1, <2>4, <2>5 DEF OwnNames, Keeps
<1>9. ASSUME ~cut, NEW o \in ops' PROVE Reached(o)'
  BY <1>2, <1>6, <1>9 DEF RegInv, Reached
<1>10. \A d \in Clients : d # c => pc'[d] = pc[d]
  BY DEF RegInv, RegTyped, RegistryTypeOK
<1> QED BY <1>3, <1>4, <1>5, <1>8, <1>9, <1>10, CallStep

LEMMA GrowTakes ==
  ASSUME RegInv, NEW c \in Clients, Grow(c)
  PROVE  \E n, t : TakesName(c, n, t)
<1>0. PICK n, t : n = name[c] /\ t = target[c]
  OBVIOUS
<1> DEFINE r == [hit[c] EXCEPT !.aliases = hit[c].aliases \cup {n}, !.embedded = TRUE]
<1>1. /\ pc[c] = "grow" /\ t \in Ids /\ n \in Names /\ Exists(t) /\ t \in Used
      /\ hit[c] \in Resource /\ hit[c] = res[t] /\ Home[c] \in Procs /\ RegTyped
  BY <1>0, RegistryAssumption DEF Grow, RegInv, RegTyped, CallTyped, CallKnows, Used
<1>2. /\ r \in Resource /\ r.name = res[t].name /\ r.aliases = res[t].aliases \cup {n}
      /\ r.by = res[t].by
  <2>1. hit[c].aliases \cup {n} \in SUBSET Names
    BY <1>1 DEF Resource
  <2>2. r \in Resource
    BY <1>1, <2>1, RowTyped
  <2> QED BY <2>2, <1>1 DEF Resource
<1>3. Put(Home[c], t, r)
  BY <1>0 DEF Grow
<1> HIDE DEF r
<1>4. res'[t] = r /\ Exists(t)' /\ \A j \in Ids : j # t => res'[j] = res[j]
  BY <1>1, <1>2, <1>3, PutTyped
<1>5. /\ UNCHANGED <<edges, work, ops, cut, name>> /\ t = target'[c]
      /\ pc' = [pc EXCEPT ![c] = "record"]
  BY <1>0 DEF Grow, Goto
<1>6. res[t].name \in res[t].aliases
  BY <1>1 DEF RegInv, RowsInOrder
<1>7. \A m : HasName(t, m)' <=> (m = n \/ (t \in Used /\ HasName(t, m)))
  BY <1>1, <1>2, <1>4, <1>6 DEF HasName
<1> QED BY <1>0, <1>1, <1>2, <1>4, <1>5, <1>6, <1>7 DEF TakesName

LEMMA CreateTakes ==
  ASSUME RegInv, NEW c \in Clients, Create(c)
  PROVE  \E n, t : TakesName(c, n, t)
<1>0. PICK n, t : n = name[c] /\ t = Cardinality(Used) + 1
  OBVIOUS
<1> DEFINE r == [name |-> n, aliases |-> {n}, by |-> NoResource, embedded |-> TRUE]
<1>1. /\ pc[c] = "create" /\ t \in Ids /\ n \in Names /\ Home[c] \in Procs /\ RegTyped
  BY <1>0, NextId, RegistryAssumption DEF Create, RegInv, RegTyped, CallTyped
<1>2. r \in Resource /\ r.name = n /\ r.aliases = {n}
  BY <1>1 DEF Resource
<1>3. Put(Home[c], t, r) /\ target' = [target EXCEPT ![c] = t]
  BY <1>0 DEF Create
<1> HIDE DEF r
<1>4. res'[t] = r /\ Exists(t)' /\ \A j \in Ids : j # t => res'[j] = res[j]
  BY <1>1, <1>2, <1>3, PutTyped
<1>5. /\ UNCHANGED <<edges, work, ops, cut, name>> /\ t = target'[c]
      /\ pc' = [pc EXCEPT ![c] = "record"]
  BY <1>1, <1>3 DEF Create, Goto, RegTyped, RegistryTypeOK
<1>6. t \notin Used
  <2>1. Used = 1..Cardinality(Used) /\ Cardinality(Used) \in Nat
    BY UsedAre, NextId DEF Create
  <2> QED BY <2>1, <1>0
<1>7. \A m : HasName(t, m)' <=> (m = n \/ (t \in Used /\ HasName(t, m)))
  BY <1>2, <1>4, <1>6 DEF HasName
<1> QED BY <1>0, <1>1, <1>2, <1>4, <1>5, <1>6, <1>7 DEF TakesName

\* A step that leaves the registry as it is.
LEMMA KeepSame ==
  ASSUME RegInv, RegTyped', UNCHANGED <<res, edges, calls, work, ops, cut>>
  PROVE  RegInv'
<1>1. UNCHANGED <<pc, name, hit, target, op>>
  BY DEF calls
<1>2. RunsAlone' /\ PassKnows' /\ EdgesFollow'
  BY <1>1 DEF RegInv, RunsAlone, PassKnows, EdgesFollow, HandingOver, Moving, Winner, Loser, Live,
              Exists
<1>3. ASSUME NEW c \in Clients PROVE CallKnows(c)'
  <2>1. PICK n, i : n = name[c] /\ i = target[c]
    OBVIOUS
  <2>2. (Answers(n, i) <=> Answers(n, i)') /\ Matches(n)' = Matches(n)
    BY SameTables
  <2>3. CallKnows(c)
    BY DEF RegInv
  <2> QED BY <1>1, <2>1, <2>2, <2>3 DEF CallKnows
<1> QED BY <1>2, <1>3, SameTables DEF RegInv

\* A merge pass is under way, or about to be: no call is.
LEMMA MergeStep ==
  ASSUME RegInv, RegTyped', work.pc # "idle" \/ Quiescent, UNCHANGED calls,
         RowsInOrder', PassKnows', EdgesFollow', Linked',
         ~cut' => OwnNames' /\ \A o \in ops' : Reached(o)'
  PROVE  RegInv'
<1>1. \A c \in Clients : pc'[c] = "idle"
  BY DEF RegInv, RunsAlone, Quiescent, calls
<1>2. RunsAlone' /\ \A c \in Clients : CallKnows(c)'
  BY <1>1 DEF RunsAlone, CallKnows
<1> QED BY <1>2 DEF RegInv

LEMMA SameRows ==
  ASSUME RegInv, UNCHANGED res
  PROVE  /\ RowsInOrder'
         /\ \A n, i : Answers(n, i) <=> Answers(n, i)'
<1>1. \A n : Matches(n)' = Matches(n)
  BY DEF Matches, Used, Exists
<1> QED BY <1>1 DEF RegInv, RowsInOrder, Answers, Used, Exists

\* A statement of the pass that writes nothing.
LEMMA QuietStep ==
  ASSUME RegInv, RegTyped', work.pc # "idle" \/ Quiescent,
         UNCHANGED <<res, edges, calls, ops, cut>>, PassKnows', EdgesFollow',
         HandingOver <=> HandingOver', Moving <=> Moving',
         HandingOver => Loser' = Loser /\ Winner' = Winner,
         work'.pc = "rebuild" => \A o \in 1..MaxOps : <<o, Loser>> \in edges => o \in work'.todo
  PROVE  RegInv'
<1>1. RowsInOrder' /\ \A n, i : Answers(n, i) <=> Answers(n, i)'
  BY SameRows
<1>2. Linked'
  BY DEF RegInv, Linked
<1>3. ~cut' => OwnNames'
  BY <1>1 DEF RegInv, OwnNames, Keeps, Live, Exists
<1>4. ASSUME ~cut', NEW o \in ops' PROVE Reached(o)'
  <2>1. o[1] \in 1..MaxOps /\ Reached(o)
    BY <1>4 DEF RegInv, RegTyped, RegistryTypeOK
  <2>2. PICK i \in Ids : /\ Answers(o[2], i)
                         /\ \/ <<o[1], i>> \in edges
                            \/ Moving /\ i = Winner /\ <<o[1], Loser>> \in edges
    BY <2>1 DEF Reached
  <2>3. Answers(o[2], i)'
    BY <2>2, <1>1
  <2>4. CASE <<o[1], i>> \in edges
    BY <2>3, <2>4 DEF Reached
  <2>5. CASE Moving /\ i = Winner /\ <<o[1], Loser>> \in edges
    <3>1. HandingOver
      BY <2>5 DEF HandingOver, Moving
    <3>2. Moving' /\ i = Winner' /\ <<o[1], Loser'>> \in edges'
      BY <2>5, <3>1
    <3>3. work'.pc = "rebuild" => o[1] \in work'.todo
      BY <2>1, <2>5
    <3> QED BY <2>3, <3>2, <3>3 DEF Reached
  <2> QED BY <2>2, <2>4, <2>5
<1> QED BY <1>1, <1>2, <1>3, <1>4, MergeStep

LEMMA KeepBegin ==
  ASSUME ~Overlap, RegInv, RegTyped', BeginMerge
  PROVE  RegInv'
<1>1. /\ UNCHANGED <<res, edges, calls, ops, cut>> /\ Quiescent /\ work.pc = "idle"
  BY DEF BeginMerge, db
<1>2. PICK rows : rows = [i \in {j \in Ids : Live(j)} |-> res[i]]
  OBVIOUS
<1>3. work' = [IdlePass EXCEPT !.pc = "pair", !.live = rows]
  BY <1>2 DEF BeginMerge
<1>4. work'.pc = "pair" /\ work'.live = rows
  BY <1>3 DEF IdlePass
<1>5. DOMAIN rows = {j \in Ids : Live(j)} /\ \A i \in DOMAIN rows : rows[i] = res[i]
  BY <1>2
<1>6. PassKnows' /\ EdgesFollow'
  BY <1>1, <1>4, <1>5 DEF PassKnows, EdgesFollow, HandingOver, Moving
<1>7. ~HandingOver /\ ~HandingOver' /\ ~Moving /\ ~Moving'
  BY <1>1, <1>4 DEF HandingOver, Moving
<1> QED BY <1>1, <1>4, <1>6, <1>7, QuietStep

LEMMA KeepConfirm ==
  ASSUME RegInv, RegTyped', Confirm
  PROVE  RegInv'
<1>1. UNCHANGED <<res, edges, calls, ops, cut>> /\ work.pc = "pair" /\ RegTyped
  BY DEF Confirm, db, RegInv
<1>2. PICK i \in DOMAIN work.live, j \in DOMAIN work.live :
        /\ work.live[i].by = NoResource /\ work.live[j].by = NoResource
        /\ work' = [work EXCEPT !.pc = "absorb", !.at = <<i, j>>]
  BY DEF Confirm
<1>3. work'.pc = "absorb" /\ work'.at = <<i, j>> /\ work'.live = work.live
  BY <1>1, <1>2, PassIs DEF PassRecord
<1>4. Live(j)
  BY <1>1, <1>2, PassIs DEF RegInv, PassKnows, Live
<1>5. Live(Loser)'
  BY <1>1, <1>3, <1>4 DEF Live, Exists, Loser
<1>6. PassKnows' /\ EdgesFollow'
  BY <1>1, <1>2, <1>3, <1>5 DEF RegInv, PassKnows, EdgesFollow, HandingOver, Moving, Winner, Loser
<1>7. ~HandingOver /\ ~HandingOver' /\ ~Moving /\ ~Moving'
  BY <1>1, <1>3 DEF HandingOver, Moving
<1> QED BY <1>1, <1>3, <1>6, <1>7, QuietStep

LEMMA KeepReadEdges ==
  ASSUME RegInv, RegTyped', ReadEdges
  PROVE  RegInv'
<1>1. UNCHANGED <<res, edges, calls, ops, cut>> /\ work.pc = "neighbors" /\ RegTyped
  BY DEF ReadEdges, db, RegInv
<1>2. PICK S : S = LoserOps
  OBVIOUS
<1>3. /\ work'.pc = "rebuild" /\ work'.at = work.at /\ work'.live = work.live
      /\ work'.todo = S
  BY <1>1, <1>2, PassIs DEF ReadEdges, PassRecord
<1>4. \A o : <<o, Loser>> \in edges <=> o \in S
  BY <1>2 DEF LoserOps, RegTyped, RegistryTypeOK, RegInv
<1>5. Winner' = Winner /\ Loser' = Loser
  BY <1>3 DEF Winner, Loser
<1>6. /\ HandingOver /\ HandingOver' /\ Moving /\ Moving'
  BY <1>1, <1>3 DEF HandingOver, Moving
<1>7. PassKnows'
  BY <1>1, <1>3, <1>5, <1>6 DEF RegInv, PassKnows, Live, Exists
<1>8. EdgesFollow'
  BY <1>1, <1>3, <1>4, <1>5 DEF EdgesFollow
<1> QED BY <1>1, <1>3, <1>4, <1>5, <1>6, <1>7, <1>8, QuietStep

LEMMA KeepRetire ==
  ASSUME RegInv, RegTyped', RetireLoser
  PROVE  RegInv'
<1>1. UNCHANGED <<res, edges, calls, ops, cut>> /\ work.pc = "retire" /\ RegTyped
  BY DEF RetireLoser, db, RegInv
<1>2. PICK win, los, S : win = Winner /\ los = Loser /\ S = LoserOps
  OBVIOUS
<1>3. /\ win \in DOMAIN work.live /\ los \in DOMAIN work.live /\ win < los /\ win # los
      /\ win \in Ids /\ los \in Ids /\ work.live[los] \in Resource
      /\ win # NoResource
  BY <1>1, <1>2, PassIs, RegistryAssumption DEF PassRecord, Winner, Loser, Ids
<1>4. /\ work'.pc = "close" /\ work'.at = work.at /\ work'.todo = S
      /\ work'.live = [work.live EXCEPT ![los] = [work.live[los] EXCEPT !.by = win]]
  BY <1>1, <1>2, PassIs DEF RetireLoser, PassRecord
<1>5. /\ \A i \in DOMAIN work.live : i # los => work'.live[i] = work.live[i]
      /\ DOMAIN work'.live = DOMAIN work.live
      /\ work'.live[los].by = win /\ work'.live[los].name = work.live[los].name
      /\ work'.live[los].aliases = work.live[los].aliases
  BY <1>1, <1>3, <1>4, PassIs DEF PassRecord, Resource
<1>6. Winner' = Winner /\ Loser' = Loser
  BY <1>4 DEF Winner, Loser
<1>7. /\ HandingOver /\ HandingOver' /\ ~Moving /\ ~Moving'
  BY <1>1, <1>4 DEF HandingOver, Moving
<1>8. PassKnows'
  <2>1. /\ \A i \in DOMAIN work.live :
             /\ res[i].name = work.live[i].name /\ res[i].aliases = work.live[i].aliases
             /\ work.live[i].by = NoResource => res[i].by = NoResource
        /\ work.live[win].by = NoResource /\ Live(los)
        /\ res[los].aliases \subseteq res[win].aliases
    BY <1>1, <1>2, <1>7 DEF RegInv, PassKnows
  <2>2. \A i \in DOMAIN work'.live :
             /\ res'[i].name = work'.live[i].name /\ res'[i].aliases = work'.live[i].aliases
             /\ work'.live[i].by = NoResource => res'[i].by = NoResource
    <3> TAKE i \in DOMAIN work'.live
    <3>1. CASE i = los
      BY <3>1, <1>1, <1>3, <1>5, <2>1
    <3>2. CASE i # los
      BY <3>2, <1>1, <1>5, <2>1
    <3> QED BY <3>1, <3>2
  <2>3. Live(los)' /\ work'.live[win].by = NoResource
    BY <2>1, <1>1, <1>3, <1>5 DEF Live, Exists
  <2>4. win = Winner' /\ los = Loser'
    BY <1>2, <1>6
  <2>5. Live(Loser)'
    BY <2>3, <2>4 DEF Live, Exists
  <2> QED BY <1>1, <1>4, <1>5, <2>1, <2>2, <2>3, <2>4, <2>5 DEF PassKnows
<1>9. EdgesFollow'
  <2>1. \A o \in S : o \in 1..MaxOps /\ <<o, los>> \in edges
    BY <1>2 DEF LoserOps, RegInv, RegTyped, RegistryTypeOK
  <2>2. \A o \in S : <<o, win>> \in edges
    BY <2>1, <1>1, <1>2 DEF RegInv, EdgesFollow
  <2> QED BY <1>1, <1>2, <1>4, <1>6, <2>2 DEF EdgesFollow
<1> QED BY <1>1, <1>4, <1>6, <1>7, <1>8, <1>9, QuietStep

LEMMA KeepEnd ==
  ASSUME RegInv, RegTyped', EndMerge \/ PassFails
  PROVE  RegInv'
<1>1. UNCHANGED <<res, edges, calls, ops>> /\ work.pc # "idle" /\ work' = IdlePass
  BY DEF EndMerge, PassFails, db
<1>2. work'.pc = "idle"
  BY <1>1 DEF IdlePass
<1>3. PassKnows' /\ EdgesFollow'
  BY <1>2 DEF PassKnows, EdgesFollow, HandingOver, Moving
<1>4. CASE EndMerge
  <2>1. cut' = cut /\ ~HandingOver /\ ~HandingOver' /\ ~Moving /\ ~Moving'
    BY <1>2, <1>4 DEF EndMerge, HandingOver, Moving
  <2> QED BY <1>1, <1>2, <1>3, <2>1, QuietStep
<1>5. CASE PassFails
  <2>1. cut' /\ Linked' /\ RowsInOrder'
    BY <1>1, <1>5, SameRows DEF PassFails, RegInv, Linked
  <2> QED BY <1>1, <1>3, <2>1, MergeStep
<1> QED BY <1>4, <1>5

\* What Absorb does: the names of los become names of win too.
Absorbs(win, los, taken) ==
  /\ RegTyped /\ RegTyped'
  /\ work.pc = "absorb" /\ work'.pc = "neighbors" /\ work'.at = work.at
  /\ win \in Ids /\ los \in Ids /\ win < los /\ win # los
  /\ win \in DOMAIN work.live /\ los \in DOMAIN work.live
  /\ UNCHANGED <<edges, calls, ops, cut>>
  /\ work.live[win].by = NoResource /\ work.live[los].by = NoResource
  /\ DOMAIN work'.live = DOMAIN work.live
  /\ work'.live[win].name = res[win].name /\ work'.live[win].by = NoResource
  /\ work'.live[win].aliases = taken
  /\ \A i \in DOMAIN work.live : i # win => work'.live[i] = work.live[i]
  /\ Live(los) /\ res'[win].by = NoResource
  /\ res'[win].name = res[win].name /\ res'[win].aliases = taken
  /\ Used' = Used /\ Used \subseteq Ids /\ win \in Used /\ los \in Used
  /\ \A i \in Ids : i # win => res'[i] = res[i]
  /\ \A i \in Ids : /\ res'[i].name = res[i].name /\ res'[i].by = res[i].by
                    /\ Live(i) <=> Live(i)'
                    /\ res'[i].aliases = IF i = win THEN taken ELSE res[i].aliases
  /\ RowsInOrder'
  /\ \A n : Matches(n) = {i \in Used : n \in res[i].aliases}
  /\ \A n : Matches(n)' = Matches(n) \cup (IF n \in res[los].aliases THEN {win} ELSE {})

LEMMA AbsorbRows ==
  ASSUME RegInv, Absorb, NEW win, NEW los, win = Winner, los = Loser,
         NEW taken, taken = res[win].aliases \cup res[los].aliases
  PROVE  Absorbs(win, los, taken)
<1>0. win = Winner /\ los = Loser
  OBVIOUS
<1> DEFINE all == work.live[win].aliases \cup work.live[los].aliases
<1>1. /\ work.pc = "absorb" /\ RegTyped /\ RegTyped'
      /\ win \in Ids /\ los \in Ids /\ win < los /\ win # los
      /\ win \in DOMAIN work.live /\ los \in DOMAIN work.live
      /\ work'.pc = "neighbors" /\ work'.at = work.at
      /\ work'.live = [work.live EXCEPT ![win] = [work.live[win] EXCEPT !.aliases = all]]
      /\ UNCHANGED <<edges, calls, ops, cut>>
      /\ \A i \in Ids : i # win => res'[i] = res[i]
      /\ \/ res' = res /\ work.live[los].aliases \subseteq work.live[win].aliases
         \/ res'[win] = [work.live[win] EXCEPT !.aliases = all, !.embedded = TRUE]
  <2>1. RegTyped
    BY DEF RegInv
  <2>2. win = work.at[1] /\ work.pc = "absorb"
    BY <1>0 DEF Winner, Absorb
  <2>3. win \in Ids /\ los \in Ids /\ win < los
    BY <2>1, <1>0, TypedAbsorb
  <2>4. win # los
    BY <2>3, RegistryAssumption DEF Ids
  <2> QED BY <2>1, <2>2, <2>3, <2>4, <1>0, TypedAbsorb
<1>2. /\ work.live[win] \in Resource /\ work.live[los] \in Resource
      /\ res[win].name = work.live[win].name /\ res[win].aliases = work.live[win].aliases
      /\ res[los].aliases = work.live[los].aliases
      /\ work.live[win].by = NoResource /\ work.live[los].by = NoResource
      /\ res[win].by = NoResource /\ Live(los) /\ Exists(win)
  BY <1>0, <1>1, PassIs DEF RegInv, PassKnows, PassRecord
<1>3. taken = res[win].aliases \cup res[los].aliases
  OBVIOUS
<1>4. /\ res'[win].name = res[win].name /\ res'[win].aliases = taken
      /\ res'[win].by = NoResource /\ Exists(win)'
  <2>1. CASE res' = res /\ work.live[los].aliases \subseteq work.live[win].aliases
    BY <2>1, <1>2, <1>3 DEF Exists
  <2>2. CASE res'[win] = [work.live[win] EXCEPT !.aliases = all, !.embedded = TRUE]
    <3>1. all \in SUBSET Names
      BY <1>2 DEF Resource
    <3>2. [work.live[win] EXCEPT !.aliases = all, !.embedded = TRUE] \in Resource
      BY <1>2, <3>1, RowTyped
    <3>3. res'[win] # NoResource
      BY <2>2, <3>2, RegistryAssumption
    <3> QED BY <2>2, <1>2, <1>3, <3>3 DEF Exists, Resource
  <2> QED BY <1>1, <2>1, <2>2
<1>5. /\ work'.live[win].name = res[win].name /\ work'.live[win].aliases = taken
      /\ work'.live[win].by = NoResource /\ DOMAIN work'.live = DOMAIN work.live
      /\ \A i \in DOMAIN work.live : i # win => work'.live[i] = work.live[i]
  <2>1. work.live = [i \in DOMAIN work.live |-> work.live[i]]
    BY <1>1, PassIs DEF PassRecord
  <2>2. work'.live[win] = [work.live[win] EXCEPT !.aliases = all]
    BY <1>1, <2>1
  <2> QED BY <1>1, <1>2, <1>3, <2>1, <2>2 DEF Resource
<1> HIDE DEF all
<1>6. Used' = Used /\ Used \subseteq Ids /\ win \in Used /\ los \in Used
  BY <1>1, <1>2, <1>4 DEF Used, Exists, Live
<1>7. \A i \in Ids : res'[i].name = res[i].name /\ res'[i].by = res[i].by
                     /\ (Live(i) <=> Live(i)')
                     /\ res'[i].aliases = IF i = win THEN taken ELSE res[i].aliases
  BY <1>1, <1>2, <1>4 DEF Live, Exists
<1>8. RowsInOrder'
  <2>1. \A i \in Used : (1..i) \subseteq Used /\ res[i].name \in res[i].aliases
    BY DEF RegInv, RowsInOrder
  <2>2. \A i \in Used : res'[i].name \in res'[i].aliases
    BY <2>1, <1>3, <1>6, <1>7
  <2> QED BY <2>1, <2>2, <1>6 DEF RowsInOrder
<1>9. /\ \A n : Matches(n) = {i \in Used : n \in res[i].aliases}
      /\ \A n : Matches(n)' = {i \in Used : n \in res'[i].aliases}
  <2>1. \A n : Matches(n)' = {i \in Used : n \in res'[i].aliases}
    BY <1>6, <1>8 DEF Matches, RowsInOrder
  <2> QED BY <2>1, MatchesAre
<1>10. \A n : Matches(n)' = Matches(n) \cup (IF n \in res[los].aliases THEN {win} ELSE {})
  BY <1>3, <1>6, <1>7, <1>9
<1> QED BY <1>1, <1>2, <1>3, <1>4, <1>5, <1>6, <1>7, <1>8, <1>9, <1>10 DEF Absorbs

\* The winner takes the loser's aliases: from here it answers first to them.
LEMMA KeepAbsorb ==
  ASSUME RegInv, Absorb
  PROVE  RegInv'
<1>0. PICK win, los : win = Winner /\ los = Loser
  OBVIOUS
<1>3. PICK taken : taken = res[win].aliases \cup res[los].aliases /\ Absorbs(win, los, taken)
  BY <1>0, AbsorbRows
<1>1. /\ RegTyped /\ RegTyped'
      /\ work.pc = "absorb" /\ work'.pc = "neighbors" /\ work'.at = work.at
      /\ win \in Ids /\ los \in Ids /\ win < los /\ win # los
      /\ win \in DOMAIN work.live /\ los \in DOMAIN work.live
      /\ UNCHANGED <<edges, calls, ops, cut>>
      /\ \A i \in Ids : i # win => res'[i] = res[i]
  BY <1>3 DEF Absorbs
<1>2. work.live[los].by = NoResource /\ Live(los)
  BY <1>3 DEF Absorbs
<1>4. res'[win].by = NoResource /\ res'[win].name = res[win].name /\ res'[win].aliases = taken
  BY <1>3 DEF Absorbs
<1>5. /\ work'.live[win].name = res[win].name /\ work'.live[win].aliases = taken
      /\ work'.live[win].by = NoResource /\ DOMAIN work'.live = DOMAIN work.live
      /\ \A i \in DOMAIN work.live : i # win => work'.live[i] = work.live[i]
  BY <1>3 DEF Absorbs
<1>6. Used' = Used /\ Used \subseteq Ids /\ win \in Used /\ los \in Used
  BY <1>3 DEF Absorbs
<1>7. \A i \in Ids : /\ res'[i].name = res[i].name /\ res'[i].by = res[i].by
                     /\ Live(i) <=> Live(i)'
                     /\ res'[i].aliases = IF i = win THEN taken ELSE res[i].aliases
  BY <1>3 DEF Absorbs
<1>8. RowsInOrder'
  BY <1>3 DEF Absorbs
<1>9. \A n : Matches(n) = {i \in Used : n \in res[i].aliases}
  BY <1>3 DEF Absorbs
<1>10. \A n : Matches(n)' = Matches(n) \cup (IF n \in res[los].aliases THEN {win} ELSE {})
  BY <1>3 DEF Absorbs
<1>11. ~HandingOver /\ HandingOver' /\ ~Moving /\ Moving' /\ Loser' = los /\ Winner' = win
  BY <1>0, <1>1 DEF HandingOver, Moving, Winner, Loser
<1>12. PassKnows'
  <2>1. \A i \in DOMAIN work'.live :
             /\ res'[i].name = work'.live[i].name /\ res'[i].aliases = work'.live[i].aliases
             /\ work'.live[i].by = NoResource => res'[i].by = NoResource
    <3> TAKE i \in DOMAIN work'.live
    <3>1. CASE i = win
      BY <3>1, <1>4, <1>5
    <3>2. CASE i # win
      <4>1. i \in DOMAIN work.live /\ i \in Ids
        BY <1>1, <1>5, PassIs DEF PassRecord
      <4> QED BY <3>2, <4>1, <1>1, <1>5 DEF RegInv, PassKnows
    <3> QED BY <3>1, <3>2
  <2>2. Live(los)' /\ work'.live[los].by = NoResource
    BY <1>1, <1>2, <1>5, <1>7
  <2>3. Live(Loser)'
    BY <2>2, <1>11 DEF Live, Exists
  <2>4. res'[los].aliases \subseteq res'[win].aliases
    BY <1>1, <1>3, <1>7
  <2>5. work'.live[win].by = NoResource
    BY <1>5
  <2> QED BY <1>1, <1>11, <2>1, <2>2, <2>3, <2>4, <2>5 DEF PassKnows
<1>13. EdgesFollow' /\ Linked'
  BY <1>1 DEF EdgesFollow, Linked, RegInv
<1>14. ~cut => \A i \in Ids : Live(i) => \A n \in res[i].aliases :
         Answers(n, i) /\ \A j \in Ids : Live(j) /\ n \in res[j].aliases => j = i
  BY <1>11 DEF RegInv, OwnNames, Keeps
\* A name of the loser had the loser as its owner, so the older winner comes first.
<1>15. ASSUME ~cut, NEW n, n \in res[los].aliases PROVE Answers(n, los) /\ Answers(n, win)'
  <2>1. Answers(n, los)
    BY <1>1, <1>2, <1>14, <1>15
  <2>2. ASSUME InOrder PROVE \A j \in Matches(n)' : win <= j
    <3> TAKE j \in Matches(n)'
    <3>1. win \in Int /\ los \in Int /\ j \in Int
      <4>1. j \in Matches(n) \/ j = win
        BY <1>10
      <4>2. j \in Ids
        BY <4>1, <1>1, <1>6, <1>9
      <4> QED BY <4>2, <1>1, RegistryAssumption DEF Ids
    <3>2. CASE j = win
      BY <3>1, <3>2
    <3>3. CASE j \in Matches(n)
      BY <3>1, <3>3, <2>1, <2>2, <1>1 DEF Answers
    <3> QED BY <3>2, <3>3, <1>10
  <2>3. win \in Matches(n)'
    BY <1>10, <1>15
  <2> QED BY <2>1, <2>2, <2>3 DEF Answers
<1>16. ASSUME NEW n, n \notin res[los].aliases, NEW i, Answers(n, i) PROVE Answers(n, i)'
  <2>1. Matches(n)' = Matches(n)
    BY <1>10, <1>16
  <2> QED BY <2>1, <1>16 DEF Answers
<1>17. ASSUME ~cut PROVE OwnNames'
  <2>1. \A i \in Ids : \A n : Live(i)' /\ i # los /\ n \in res[los].aliases /\ n \in res'[i].aliases
          => i = win
    BY <1>1, <1>2, <1>7, <1>14, <1>17
  <2>2. \A i \in Ids : \A n : Live(i)' /\ n \notin res[los].aliases /\ n \in res'[i].aliases
          => Live(i) /\ n \in res[i].aliases
    BY <1>3, <1>7
  <2>3. \A i \in Ids : Live(i)' /\ i # los => \A n \in res'[i].aliases : Answers(n, i)'
    BY <2>1, <2>2, <1>14, <1>15, <1>16, <1>17
  <2>4. ASSUME NEW i \in Ids, NEW j \in Ids, Live(i)', Live(j)', i # los, j # los,
               NEW n \in res'[i].aliases, n \in res'[j].aliases
        PROVE  j = i
    <3>1. CASE n \in res[los].aliases
      BY <2>1, <2>4, <3>1
    <3>2. CASE n \notin res[los].aliases
      BY <2>2, <2>4, <3>2, <1>14, <1>17
    <3> QED BY <3>1, <3>2
  <2> QED BY <2>3, <2>4, <1>11 DEF OwnNames, Keeps
<1>18. ASSUME ~cut, NEW o \in ops PROVE Reached(o)'
  <2>1. PICK i \in Ids : Answers(o[2], i) /\ <<o[1], i>> \in edges
    BY <1>11, <1>18 DEF RegInv, Reached
  <2>2. CASE o[2] \in res[los].aliases
    <3>1. Answers(o[2], win)'
      BY <2>2, <1>15, <1>18
    <3>2. CASE i = los
      BY <3>1, <3>2, <2>1, <1>1, <1>11 DEF Reached
    <3>3. CASE ~InOrder
      <4>1. Answers(o[2], i)'
        BY <3>3, <2>1, <1>10 DEF Answers
      <4> QED BY <4>1, <2>1, <1>1 DEF Reached
    <3>4. CASE InOrder
      <4>1. i = los
        BY <3>4, <2>1, <2>2, <1>1, <1>15, <1>18, OneAnswers
      <4> QED BY <4>1, <3>2
    <3> QED BY <3>3, <3>4
  <2>3. CASE o[2] \notin res[los].aliases
    <3>1. Answers(o[2], i)'
      BY <2>1, <2>3, <1>16
    <3> QED BY <3>1, <2>1, <1>1 DEF Reached
  <2> QED BY <2>2, <2>3
<1>19. work.pc # "idle"
  BY <1>1
<1> QED BY <1>1, <1>8, <1>12, <1>13, <1>17, <1>18, <1>19, MergeStep

\* Edges to the winner are written before those to the loser are closed.
LEMMA KeepEdges ==
  ASSUME RegInv, Rebuild \/ CloseEdge
  PROVE  RegInv'
<1>0. PICK win, los : win = Winner /\ los = Loser
  OBVIOUS
<1>1. /\ RegTyped /\ RegTyped' /\ UNCHANGED <<res, calls, ops, cut>>
      /\ work'.live = work.live /\ work'.at = work.at
      /\ work.pc \in {"rebuild", "close"} /\ Winner' = win /\ Loser' = los
  BY <1>0, TypedEdges DEF RegInv, Winner, Loser
<1>2. \/ /\ work.todo = {} /\ edges' = edges /\ work'.todo = {}
         /\ work'.pc = IF work.pc = "rebuild" THEN "retire" ELSE "mark"
      \/ \E o \in work.todo :
           /\ work'.pc = work.pc /\ work'.todo = work.todo \ {o}
           /\ edges' = IF work.pc = "rebuild" THEN edges \cup {<<o, win>>}
                                              ELSE edges \ {<<o, los>>}
  BY <1>0, TypedEdges DEF RegInv
<1>3. RowsInOrder' /\ \A n, i : Answers(n, i) <=> Answers(n, i)'
  BY <1>1, SameRows
<1>4. /\ win \in Ids /\ los \in Ids /\ win < los /\ win # los /\ Exists(win) /\ work.todo \subseteq 1..MaxOps
      /\ win \in Int /\ los \in Int
  BY <1>0, <1>1, PassIs, RegistryAssumption DEF PassRecord, Winner, Loser, Ids
<1>5. HandingOver /\ HandingOver'
  BY <1>1, <1>2 DEF HandingOver, Moving
<1>6. PassKnows'
  <2>1. /\ \A i \in DOMAIN work.live :
             /\ res[i].name = work.live[i].name /\ res[i].aliases = work.live[i].aliases
             /\ work.live[i].by = NoResource => res[i].by = NoResource
        /\ work.live[win].by = NoResource /\ Live(los)
        /\ work.pc = "rebuild" => work.live[los].by = NoResource
        /\ work.pc = "close" => work.live[los].by = win
        /\ res[los].aliases \subseteq res[win].aliases
    BY <1>0, <1>1, <1>5 DEF RegInv, PassKnows
  <2>2. Live(Loser)'
    BY <2>1, <1>1 DEF Live, Exists
  <2> QED BY <1>1, <1>2, <2>1, <2>2 DEF PassKnows
<1>7. ~cut' => OwnNames'
  BY <1>0, <1>1, <1>3, <1>5 DEF RegInv, OwnNames, Keeps, Live, Exists
<1>8. \A o \in ops : o[1] \in 1..MaxOps
  BY <1>1 DEF RegTyped, RegistryTypeOK
<1>9. CASE work.pc = "rebuild"
  <2>1. /\ \A o \in 1..MaxOps : <<o, los>> \in edges => o \in work.todo \/ <<o, win>> \in edges
        /\ \A o \in work.todo : <<o, los>> \in edges
    BY <1>0, <1>9 DEF RegInv, EdgesFollow
  <2>2. EdgesFollow'
    BY <1>1, <1>2, <1>4, <1>9, <2>1 DEF EdgesFollow
  <2>3. Linked'
    BY <1>1, <1>2, <1>9 DEF RegInv, Linked
  <2>4. ASSUME ~cut', NEW o \in ops' PROVE Reached(o)'
    <3>1. PICK i \in Ids : /\ Answers(o[2], i)
                           /\ \/ <<o[1], i>> \in edges
                              \/ i = win /\ <<o[1], los>> \in edges /\ o[1] \in work.todo
      BY <1>0, <1>1, <1>9, <2>4 DEF RegInv, Reached
    <3>2. Answers(o[2], i)'
      BY <3>1, <1>3
    <3>3. \/ <<o[1], i>> \in edges'
          \/ /\ i = win /\ <<o[1], los>> \in edges' /\ o[1] \in work'.todo
             /\ work'.pc = "rebuild"
      BY <3>1, <1>2, <1>9
    <3> QED BY <3>2, <3>3, <1>1 DEF Reached, Moving
  <2> QED BY <1>1, <1>3, <1>6, <1>7, <1>9, <2>2, <2>3, <2>4, MergeStep
<1>10. CASE work.pc = "close"
  <2>1. \A o \in work.todo : <<o, win>> \in edges
    BY <1>0, <1>10 DEF RegInv, EdgesFollow
  <2>2. EdgesFollow'
    <3>1. work'.pc = "close" => \A o \in work'.todo : <<o, win>> \in edges'
      BY <1>2, <1>4, <1>10, <2>1
    <3> QED BY <3>1, <1>1, <1>2, <1>10 DEF EdgesFollow
  <2>3. Linked'
    <3>1. ASSUME NEW x \in ops PROVE \E i \in Ids : <<x[1], i>> \in edges'
      <4>1. PICK i \in Ids : <<x[1], i>> \in edges
        BY <3>1 DEF RegInv, Linked
      <4> QED BY <4>1, <1>2, <1>4, <1>10, <2>1
    <3> QED BY <3>1, <1>1 DEF Linked
  <2>4. ASSUME ~cut', NEW o \in ops' PROVE Reached(o)'
    <3>1. PICK i \in Ids : Answers(o[2], i) /\ <<o[1], i>> \in edges
      BY <1>1, <1>10, <2>4 DEF RegInv, Reached, Moving
    <3>2. Answers(o[2], i)'
      BY <3>1, <1>3
    <3>3. CASE <<o[1], i>> \in edges'
      BY <3>2, <3>3 DEF Reached
    <3>4. CASE <<o[1], i>> \notin edges'
      <4>1. i = los /\ o[1] \in work.todo /\ <<o[1], win>> \in edges'
        BY <3>1, <3>4, <1>2, <1>4, <1>10, <2>1
      <4>2. o[2] \in res[los].aliases
        BY <3>1, <4>1, MatchesAre DEF Answers
      <4>3. o[2] \in res[win].aliases
        BY <4>2, <1>0, <1>5 DEF RegInv, PassKnows
      <4>4. win \in Matches(o[2])
        BY <4>3, <1>4, MatchesAre DEF Used
      <4>5. ~InOrder
        BY <3>1, <4>1, <4>4, <1>4 DEF Answers
      <4>6. Answers(o[2], win)'
        BY <4>4, <4>5, <1>3 DEF Answers
      <4> QED BY <4>1, <4>6, <1>4 DEF Reached
    <3> QED BY <3>3, <3>4
  <2> QED BY <1>1, <1>3, <1>6, <1>7, <1>10, <2>2, <2>3, <2>4, MergeStep
<1> QED BY <1>1, <1>9, <1>10

LEMMA MarkRows ==
  ASSUME RegInv, MarkLoser, NEW win, NEW los, win = Winner, los = Loser
  PROVE  /\ RegTyped' /\ UNCHANGED <<edges, calls, ops, cut>>
         /\ work.pc = "mark" /\ work'.pc = "pair" /\ work'.live = work.live
         /\ \A i \in DOMAIN work.live :
              /\ i \in Ids
              /\ res[i].name = work.live[i].name /\ res[i].aliases = work.live[i].aliases
              /\ work.live[i].by = NoResource => i # los /\ res'[i].by = NoResource
         /\ \A i \in Ids : res'[i].name = res[i].name /\ res'[i].aliases = res[i].aliases
         /\ \A i \in Ids : Live(i)' => i # los /\ Live(i)
         /\ Used' = Used /\ Used \subseteq Ids
         /\ \A n : Matches(n)' = Matches(n)
<1>0. win = Winner /\ los = Loser
  OBVIOUS
<1>1. /\ RegTyped /\ RegTyped' /\ UNCHANGED <<edges, calls, ops, cut>>
      /\ work.pc = "mark" /\ work'.pc = "pair"
      /\ work'.live = work.live /\ work'.at = work.at
      /\ los \in DOMAIN work.live /\ los \in Ids /\ win \in Ids
      /\ work.live[los] \in Resource
      /\ res'[los] = [work.live[los] EXCEPT !.embedded = FALSE]
      /\ \A i \in Ids : i # los => res'[i] = res[i]
  <2>1. RegTyped /\ los = work.at[2]
    BY <1>0 DEF RegInv, Loser
  <2> QED BY <2>1, <1>0, TypedMarkLoser
<1>2. HandingOver /\ ~HandingOver' /\ ~Moving /\ ~Moving'
  BY <1>1 DEF HandingOver, Moving
<1>3. /\ \A i \in DOMAIN work.live :
           /\ res[i].name = work.live[i].name /\ res[i].aliases = work.live[i].aliases
           /\ work.live[i].by = NoResource => res[i].by = NoResource
      /\ Live(los) /\ work.live[los].by = win /\ win # NoResource
  BY <1>0, <1>1, RegistryAssumption DEF RegInv, PassKnows
<1>4. /\ res'[los].name = res[los].name /\ res'[los].aliases = res[los].aliases
      /\ res'[los].by = win /\ Exists(los)'
  <2>1. PICK q, r : q = work.live[los] /\ r = [q EXCEPT !.embedded = FALSE]
    OBVIOUS
  <2>2. q \in Resource /\ res'[los] = r
    BY <1>1, <2>1
  <2>3. r \in Resource /\ r # NoResource
    BY <2>1, <2>2, RowTyped
  <2>4. r.name = q.name /\ r.aliases = q.aliases /\ r.by = q.by
    BY <2>1, <2>2 DEF Resource
  <2>5. los \in DOMAIN work.live
    BY <1>1
  <2>6. q.name = res[los].name /\ q.aliases = res[los].aliases /\ q.by = win
    BY <1>3, <2>1, <2>5
  <2> QED BY <2>2, <2>3, <2>4, <2>6 DEF Exists
<1>5. /\ \A i \in Ids : res'[i].name = res[i].name /\ res'[i].aliases = res[i].aliases
      /\ \A i \in Ids : Live(i)' => i # los /\ Live(i)
      /\ Used' = Used /\ Used \subseteq Ids
  <2>1. \A i \in Ids : i # los => res'[i] = res[i]
    BY <1>1
  <2>2. Exists(los) /\ los \in Ids
    BY <1>1, <1>3 DEF Live
  <2>3. \A i \in Ids : Exists(i)' <=> Exists(i)
    BY <2>1, <2>2, <1>4 DEF Exists
  <2>4. ~Live(los)'
    BY <1>3, <1>4 DEF Live
  <2>5. \A i \in Ids : Live(i)' => i # los /\ Live(i)
    BY <2>1, <2>3, <2>4 DEF Live
  <2>6. Used' = Used /\ Used \subseteq Ids
    BY <2>3 DEF Used
  <2> QED BY <2>1, <2>5, <2>6, <1>4
<1>6. \A n : Matches(n)' = Matches(n)
  BY <1>5 DEF Matches
<1>7. \A i \in DOMAIN work.live :
        i \in Ids /\ (work.live[i].by = NoResource => i # los /\ res'[i].by = NoResource)
  BY <1>1, <1>3, PassIs DEF PassRecord
<1> QED BY <1>1, <1>3, <1>5, <1>6, <1>7

LEMMA KeepMarkLoser ==
  ASSUME RegInv, MarkLoser
  PROVE  RegInv'
<1>0. PICK win, los : win = Winner /\ los = Loser
  OBVIOUS
<1>1. /\ RegTyped' /\ UNCHANGED <<edges, calls, ops, cut>>
      /\ work.pc = "mark" /\ work'.pc = "pair" /\ work'.live = work.live
      /\ \A n : Matches(n)' = Matches(n)
  BY <1>0, MarkRows
<1>2. HandingOver /\ ~HandingOver' /\ ~Moving /\ ~Moving'
  BY <1>1 DEF HandingOver, Moving
<1>3. \A i \in DOMAIN work.live :
        /\ i \in Ids
        /\ res[i].name = work.live[i].name /\ res[i].aliases = work.live[i].aliases
        /\ work.live[i].by = NoResource => res'[i].by = NoResource
  BY <1>0, MarkRows
<1>5. /\ \A i \in Ids : res'[i].name = res[i].name /\ res'[i].aliases = res[i].aliases
      /\ \A i \in Ids : Live(i)' => i # los /\ Live(i)
      /\ Used' = Used /\ Used \subseteq Ids
  BY <1>0, MarkRows
<1>7. \A n, i : Answers(n, i) <=> Answers(n, i)'
  BY <1>1 DEF Answers
<1>8. RowsInOrder' /\ Linked' /\ EdgesFollow'
  BY <1>1, <1>5 DEF RegInv, RowsInOrder, Linked, EdgesFollow
<1>9. PassKnows'
  <2>1. \A i \in DOMAIN work'.live :
             /\ res'[i].name = work'.live[i].name /\ res'[i].aliases = work'.live[i].aliases
             /\ work'.live[i].by = NoResource => res'[i].by = NoResource
    <3> TAKE i \in DOMAIN work'.live
    <3> QED BY <1>1, <1>3, <1>5
  <2> QED BY <1>1, <1>2, <2>1 DEF PassKnows
<1>10. ~cut' => OwnNames'
  BY <1>0, <1>1, <1>2, <1>5, <1>7 DEF RegInv, OwnNames, Keeps
<1>11. ~cut' => \A o \in ops' : Reached(o)'
  BY <1>1, <1>2, <1>7 DEF RegInv, Reached
<1> QED BY <1>1, <1>8, <1>9, <1>10, <1>11, MergeStep

LEMMA KeepNext ==
  ASSUME ~Overlap, RegInv, [RegistryNext]_registryVars
  PROVE  RegInv'
<1>0. RegTyped'
  BY TypedNext DEF RegInv
<1>1. CASE UNCHANGED registryVars
  BY <1>0, <1>1, KeepSame DEF registryVars, db
<1>2. ASSUME NEW c \in Clients, NEW n \in Names, Resolve(c, n) PROVE RegInv'
  BY <1>0, <1>2, KeepResolve
<1>3. ASSUME NEW c \in Clients, Call(c) \/ CallFails(c) PROVE RegInv'
  BY <1>0, <1>3, KeepSearch, GrowTakes, CreateTakes, NameAdded, KeepRecord, KeepLink DEF Call
<1>4. CASE Merge \/ PassFails
  BY <1>0, <1>4, KeepBegin, KeepConfirm, KeepAbsorb, KeepReadEdges, KeepEdges, KeepRetire,
     KeepMarkLoser, KeepEnd DEF Merge
<1>5. ASSUME NEW p \in Procs, OtherSearch(p) \/ Restart(p) PROVE RegInv'
  BY <1>0, <1>5, KeepSame DEF OtherSearch, Restart
<1> QED BY <1>1, <1>2, <1>3, <1>4, <1>5 DEF RegistryNext

LEMMA RegistryInvariant == ~Overlap => (RegistrySpec => []RegInv)
<1>1. RegistryInit => RegInv
  <2> SUFFICES ASSUME RegistryInit PROVE RegInv
    OBVIOUS
  <2>1. work.pc = "idle" /\ \A c \in Clients : pc[c] = "idle"
    BY DEF RegistryInit, IdlePass
  <2>2. Used = {} /\ ops = {} /\ \A i \in Ids : ~Live(i)
    BY DEF RegistryInit, Used, Exists, Live
  <2>3. RunsAlone /\ PassKnows /\ EdgesFollow /\ \A c \in Clients : CallKnows(c)
    BY <2>1 DEF RunsAlone, PassKnows, EdgesFollow, CallKnows, HandingOver, Moving
  <2>4. RowsInOrder /\ Linked /\ OwnNames
    BY <2>2 DEF RowsInOrder, Linked, OwnNames, Keeps
  <2> QED BY <2>2, <2>3, <2>4, TypedInit DEF RegInv
<1>2. ~Overlap /\ RegInv /\ [RegistryNext]_registryVars => RegInv'
  BY KeepNext
<1>3. CASE Overlap
  BY <1>3
<1>4. CASE ~Overlap
  <2>1. RegInv /\ [RegistryNext]_registryVars => RegInv'
    BY <1>2, <1>4
  <2>2. RegistrySpec => []RegInv
    BY <1>1, <2>1, PTL DEF RegistrySpec
  <2> QED BY <2>2
<1> QED BY <1>3, <1>4

\* A recorded operation keeps an edge to some resource: MergeAliases rebuilds the
\* loser's edges on the winner before Retire closes them.
THEOREM OperationsLinkedTheorem == ~Overlap => (RegistrySpec => []OperationsLinked)
<1>1. RegInv => OperationsLinked
  BY DEF RegInv, Linked, OperationsLinked
<1> QED BY <1>1, RegistryInvariant, PTL

\* Two live resources never answer to one name, and what a name resolves to has
\* the operations recorded under it, whatever was merged in between: the resource
\* it leads to where rows come back in the order of their creation, otherwise one
\* of those that may come back first.
THEOREM NamesLeadToOperationsTheorem == ~Overlap => (RegistrySpec => []NamesLeadToOperations)
<1>1. RegInv => NamesLeadToOperations
  <2> SUFFICES ASSUME RegInv, Quiescent, ~cut PROVE OneEntityPerName /\ OperationsReachable
    BY DEF NamesLeadToOperations
  <2>1. ~HandingOver /\ ~Moving
    BY DEF Quiescent, HandingOver, Moving
  <2>2. OneEntityPerName
    <3> SUFFICES ASSUME NEW i \in Ids, NEW j \in Ids, Live(i), Live(j),
                        NEW n \in {res[i].name} \cup res[i].aliases,
                        n \in {res[j].name} \cup res[j].aliases
                 PROVE  i = j
      BY DEF OneEntityPerName
    <3>1. n \in res[i].aliases /\ n \in res[j].aliases
      BY DEF RegInv, RowsInOrder, Used, Live
    <3> QED BY <2>1, <3>1 DEF RegInv, OwnNames, Keeps
  <2>3. ASSUME NEW o \in ops, NEW p \in Procs
        PROVE  /\ \E i \in Found(p, o[2]) : <<o[1], i>> \in edges
               /\ InOrder => \A i \in Found(p, o[2]) : <<o[1], i>> \in edges
    <3>1. PICK i \in Ids : Answers(o[2], i) /\ <<o[1], i>> \in edges
      BY <2>1 DEF RegInv, Reached
    <3>2. Found(p, o[2]) = Foremost(o[2]) /\ i \in Foremost(o[2])
      BY <3>1, FirstAnswers DEF Answers, Found
    <3>3. InOrder => \A j \in Foremost(o[2]) : j = i
      BY <3>1, FirstAnswers, OneAnswers DEF Answers, Matches, Used
    <3> QED BY <3>1, <3>2, <3>3
  <2> QED BY <2>2, <2>3 DEF OperationsReachable
<1> QED BY <1>1, RegistryInvariant, PTL

-----------------------------------------------------------------------------
(* The registry keeps the promise of Registry.                              *)

LEMMA LeastOf ==
  ASSUME NEW S \in SUBSET Ids
  PROVE  /\ S # {} => Min(S) \in S /\ \A j \in S : Min(S) <= j
         /\ \A i \in S : (\A j \in S : i <= j) => Min(S) = i
<1>1. S \subseteq Nat /\ S \subseteq Int
  BY RegistryAssumption DEF Ids
<1>2. ASSUME S # {} PROVE Min(S) \in S /\ \A j \in S : Min(S) <= j
  <2>1. \E x \in S : \A y \in S : x <= y
    BY <1>1, <1>2, LeastNat
  <2> QED BY <2>1 DEF Min
<1>3. ASSUME NEW i \in S, \A j \in S : i <= j PROVE Min(S) = i
  <2>1. S # {} /\ Min(S) \in S /\ Min(S) <= i /\ i <= Min(S)
    BY <1>2, <1>3
  <2>2. PICK m : m = Min(S)
    OBVIOUS
  <2>3. m \in Int /\ i \in Int /\ m <= i /\ i <= m
    BY <2>1, <2>2, <1>1
  <2> QED BY <2>2, <2>3
<1> QED BY <1>2, <1>3

LEMMA LeadsToFirst ==
  ASSUME InOrder, NEW n
  PROVE  /\ LeadsTo(n) = NoResource <=> Matches(n) = {}
         /\ \A i : Answers(n, i) => i \in Ids /\ LeadsTo(n) = i
         /\ LeadsTo(n) \in Ids \cup {NoResource}
         /\ LeadsTo(n) \in Ids => Answers(n, LeadsTo(n))
<1>1. Matches(n) \in SUBSET Ids /\ NoResource \notin Ids
  BY RegistryAssumption DEF Matches, Used
<1>2. Matches(n) # {} => Min(Matches(n)) \in Matches(n) /\ \A j \in Matches(n) : Min(Matches(n)) <= j
  BY <1>1, LeastOf
<1>3. \A i \in Matches(n) : (\A j \in Matches(n) : i <= j) => Min(Matches(n)) = i
  BY <1>1, LeastOf
<1> QED BY <1>1, <1>2, <1>3 DEF LeadsTo, Answers

LEMMA LeadsToThen ==
  ASSUME InOrder, NEW n
  PROVE  /\ LeadsTo(n)' = NoResource <=> Matches(n)' = {}
         /\ \A i : Answers(n, i)' => i \in Ids /\ LeadsTo(n)' = i
         /\ LeadsTo(n)' \in Ids \cup {NoResource}
         /\ LeadsTo(n)' \in Ids => Answers(n, LeadsTo(n))'
<1>1. Matches(n)' \in SUBSET Ids /\ NoResource \notin Ids
  BY RegistryAssumption DEF Matches, Used
<1> DEFINE S == Matches(n)'
<1>2. S # {} => Min(S) \in S /\ \A j \in S : Min(S) <= j
  BY <1>1, LeastOf
<1>3. \A i \in S : (\A j \in S : i <= j) => Min(S) = i
  BY <1>1, LeastOf
<1> QED BY <1>1, <1>2, <1>3 DEF LeadsTo, Answers

LEMMA LeadsToKept ==
  ASSUME NEW n, Matches(n)' = Matches(n)
  PROVE  LeadsTo(n)' = LeadsTo(n)
BY DEF LeadsTo

\* Statements that change nothing a caller could see.
LEMMA UnseenStep ==
  ASSUME UNCHANGED <<res, edges, ops, cut>>, HandingOver <=> HandingOver',
         HandingOver => work'.at = work.at
  PROVE  UNCHANGED RG!vars
<1>1. \A n \in Names : LeadsTo(n)' = LeadsTo(n)
  BY LeadsToKept DEF Matches, Used, Exists
<1> QED BY <1>1 DEF RG!vars

LEMMA CallsRefine ==
  ASSUME InOrder, RegInv, RegTyped', NEW c \in Clients, Call(c) \/ CallFails(c) \/ \E n \in Names : Resolve(c, n)
  PROVE  [RG!Next]_(RG!vars)
<1>0. work' = work /\ cut' = cut
  BY DEF Call, CallFails, Resolve, Search, Grow, Create, Record, Link
<1>1. CASE UNCHANGED <<res, edges, ops>>
  BY <1>0, <1>1, UnseenStep DEF HandingOver
<1>2. ASSUME Grow(c) \/ Create(c) PROVE RG!Next
  <2>1. PICK n, t : TakesName(c, n, t)
    BY <1>2, GrowTakes, CreateTakes
  <2>2. n \in Names /\ t \in Ids /\ UNCHANGED <<edges, ops>>
    BY <2>1 DEF TakesName
  <2>3. Matches(n) = {} /\ ~HandingOver
    BY <2>1 DEF TakesName, RegInv, CallKnows, RunsAlone, HandingOver
  <2>4. Answers(n, t)' /\ \A m : m # n => Matches(m)' = Matches(m)
    BY <2>1, <2>2, <2>3, AddName DEF TakesName
  <2>5. LeadsTo(n) = NoResource /\ LeadsTo(n)' = t
    BY <2>3, <2>4, LeadsToFirst, LeadsToThen
  <2>6. \A m \in Names : m # n => LeadsTo(m)' = LeadsTo(m)
    BY <2>4, LeadsToKept
  <2>7. ~HandingOver'
    BY <2>3, <1>0 DEF HandingOver
  <2>8. RG!Meet(n)
    BY <2>2, <2>3, <2>5, <2>6, <2>7, <1>0 DEF RG!Meet
  <2> QED BY <2>2, <2>8 DEF RG!Next
<1>3. ASSUME Link(c) PROVE RG!Next
  <2>1. PICK o, n, i : o = op[c] /\ n = name[c] /\ i = target[c]
    OBVIOUS
  <2>2. /\ pc[c] = "edge" /\ res' = res
        /\ edges' = edges \cup {<<o, i>>} /\ ops' = ops \cup {<<o, n>>}
    BY <1>3, <2>1 DEF Link
  <2>3. n \in Names /\ o \in 1..MaxOps /\ Answers(n, i)
    BY <2>1, <2>2 DEF RegInv, RegTyped, CallTyped, CallKnows
  <2>4. LeadsTo(n) = i /\ i # NoResource
    BY <2>3, LeadsToFirst, RegistryAssumption
  <2>5. ~HandingOver /\ ~HandingOver'
    BY <2>2, <1>0 DEF RegInv, RunsAlone, HandingOver
  <2>6. \A m \in Names : LeadsTo(m)' = LeadsTo(m)
    BY <2>2, LeadsToKept DEF Matches, Used, Exists
  <2>7. RG!File(n)
    BY <2>2, <2>3, <2>4, <2>5, <2>6, <1>0 DEF RG!File
  <2> QED BY <2>3, <2>7 DEF RG!Next
<1>4. \/ Grow(c) \/ Create(c) \/ Link(c) \/ UNCHANGED <<res, edges, ops>>
  BY DEF Call, CallFails, Resolve, Search, Record, db
<1> QED BY <1>1, <1>2, <1>3, <1>4

\* The loser's names become the winner's.
LEMMA AbsorbRefines ==
  ASSUME InOrder, RegInv, Absorb
  PROVE  RG!Next
<1>1. PICK win, los, taken : /\ win = Winner /\ los = Loser
                             /\ taken = res[win].aliases \cup res[los].aliases
  OBVIOUS
<1>2. Absorbs(win, los, taken)
  BY <1>1, AbsorbRows
<1>3. /\ win \in Ids /\ los \in Ids /\ win < los /\ win # los /\ los \in Used
      /\ work.pc = "absorb" /\ work'.pc = "neighbors" /\ work'.at = work.at
      /\ UNCHANGED <<edges, ops, cut>> /\ Live(los)
      /\ \A n : Matches(n) = {i \in Used : n \in res[i].aliases}
      /\ \A n : Matches(n)' = Matches(n) \cup (IF n \in res[los].aliases THEN {win} ELSE {})
  BY <1>2 DEF Absorbs, calls
<1>4. ~HandingOver /\ HandingOver' /\ work'.at = <<win, los>>
  <2>1. work.at \in (0..MaxId) \X (0..MaxId)
    BY DEF RegInv, RegTyped, WorkTyped
  <2> QED BY <1>1, <1>3, <2>1 DEF HandingOver, Winner, Loser
<1>5. ASSUME NEW n, n \notin res[los].aliases
      PROVE  LeadsTo(n)' = LeadsTo(n) /\ LeadsTo(n) # los
  <2>1. Matches(n)' = Matches(n) /\ los \notin Matches(n)
    BY <1>3, <1>5
  <2>2. ~Answers(n, los)
    BY <2>1 DEF Answers
  <2> QED BY <1>3, <2>1, <2>2, LeadsToKept, LeadsToFirst
\* The winner answers first, or whoever did before.
<1>6. ASSUME NEW n, n \in res[los].aliases
      PROVE  LeadsTo(n) \in Ids /\ (LeadsTo(n)' = LeadsTo(n) \/ (LeadsTo(n)' = win /\ win < LeadsTo(n)))
  <2>1. los \in Matches(n) /\ Matches(n)' = Matches(n) \cup {win}
    BY <1>3, <1>6
  <2>2. PICK i : i = LeadsTo(n)
    OBVIOUS
  <2>3. i \in Ids /\ Answers(n, i)
    BY <2>1, <2>2, LeadsToFirst
  <2>4. win \in Int /\ i \in Int /\ \A j \in Matches(n) : j \in Int /\ i <= j
    BY <1>3, <2>3, RegistryAssumption DEF Answers, Ids, Matches, Used
  <2>5. CASE win < i
    <3>1. \A j \in Matches(n)' : win <= j
      BY <2>1, <2>4, <2>5
    <3>2. Answers(n, win)'
      BY <2>1, <3>1 DEF Answers
    <3> QED BY <2>2, <2>3, <2>5, <3>2, LeadsToThen
  <2>6. CASE i <= win
    <3>1. \A j \in Matches(n)' : i <= j
      BY <2>1, <2>4, <2>6
    <3>2. Answers(n, i)'
      BY <2>1, <2>3, <3>1 DEF Answers
    <3> QED BY <2>2, <2>3, <3>2, LeadsToThen
  <2> QED BY <2>4, <2>5, <2>6
<1>7. ASSUME ~cut, NEW n, n \in res[los].aliases PROVE LeadsTo(n) = los /\ LeadsTo(n)' = win
  <2>1. Answers(n, los)
    BY <1>3, <1>4, <1>7 DEF RegInv, OwnNames, Keeps
  <2>2. LeadsTo(n) = los
    BY <2>1, LeadsToFirst
  <2>3. win \in Matches(n)' /\ LeadsTo(n)' \in Ids /\ Answers(n, LeadsTo(n))'
    BY <1>3, <1>7, LeadsToThen
  <2>4. LeadsTo(n)' # los
    <3>1. SUFFICES ASSUME LeadsTo(n)' = los PROVE FALSE
      OBVIOUS
    <3>2. los <= win
      BY <2>3, <3>1 DEF Answers
    <3> QED BY <3>2, <1>3, RegistryAssumption DEF Ids
  <2> QED BY <1>6, <1>7, <2>2, <2>4
<1>8. RG!Join(win, los)
  <2>1. CASE cut
    <3>1. \A n \in Names : /\ LeadsTo(n)' \in Ids \cup {NoResource}
                           /\ LeadsTo(n)' # LeadsTo(n) => LeadsTo(n)' = win /\ win < LeadsTo(n)
      BY <1>5, <1>6, LeadsToThen
    <3> QED BY <2>1, <3>1, <1>3, <1>4 DEF RG!Join
  <2>2. CASE ~cut
    <3>1. \A n \in Names : LeadsTo(n)' = IF LeadsTo(n) = los THEN win ELSE LeadsTo(n)
      BY <2>2, <1>5, <1>7
    <3> QED BY <2>2, <3>1, <1>3, <1>4 DEF RG!Join
  <2> QED BY <2>1, <2>2
<1> QED BY <1>3, <1>8 DEF RG!Next

\* Operations are shown by the winner before the loser ceases to show them.
LEMMA EdgesRefine ==
  ASSUME RegInv, Rebuild \/ CloseEdge
  PROVE  [RG!Next]_(RG!vars)
<1>1. PICK win, los : win = Winner /\ los = Loser
  OBVIOUS
<1>2. /\ UNCHANGED <<res, ops, cut>> /\ work'.at = work.at
      /\ work.pc \in {"rebuild", "close"} /\ RegTyped
      /\ \/ /\ edges' = edges
            /\ work'.pc = IF work.pc = "rebuild" THEN "retire" ELSE "mark"
         \/ \E o \in work.todo :
              /\ work'.pc = work.pc
              /\ edges' = IF work.pc = "rebuild" THEN edges \cup {<<o, win>>}
                                                 ELSE edges \ {<<o, los>>}
  BY <1>1, TypedEdges DEF RegInv
<1>3. HandingOver /\ HandingOver'
  BY <1>2 DEF HandingOver
<1>4. CASE edges' = edges
  BY <1>2, <1>3, <1>4, UnseenStep
<1>5. ASSUME NEW o \in work.todo, work'.pc = work.pc,
             edges' = IF work.pc = "rebuild" THEN edges \cup {<<o, win>>} ELSE edges \ {<<o, los>>}
      PROVE  RG!Next
  <2>1. /\ win \in Ids /\ los \in Ids /\ o \in 1..MaxOps /\ work.at = <<win, los>>
    BY <1>1, <1>2, PassIs DEF PassRecord, Winner, Loser
  <2>2. work.pc = "rebuild" => <<o, los>> \in edges
    BY <1>1 DEF RegInv, EdgesFollow
  <2>3. work.pc = "close" => <<o, win>> \in edges
    BY <1>1 DEF RegInv, EdgesFollow
  <2>4. \A n \in Names : LeadsTo(n)' = LeadsTo(n)
    BY <1>2, LeadsToKept DEF Matches, Used, Exists
  <2>5. RG!Move(win, los)
    BY <1>2, <1>3, <1>5, <2>1, <2>2, <2>3, <2>4 DEF RG!Move
  <2> QED BY <1>3, <2>1, <2>5 DEF RG!Next
<1> QED BY <1>2, <1>4, <1>5

\* When the loser is marked, everything recorded is where its name leads.
LEMMA MarkRefines ==
  ASSUME InOrder, RegInv, MarkLoser
  PROVE  RG!Next
<1>1. PICK los : los = Loser
  OBVIOUS
<1>2. /\ UNCHANGED <<edges, ops, cut>> /\ work.pc = "mark" /\ work'.pc = "pair"
      /\ \A n : Matches(n)' = Matches(n)
  BY MarkRows
<1>3. HandingOver /\ ~HandingOver' /\ ~Moving
  BY <1>2 DEF HandingOver, Moving
<1>4. \A n \in Names : LeadsTo(n)' = LeadsTo(n)
  BY <1>2, LeadsToKept
<1>5. cut \/ \A f \in ops : <<f[1], LeadsTo(f[2])>> \in edges
  <2> SUFFICES ASSUME ~cut, NEW f \in ops PROVE <<f[1], LeadsTo(f[2])>> \in edges
    OBVIOUS
  <2>1. PICK i \in Ids : Answers(f[2], i) /\ <<f[1], i>> \in edges
    BY <1>3 DEF RegInv, Reached
  <2>2. LeadsTo(f[2]) = i
    BY <2>1, LeadsToFirst
  <2> QED BY <2>1, <2>2
<1>6. \A f \in ops : f[2] \in Names
  BY DEF RegInv, RegTyped, RegistryTypeOK
<1>7. RG!Joined
  BY <1>2, <1>3, <1>4, <1>5, <1>6 DEF RG!Joined
<1> QED BY <1>7 DEF RG!Next

LEMMA MergeRefines ==
  ASSUME InOrder, RegInv, Merge \/ PassFails
  PROVE  [RG!Next]_(RG!vars)
<1>1. ASSUME BeginMerge \/ Confirm \/ EndMerge PROVE UNCHANGED RG!vars
  <2>1. ~HandingOver /\ UNCHANGED <<res, edges, ops, cut>>
    BY <1>1 DEF BeginMerge, Confirm, EndMerge, HandingOver, db
  <2>2. work'.pc \in {"idle", "pair", "absorb"}
    <3>1. CASE EndMerge
      BY <3>1 DEF EndMerge, IdlePass
    <3>2. CASE BeginMerge
      <4>1. PICK rows : work' = [IdlePass EXCEPT !.pc = "pair", !.live = rows]
        BY <3>2 DEF BeginMerge
      <4>2. work'.pc = "pair"
        BY <4>1 DEF IdlePass
      <4> QED BY <4>2
    <3>3. CASE Confirm
      <4>1. \E i, j : work' = [work EXCEPT !.pc = "absorb", !.at = <<i, j>>]
        BY <3>3 DEF Confirm
      <4> QED BY <4>1, PassIs DEF RegInv, PassRecord
    <3> QED BY <1>1, <3>1, <3>2, <3>3
  <2> QED BY <2>1, <2>2, UnseenStep DEF HandingOver
<1>2. ASSUME ReadEdges \/ RetireLoser PROVE UNCHANGED RG!vars
  <2>1. HandingOver /\ UNCHANGED <<res, edges, ops, cut>> /\ RegTyped
    BY <1>2 DEF ReadEdges, RetireLoser, HandingOver, db, RegInv
  <2>2. work'.pc \in {"rebuild", "close"} /\ work'.at = work.at
    BY <1>2, <2>1, PassIs DEF ReadEdges, RetireLoser, PassRecord
  <2> QED BY <2>1, <2>2, UnseenStep DEF HandingOver
<1>3. ASSUME PassFails PROVE RG!Next
  <2>1. cut' = TRUE /\ UNCHANGED <<res, edges, ops>> /\ work' = IdlePass
    BY <1>3 DEF PassFails, db
  <2>2. ~HandingOver'
    BY <2>1, TypedIdle DEF HandingOver, IdlePass
  <2>3. \A n \in Names : LeadsTo(n)' = LeadsTo(n)
    BY <2>1, LeadsToKept DEF Matches, Used, Exists
  <2>4. RG!Tear
    BY <2>1, <2>2, <2>3 DEF RG!Tear
  <2> QED BY <2>4 DEF RG!Next
<1> QED BY <1>1, <1>2, <1>3, AbsorbRefines, EdgesRefine, MarkRefines DEF Merge

\* Implements: see Registry.  A name that leads to a resource leads to one ever
\* after, the names of one resource stay together, and at the end of every merge
\* an operation is found under the name it was recorded with.  Calls and merge
\* passes follow each other, and rows come back in the order of their creation.
THEOREM ImplementsRegistryTheorem == ~Overlap /\ InOrder => (RegistrySpec => ImplementsRegistry)
<1>1. InOrder /\ RegistryInit => RG!Init
  <2> SUFFICES ASSUME InOrder, RegistryInit PROVE RG!Init
    OBVIOUS
  <2>1. \A n \in Names : Matches(n) = {}
    BY DEF RegistryInit, Matches, Used, Exists
  <2>2. \A n \in Names : LeadsTo(n) = NoResource
    BY <2>1, LeadsToFirst
  <2>3. ~HandingOver
    BY DEF RegistryInit, HandingOver, IdlePass
  <2> QED BY <2>2, <2>3 DEF RG!Init, RegistryInit
<1>2. ASSUME InOrder, RegInv, RegTyped', [RegistryNext]_registryVars PROVE [RG!Next]_(RG!vars)
  <2>1. CASE UNCHANGED registryVars
    <3>1. UNCHANGED <<res, edges, ops, cut, work>>
      BY <2>1 DEF registryVars, db
    <3> QED BY <3>1, UnseenStep DEF HandingOver
  <2>2. ASSUME NEW p \in Procs, OtherSearch(p) \/ Restart(p) PROVE UNCHANGED RG!vars
    <3>1. UNCHANGED <<res, edges, ops, cut, work>>
      BY <2>2 DEF OtherSearch, Restart
    <3> QED BY <3>1, UnseenStep DEF HandingOver
  <2> QED BY <1>2, <2>1, <2>2, CallsRefine, MergeRefines DEF RegistryNext
<1>3. InOrder /\ RegInv /\ [RegistryNext]_registryVars => [RG!Next]_(RG!vars)
  <2>1. RegInv /\ [RegistryNext]_registryVars => RegTyped'
    BY TypedNext DEF RegInv
  <2> QED BY <1>2, <2>1
<1>4. CASE Overlap \/ ~InOrder
  BY <1>4
<1>5. CASE ~Overlap /\ InOrder
  <2>1. RegistrySpec => []RegInv
    BY <1>5, RegistryInvariant
  <2>2. RegistryInit => RG!Init
    BY <1>1, <1>5
  <2>3. RegInv /\ [RegistryNext]_registryVars => [RG!Next]_(RG!vars)
    BY <1>3, <1>5
  <2>4. RegistrySpec => ImplementsRegistry
    BY <2>1, <2>2, <2>3, PTL DEF RegistrySpec, ImplementsRegistry, RG!Spec
  <2> QED BY <2>4
<1> QED BY <1>4, <1>5
=============================================================================
