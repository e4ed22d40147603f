--------------------------- MODULE OpeningProofs ---------------------------
(***************************************************************************)
(* What a starting process makes of what it finds, for any number of       *)
(* processes: its database, its settings, its secrets, its dictionary.     *)
(***************************************************************************)
EXTENDS StoreProofs, MCStores, TLAPS

-----------------------------------------------------------------------------
(***************************************************************************)
(* What engine.New promises of the stored vectors, for any configurations  *)
(* and memories, where one engine at a time has the database open and a    *)
(* re-embedding that was cut short is finished by the next open.           *)
(*                                                                         *)
(* The inductive invariant follows a re-embedding through its stops: until *)
(* it is finished every vector is of the space `meta` has on record or of  *)
(* the space of the target, and an engine on its way to open has that      *)
(* target for its configuration.                                           *)
(***************************************************************************)

OneEngine == \A e, f \in Engines : e = f

\* Configuration c is of dimension d, or of the dimension of the target.
DimFits(c) == Dim[c] = metaDim \/ (target # None /\ Dim[c] = Dim[target])

TokFits(c) ==
  \/ Tokenizer[c] \in {Hosted, metaTok}
  \/ target # None /\ Tokenizer[c] = Tokenizer[target]

VectorsFit == \A i \in EmbIds : vector[i] \in Configs => DimFits(vector[i]) /\ TokFits(vector[i])

\* A re-embedding is of a database that has a dimension on record.
TargetHasOrigin == target # None => metaDim # None

\* Engine e on its way through New.
OnItsWay(e) ==
  /\ stage[e] # "closed" /\ target # None => config[e] = target
  /\ stage[e] \in {"embed_dim", "embed_tokenizer"} => target # None
  /\ stage[e] \in {"tokenizer", "embed_tokenizer", "open"} => metaDim = Dim[config[e]]
  /\ stage[e] = "embed_dim" =>
       \A i \in EmbIds \ todo[e] : vector[i] \in Configs => Dim[vector[i]] = Dim[config[e]]
  /\ stage[e] = "embed_tokenizer" =>
       \A i \in EmbIds \ todo[e] : vector[i] \in Configs => Tokenizer[vector[i]] = Tokenizer[config[e]]
  /\ stage[e] = "open" => target = None /\ Tokenizer[config[e]] \in {Hosted, metaTok}

\* Only a provider that tokenizes locally re-embeds for its tokenizer.
LocalReembeds == \A e \in Engines : stage[e] = "embed_tokenizer" => Tokenizer[config[e]] # Hosted

SpaceTyped == SpaceTypeOK /\ LocalReembeds

SpaceFits == VectorsFit /\ TargetHasOrigin /\ \A e \in Engines : OnItsWay(e)

SpaceIInv == SpaceTyped /\ SpaceFits

-----------------------------------------------------------------------------

(* Types: one step for each action.                                         *)
LEMMA SpaceTypeStep == SpaceTyped /\ SpaceNext => SpaceTyped'
<1> SUFFICES ASSUME SpaceTyped, SpaceNext PROVE SpaceTyped'
  OBVIOUS
<1> USE EmbeddingAssumption
    DEF SpaceTyped, SpaceTypeOK, LocalReembeds, Dims, Tokenizers, Stages, NewAt, Stop, Reembed, Recorded, meta
<1>1. ASSUME NEW e \in Engines, NEW c \in Configs, NEW a \in BOOLEAN, Open(e, c, a) PROVE SpaceTyped'
  BY <1>1 DEF Open
<1>2. ASSUME NEW e \in Engines, Step(e) PROVE SpaceTyped'
  <2>1. CASE FirstDim(e)
    BY <2>1 DEF FirstDim
  <2>2. CASE SameDim(e)
    BY <2>2 DEF SameDim
  <2>3. CASE OtherDim(e)
    <3>1. CASE allow[e]
      <4>1. /\ stage[e] # "closed"
            /\ stage' = [stage EXCEPT ![e] = "embed_dim"]
            /\ todo' \in [Engines -> SUBSET EmbIds]
            /\ target' = config[e]
            /\ UNCHANGED <<vector, metaDim, metaTok, config, allow>>
        BY <2>3, <3>1 DEF OtherDim
      <4>2. SpaceTypeOK'
        BY <4>1
      <4>3. LocalReembeds'
        BY <2>3, <4>1 DEF OtherDim
      <4> QED
        BY <4>2, <4>3
    <3>2. CASE ~allow[e]
      <4>1. /\ stage' = [stage EXCEPT ![e] = "closed"]
            /\ config' = [config EXCEPT ![e] = None]
            /\ allow' = [allow EXCEPT ![e] = FALSE]
            /\ todo' = [todo EXCEPT ![e] = {}]
            /\ UNCHANGED <<vector, metaDim, metaTok, target>>
        BY <2>3, <3>2 DEF OtherDim
      <4>2. SpaceTypeOK'
        BY <4>1
      <4>3. LocalReembeds'
        BY <4>1
      <4> QED
        BY <4>2, <4>3
    <3> QED
      BY <3>1, <3>2
  <2>4. CASE RecordDim(e)
    BY <2>4 DEF RecordDim
  <2>5. ASSUME NEW i \in EmbIds, EmbedOne(e, i) PROVE SpaceTyped'
    BY <2>5 DEF EmbedOne
  <2>6. CASE NotLocal(e)
    BY <2>6 DEF NotLocal
  <2>7. CASE FirstTokenizer(e)
    BY <2>7 DEF FirstTokenizer
  <2>8. CASE SameTokenizer(e)
    BY <2>8 DEF SameTokenizer
  <2>9. CASE OtherTokenizer(e)
    <3>1. CASE allow[e]
      <4>1. /\ stage[e] # "closed"
            /\ stage' = [stage EXCEPT ![e] = "embed_tokenizer"]
            /\ todo' \in [Engines -> SUBSET EmbIds]
            /\ target' = config[e]
            /\ UNCHANGED <<vector, metaDim, metaTok, config, allow>>
        BY <2>9, <3>1 DEF OtherTokenizer
      <4>2. SpaceTypeOK'
        BY <4>1
      <4>3. LocalReembeds'
        BY <2>9, <4>1 DEF OtherTokenizer
      <4> QED
        BY <4>2, <4>3
    <3>2. CASE ~allow[e]
      <4>1. /\ stage' = [stage EXCEPT ![e] = "closed"]
            /\ config' = [config EXCEPT ![e] = None]
            /\ allow' = [allow EXCEPT ![e] = FALSE]
            /\ todo' = [todo EXCEPT ![e] = {}]
            /\ UNCHANGED <<vector, metaDim, metaTok, target>>
        BY <2>9, <3>2 DEF OtherTokenizer
      <4>2. SpaceTypeOK'
        BY <4>1
      <4>3. LocalReembeds'
        BY <4>1
      <4> QED
        BY <4>2, <4>3
    <3> QED
      BY <3>1, <3>2
  <2>10. CASE RecordTokenizer(e)
    BY <2>10 DEF RecordTokenizer
  <2> QED
    BY <1>2, <2>1, <2>2, <2>3, <2>4, <2>5, <2>6, <2>7, <2>8, <2>9, <2>10 DEF Step
<1>3. ASSUME NEW e \in Engines, NEW i \in EmbIds, NEW v \in Configs \cup {NoVector, NoRow}, Write(e, i, v)
      PROVE SpaceTyped'
  BY <1>3 DEF Write
<1>4. ASSUME NEW e \in Engines, Close(e) PROVE SpaceTyped'
  BY <1>4 DEF Close
<1> QED
  BY <1>1, <1>2, <1>3, <1>4 DEF SpaceNext

(* No row has an embedding before the first engine opens the database.      *)
LEMMA InitSpace == SpaceInit => SpaceIInv
<1> SUFFICES ASSUME SpaceInit PROVE SpaceIInv
  OBVIOUS
<1>1. SpaceTyped
  BY EmbeddingAssumption DEF SpaceInit, SpaceTyped, SpaceTypeOK, LocalReembeds, Stages
<1>2. SpaceFits
  BY EmbeddingAssumption DEF SpaceInit, SpaceFits, VectorsFit, TargetHasOrigin, OnItsWay
<1> QED
  BY <1>1, <1>2 DEF SpaceIInv

(* The only engine carries a re-embedding to its end before it opens.       *)
LEMMA SpaceStep ==
  ASSUME OneEngine, Resume, SpaceIInv, SpaceNext
  PROVE  SpaceFits'
<1> PICK e \in Engines : \/ \E c \in Configs, a \in BOOLEAN : Open(e, c, a)
                         \/ Step(e)
                         \/ \E i \in EmbIds, v \in Configs \cup {NoVector, NoRow} : Write(e, i, v)
                         \/ Close(e)
  BY DEF SpaceNext
<1> SUFFICES VectorsFit' /\ TargetHasOrigin' /\ OnItsWay(e)'
  BY DEF SpaceFits, OneEngine
<1>0. VectorsFit /\ TargetHasOrigin /\ OnItsWay(e)
  BY DEF SpaceIInv, SpaceFits
<1> USE <1>0, EmbeddingAssumption
    DEF SpaceIInv, SpaceTyped, SpaceTypeOK, LocalReembeds, VectorsFit, DimFits, TokFits, TargetHasOrigin,
        OnItsWay, NewAt, Stop, Reembed, Recorded, meta
<1>1. ASSUME NEW c \in Configs, NEW a \in BOOLEAN, Open(e, c, a)
      PROVE VectorsFit' /\ TargetHasOrigin' /\ OnItsWay(e)'
  BY <1>1 DEF Open
<1>2. ASSUME Step(e) PROVE VectorsFit' /\ TargetHasOrigin' /\ OnItsWay(e)'
  <2>1. CASE FirstDim(e)
    BY <2>1 DEF FirstDim
  <2>2. CASE SameDim(e)
    BY <2>2 DEF SameDim
  <2>3. CASE OtherDim(e)
    <3>1. CASE allow[e]
      BY <2>3, <3>1 DEF OtherDim
    <3>2. CASE ~allow[e]
      BY <2>3, <3>2 DEF OtherDim
    <3> QED
      BY <3>1, <3>2
  <2>4. CASE RecordDim(e)
    BY <2>4 DEF RecordDim
  <2>5. ASSUME NEW i \in EmbIds, EmbedOne(e, i) PROVE VectorsFit' /\ TargetHasOrigin' /\ OnItsWay(e)'
    BY <2>5 DEF EmbedOne
  <2>6. CASE NotLocal(e)
    BY <2>6 DEF NotLocal
  <2>7. CASE FirstTokenizer(e)
    BY <2>7 DEF FirstTokenizer
  <2>8. CASE SameTokenizer(e)
    BY <2>8 DEF SameTokenizer
  <2>9. CASE OtherTokenizer(e)
    <3>1. CASE allow[e]
      BY <2>9, <3>1 DEF OtherTokenizer
    <3>2. CASE ~allow[e]
      BY <2>9, <3>2 DEF OtherTokenizer
    <3> QED
      BY <3>1, <3>2
  <2>10. CASE RecordTokenizer(e)
    BY <2>10 DEF RecordTokenizer
  <2> QED
    BY <1>2, <2>1, <2>2, <2>3, <2>4, <2>5, <2>6, <2>7, <2>8, <2>9, <2>10 DEF Step
<1>3. ASSUME NEW i \in EmbIds, NEW v \in Configs \cup {NoVector, NoRow}, Write(e, i, v)
      PROVE VectorsFit' /\ TargetHasOrigin' /\ OnItsWay(e)'
  BY <1>3 DEF Write
<1>4. ASSUME Close(e) PROVE VectorsFit' /\ TargetHasOrigin' /\ OnItsWay(e)'
  BY <1>4 DEF Close
<1> QED
  BY <1>1, <1>2, <1>3, <1>4

LEMMA SpaceInductive ==
  ASSUME OneEngine, Resume
  PROVE  SpaceSpec => []SpaceIInv
<1>1. SpaceIInv /\ [SpaceNext]_spaceVars => SpaceIInv'
  <2> SUFFICES ASSUME SpaceIInv, [SpaceNext]_spaceVars PROVE SpaceIInv'
    OBVIOUS
  <2>1. CASE SpaceNext
    BY <2>1, SpaceTypeStep, SpaceStep DEF SpaceIInv
  <2>2. CASE UNCHANGED spaceVars
    BY <2>2 DEF spaceVars, meta, SpaceIInv, SpaceTyped, SpaceTypeOK, LocalReembeds, SpaceFits, VectorsFit, DimFits,
         TokFits, TargetHasOrigin, OnItsWay
  <2> QED
    BY <2>1, <2>2
<1> QED
  BY <1>1, InitSpace, PTL DEF SpaceSpec

(* Types, for any engines at once and whether or not re-embeddings resume.  *)
THEOREM SpaceTypeCorrect == SpaceSpec => []SpaceTypeOK
<1>1. SpaceInit => SpaceTyped
  BY InitSpace DEF SpaceIInv
<1>2. SpaceTyped /\ [SpaceNext]_spaceVars => SpaceTyped'
  <2>1. SpaceTyped /\ UNCHANGED spaceVars => SpaceTyped'
    BY DEF spaceVars, meta, SpaceTyped, SpaceTypeOK, LocalReembeds
  <2> QED
    BY <2>1, SpaceTypeStep
<1>3. SpaceTyped => SpaceTypeOK
  BY DEF SpaceTyped
<1> QED
  BY <1>1, <1>2, <1>3, PTL DEF SpaceSpec

(* One engine at a time, interrupted re-embeddings resumed: an open engine  *)
(* reads no vector of another dimension.                                    *)
THEOREM OneDimTheorem ==
  ASSUME OneEngine, Resume
  PROVE  SpaceSpec => []OneDim
<1>1. SpaceIInv => OneDim
  BY DEF SpaceIInv, SpaceFits, VectorsFit, DimFits, OnItsWay, OneDim
<1> QED
  BY <1>1, SpaceInductive, PTL

(* And none of another local tokenizer, though nothing in its shape tells.  *)
THEOREM OneTokenizerTheorem ==
  ASSUME OneEngine, Resume
  PROVE  SpaceSpec => []OneTokenizer
<1>1. SpaceIInv => OneTokenizer
  BY DEF SpaceIInv, SpaceFits, VectorsFit, TokFits, OnItsWay, OneTokenizer
<1> QED
  BY <1>1, SpaceInductive, PTL

(* An open engine can compare its vectors with every stored one it can read.*)
THEOREM OneSpaceTheorem ==
  ASSUME OneEngine, Resume
  PROVE  SpaceSpec => []OneSpace
<1> QED
  BY OneDimTheorem, OneTokenizerTheorem, PTL DEF OneSpace

-----------------------------------------------------------------------------
(* `meta` comes last, for one engine at a time, and this time no matter     *)
(* whether a re-embedding that was cut short is ever finished: what counts  *)
(* is only that the engine has written what it is no longer to write.       *)

\* What an engine in a re-embedding has written, and that nobody writes before
\* a dimension is on record.
Rewritten(e) ==
  /\ stage[e] = "embed_dim" =>
       \A i \in EmbIds \ todo[e] : vector[i] \in Configs => Dim[vector[i]] = Dim[config[e]]
  /\ stage[e] = "embed_tokenizer" =>
       \A i \in EmbIds \ todo[e] : vector[i] \in Configs => Tokenizer[vector[i]] = Tokenizer[config[e]]
  /\ stage[e] \notin {"closed", "dim"} => metaDim # None

NoneBefore == metaDim = None => \A i \in EmbIds : vector[i] \notin Configs

LastInv == SpaceTyped /\ NoneBefore /\ \A e \in Engines : Rewritten(e)

LEMMA InitLast == SpaceInit => LastInv
<1> SUFFICES ASSUME SpaceInit PROVE LastInv
  OBVIOUS
<1>1. SpaceTyped
  BY InitSpace DEF SpaceIInv
<1>2. NoneBefore /\ \A e \in Engines : Rewritten(e)
  BY EmbeddingAssumption DEF SpaceInit, NoneBefore, Rewritten
<1> QED
  BY <1>1, <1>2 DEF LastInv

LEMMA LastStep ==
  ASSUME OneEngine, LastInv, SpaceNext
  PROVE  NoneBefore' /\ \A e \in Engines : Rewritten(e)'
<1> PICK e \in Engines : \/ \E c \in Configs, a \in BOOLEAN : Open(e, c, a)
                         \/ Step(e)
                         \/ \E i \in EmbIds, v \in Configs \cup {NoVector, NoRow} : Write(e, i, v)
                         \/ Close(e)
  BY DEF SpaceNext
<1> SUFFICES NoneBefore' /\ Rewritten(e)'
  BY DEF OneEngine
<1>0. NoneBefore /\ Rewritten(e)
  BY DEF LastInv
<1> USE <1>0, EmbeddingAssumption
    DEF LastInv, SpaceTyped, SpaceTypeOK, NoneBefore, Rewritten, NewAt, Stop, Reembed, Recorded, meta
<1>1. ASSUME NEW c \in Configs, NEW a \in BOOLEAN, Open(e, c, a)
      PROVE NoneBefore' /\ Rewritten(e)'
  BY <1>1 DEF Open
<1>2. CASE Step(e)
  <2>1. CASE FirstDim(e) \/ SameDim(e)
    BY <2>1 DEF FirstDim, SameDim
  <2>2. CASE OtherDim(e) /\ allow[e]
    BY <2>2 DEF OtherDim
  <2>3. CASE OtherTokenizer(e) /\ allow[e]
    BY <2>3 DEF OtherTokenizer
  <2>4. CASE (OtherDim(e) \/ OtherTokenizer(e)) /\ ~allow[e]
    BY <2>4 DEF OtherDim, OtherTokenizer
  <2>5. CASE RecordDim(e)
    BY <2>5 DEF RecordDim
  <2>6. ASSUME NEW i \in EmbIds, EmbedOne(e, i) PROVE NoneBefore' /\ Rewritten(e)'
    BY <2>6 DEF EmbedOne
  <2>7. CASE NotLocal(e) \/ FirstTokenizer(e) \/ SameTokenizer(e)
    BY <2>7 DEF NotLocal, FirstTokenizer, SameTokenizer
  <2>8. CASE RecordTokenizer(e)
    BY <2>8 DEF RecordTokenizer
  <2> QED
    BY <1>2, <2>1, <2>2, <2>3, <2>4, <2>5, <2>6, <2>7, <2>8 DEF Step
<1>3. ASSUME NEW i \in EmbIds, NEW v \in Configs \cup {NoVector, NoRow}, Write(e, i, v)
      PROVE NoneBefore' /\ Rewritten(e)'
  BY <1>3 DEF Write
<1>4. CASE Close(e)
  BY <1>4 DEF Close
<1> QED
  BY <1>1, <1>2, <1>3, <1>4

\* Two steps record something over what there is: all is written by then.
LEMMA RecordedIsStored ==
  ASSUME LastInv, SpaceNext,
         NEW c \in {vector[i] : i \in EmbIds} \cap Configs
  PROVE  /\ metaDim' # metaDim => Dim[c] = metaDim'
         /\ metaTok' # metaTok /\ metaTok # None => Tokenizer[c] = metaTok'
<1> USE DEF LastInv, SpaceTyped, SpaceTypeOK, NewAt, Stop, Reembed, Recorded, meta
<1> PICK i \in EmbIds : vector[i] = c
  OBVIOUS
<1>1. ASSUME NEW e \in Engines, RecordDim(e) PROVE Dim[c] = metaDim' /\ metaTok' = metaTok
  BY <1>1 DEF RecordDim, Rewritten
<1>2. ASSUME NEW e \in Engines, RecordTokenizer(e) PROVE Tokenizer[c] = metaTok' /\ metaDim' = metaDim
  BY <1>2 DEF RecordTokenizer, Rewritten
<1>3. ASSUME NEW e \in Engines, FirstDim(e) PROVE FALSE
  BY <1>3 DEF FirstDim, NoneBefore
<1>4. ASSUME NEW e \in Engines, FirstTokenizer(e) PROVE metaTok = None /\ metaDim' = metaDim
  BY <1>4 DEF FirstTokenizer
<1>5. ASSUME NEW e \in Engines,
             \/ SameDim(e) \/ OtherDim(e) \/ NotLocal(e) \/ SameTokenizer(e) \/ OtherTokenizer(e)
             \/ (\E j \in EmbIds : EmbedOne(e, j)) \/ Close(e)
             \/ (\E d \in Configs, a \in BOOLEAN : Open(e, d, a))
             \/ (\E j \in EmbIds, v \in Configs \cup {NoVector, NoRow} : Write(e, j, v))
      PROVE  metaDim' = metaDim /\ metaTok' = metaTok
  BY <1>5 DEF SameDim, OtherDim, NotLocal, SameTokenizer, OtherTokenizer, EmbedOne, Close, Open, Write
<1> QED
  BY <1>1, <1>2, <1>3, <1>4, <1>5 DEF SpaceNext, Step

(* `meta` says of the vectors only what has become true of all of them.     *)
THEOREM MetaComesLastTheorem ==
  ASSUME OneEngine
  PROVE  SpaceSpec => MetaComesLast
<1>1. LastInv /\ [SpaceNext]_spaceVars => LastInv'
  <2> SUFFICES ASSUME LastInv, [SpaceNext]_spaceVars PROVE LastInv'
    OBVIOUS
  <2>1. CASE SpaceNext
    BY <2>1, SpaceTypeStep, LastStep DEF LastInv
  <2>2. CASE UNCHANGED spaceVars
    BY <2>2 DEF spaceVars, meta, LastInv, SpaceTyped, SpaceTypeOK, LocalReembeds, NoneBefore, Rewritten
  <2> QED
    BY <2>1, <2>2
<1>2. LastInv /\ [SpaceNext]_spaceVars =>
        [LET stored == {vector[i] : i \in EmbIds} \cap Configs IN
           /\ metaDim' # metaDim => \A c \in stored : Dim[c] = metaDim'
           /\ metaTok' # metaTok /\ metaTok # None => \A c \in stored : Tokenizer[c] = metaTok'
        ]_spaceVars
  BY RecordedIsStored
<1> QED
  BY <1>1, <1>2, InitLast, PTL DEF SpaceSpec, MetaComesLast

-----------------------------------------------------------------------------
(***************************************************************************)
(* Postgres.  Who is in a setup holds the lock, so nobody else creates     *)
(* what it has found missing.  Of the dimension: a column that is not what *)
(* `meta` says is of the dimension that is owed, or of an engine that is   *)
(* about to record it; and all who are not closed have one dimension.      *)
(***************************************************************************)
PgPoints == {"closed", "connect", "hook", "schema", "tables", "dim", "rebuild", "reembed", "open"}
PgObject == {"vector", "memories", "meta"}

\* What is left of a list of statements.
HookSteps  == {<< >>, <<"vector">>}
TableSteps == {<<"vector", "memories", "meta">>, <<"memories", "meta">>, <<"meta">>, << >>}

PgTyped ==
  /\ pgObjects \subseteq PgObject
  /\ {pgColumn, pgMeta, pgOwed} \subseteq PgDims \cup {PgNone}
  /\ pgRows \in [PgIds -> PgDims \cup {PgNull, PgNone}]
  /\ pgLock \in PgEngines \cup {PgNone}
  /\ pgAt \in [PgEngines -> PgPoints] /\ pgDim \in [PgEngines -> PgDims \cup {PgNone}]
  /\ pgCreate \in [PgEngines -> HookSteps \cup TableSteps]
  /\ pgMissing \in [PgEngines -> BOOLEAN] /\ pgTodo \in [PgEngines -> SUBSET PgIds]
  /\ DOMAIN pgAllow = PgEngines /\ pgUnbuilt \in BOOLEAN

InSetup(e) == pgAt[e] \in {"hook", "tables"}

SetupOf(e) ==
  /\ InSetup(e) => pgLock = e
  /\ pgMissing[e] => InSetup(e) /\ pgCreate[e] # << >> /\ Head(pgCreate[e]) \notin pgObjects
  /\ pgAt[e] = "hook" => pgCreate[e] \in HookSteps
  /\ pgAt[e] = "tables" => /\ pgCreate[e] \in TableSteps
                           /\ "memories" \notin pgObjects => Len(pgCreate[e]) >= 2
  /\ pgAt[e] \in {"dim", "rebuild", "reembed", "open"} => "memories" \in pgObjects

PgSetup ==
  /\ PgTyped /\ ~pgRaced /\ \A e \in PgEngines : SetupOf(e)
  /\ "memories" \in pgObjects <=> pgColumn # PgNone
  /\ pgMeta # PgNone => "memories" \in pgObjects
  /\ \A e \in PgEngines : pgAt[e] # "closed" => pgDim[e] # PgNone

Live(e) == pgAt[e] # "closed"

OneDimOpens ==
  /\ \A e, f \in PgEngines : Live(e) /\ Live(f) => pgDim[e] = pgDim[f]
  /\ pgOwed # PgNone => \A e \in PgEngines : Live(e) => pgDim[e] = pgOwed

\* Whose the column is when `meta` does not say so.
Claims(e) ==
  /\ pgDim[e] = pgColumn
  /\ pgAt[e] \in IF pgMeta = PgNone THEN {"tables", "dim"} ELSE {"reembed"}

ColumnIsClaimed ==
  pgColumn \notin {PgNone, pgMeta} => pgUnbuilt \/ pgOwed = pgColumn \/ \E e \in PgEngines : Claims(e)

FitOf(e) ==
  /\ pgAt[e] = "open" => pgMeta = pgDim[e] /\ (pgColumn = pgDim[e] \/ pgUnbuilt)
  /\ pgAt[e] = "reembed" /\ pgTodo[e] = {} => pgColumn = pgDim[e] \/ pgUnbuilt
  /\ pgAt[e] \in {"rebuild", "reembed"} => pgMeta # PgNone

PgFits == OneDimOpens /\ ColumnIsClaimed /\ \A e \in PgEngines : FitOf(e)

PgIInv == PgSetup /\ (~PgLapse => PgFits)

LEMMA PgConstants ==
  /\ PgNone \notin PgEngines /\ PgNone \notin PgDims
  /\ \A s \in HookSteps \cup TableSteps :
       s # << >> => /\ Head(s) \in PgObject /\ Tail(s) \in HookSteps \cup TableSteps
  /\ \A s \in HookSteps : s # << >> => Tail(s) \in HookSteps
  /\ \A s \in TableSteps :
       s # << >> => /\ Tail(s) \in TableSteps
                    /\ Head(s) # "memories" /\ Len(s) >= 2 => Len(Tail(s)) >= 2
  /\ Schema \in TableSteps /\ Len(Schema) >= 2
  /\ <<"vector">> \in HookSteps
BY PgAssumption DEF HookSteps, TableSteps, PgObject, Schema

LEMMA PgTypeFollows == PgTyped => PgTypeOK
<1>1. PgObject = {Schema[n] : n \in 1..Len(Schema)}
  <2>1. Len(Schema) = 3 /\ Schema[1] = "vector" /\ Schema[2] = "memories" /\ Schema[3] = "meta"
    BY DEF Schema
  <2>2. 1..3 = {1, 2, 3}
    OBVIOUS
  <2> QED
    BY <2>1, <2>2 DEF PgObject
<1> QED
  BY <1>1 DEF PgTyped, PgTypeOK

(* What another engine's step leaves of what holds for f.                  *)
Undisturbed(f) ==
  /\ pgAt'[f] = pgAt[f] /\ pgCreate'[f] = pgCreate[f] /\ pgMissing'[f] = pgMissing[f]
  /\ pgDim'[f] = pgDim[f]
  /\ pgLock = f => pgLock' = f /\ pgObjects' = pgObjects

LEMMA SetupKept ==
  ASSUME PgSetup, PgTyped', NEW e \in PgEngines, SetupOf(e)', pgObjects \subseteq pgObjects',
         \A f \in PgEngines \ {e} : Undisturbed(f),
         pgRaced' = pgRaced, pgAt'[e] # "closed" => pgDim'[e] # PgNone,
         \/ UNCHANGED <<pgObjects, pgColumn, pgMeta>>
         \/ /\ "memories" \in pgObjects' <=> pgColumn' # PgNone
            /\ pgMeta' # PgNone => "memories" \in pgObjects'
  PROVE  PgSetup'
<1>1. ASSUME NEW f \in PgEngines \ {e}
      PROVE  SetupOf(f)' /\ (pgAt'[f] # "closed" => pgDim'[f] # PgNone)
  <2>1. Undisturbed(f) /\ SetupOf(f)
    BY <1>1 DEF PgSetup
  <2> QED
    BY <1>1, <2>1 DEF PgSetup, SetupOf, InSetup, Undisturbed
<1> QED
  BY <1>1 DEF PgSetup

(* An engine gives up, or its process ends.                                *)
LEMMA StopSetup ==
  ASSUME PgSetup, NEW e \in PgEngines, PgStop(e), PgTyped',
         UNCHANGED <<pgObjects, pgColumn, pgMeta>>, pgRaced' = pgRaced
  PROVE  PgSetup'
<1>1. SetupOf(e)' /\ pgAt'[e] = "closed"
  BY DEF PgSetup, PgTyped, SetupOf, InSetup, PgStop, PgGoto
<1>2. \A f \in PgEngines \ {e} : Undisturbed(f)
  BY DEF PgSetup, PgTyped, PgStop, PgGoto, Undisturbed
<1> QED
  BY <1>1, <1>2, SetupKept

LEMMA StopTyped ==
  ASSUME PgSetup, NEW e \in PgEngines, PgStop(e), pgObjects' = pgObjects,
         UNCHANGED <<pgColumn, pgMeta, pgUnbuilt>>, pgOwed' \in {pgOwed, pgDim[e]},
         pgRows' \in [PgIds -> PgDims \cup {PgNull, PgNone}]
  PROVE  PgTyped'
BY PgConstants DEF PgSetup, PgTyped, PgStop, PgGoto, PgPoints, HookSteps

LEMMA StopFits ==
  ASSUME PgSetup, PgFits, NEW e \in PgEngines, PgStop(e), Live(e),
         UNCHANGED <<pgObjects, pgColumn, pgMeta, pgUnbuilt>>,
         \/ PgCutShort(e)
         \/ pgOwed' = pgOwed /\ pgAt[e] = "dim" /\ pgMeta # PgNone
  PROVE  PgFits'
<1>1. /\ pgAt' = [pgAt EXCEPT ![e] = "closed"] /\ pgDim' = [pgDim EXCEPT ![e] = PgNone]
      /\ pgTodo' = [pgTodo EXCEPT ![e] = {}]
      /\ pgAt \in [PgEngines -> PgPoints] /\ pgDim \in [PgEngines -> PgDims \cup {PgNone}]
      /\ pgTodo \in [PgEngines -> SUBSET PgIds]
  BY DEF PgStop, PgGoto, PgSetup, PgTyped
<1>2. pgOwed' = pgOwed \/ (pgOwed' = pgDim[e] /\ pgAt[e] # "open")
  BY DEF PgCutShort
<1>3. OneDimOpens'
  BY <1>1, <1>2 DEF PgFits, OneDimOpens, Live
<1>4. \A f \in PgEngines : FitOf(f)'
  BY <1>1 DEF PgFits, FitOf
<1>5. ASSUME pgColumn \notin {PgNone, pgMeta}, ~pgUnbuilt
      PROVE  pgOwed' = pgColumn \/ \E f \in PgEngines : Claims(f)'
  <2>1. CASE pgOwed = pgColumn
    BY <1>2, <1>5, <2>1 DEF PgFits, OneDimOpens, Live
  <2>2. ASSUME NEW f \in PgEngines, f # e, Claims(f)
        PROVE  Claims(f)'
    BY <1>1, <2>2 DEF Claims
  <2>3. CASE Claims(e)
    <3>1. pgOwed' = pgDim[e]
      BY <2>3 DEF Claims, PgCutShort
    <3> QED
      BY <2>3, <3>1 DEF Claims
  <2> QED
    BY <1>5, <2>1, <2>2, <2>3 DEF PgFits, ColumnIsClaimed
<1> QED
  BY <1>3, <1>4, <1>5 DEF PgFits, ColumnIsClaimed

(* Neither the column nor what is recorded or owed changes.                *)
LEMMA FitsKept ==
  ASSUME PgFits, NEW e \in PgEngines, Live(e), Live(e)',
         UNCHANGED <<pgColumn, pgMeta, pgOwed, pgDim, pgUnbuilt>>,
         \A f \in PgEngines \ {e} : pgAt'[f] = pgAt[f] /\ pgTodo'[f] = pgTodo[f],
         FitOf(e)', Claims(e) => Claims(e)'
  PROVE  PgFits'
<1>1. OneDimOpens'
  BY DEF PgFits, OneDimOpens, Live
<1>2. \A f \in PgEngines : FitOf(f)'
  BY DEF PgFits, FitOf
<1>3. \A f \in PgEngines : Claims(f) => Claims(f)'
  BY DEF Claims
<1>4. ColumnIsClaimed'
  BY <1>3 DEF PgFits, ColumnIsClaimed
<1> QED
  BY <1>1, <1>2, <1>4 DEF PgFits

LEMMA InitPg == PgInit => PgIInv
BY PgConstants DEF PgInit, PgIInv, PgSetup, PgTyped, PgPoints, HookSteps, SetupOf, InSetup, PgFits,
                   OneDimOpens, Live, ColumnIsClaimed, FitOf

LEMMA PgOpenInv ==
  ASSUME PgIInv, NEW e \in PgEngines, NEW d \in PgDims, NEW a, PgOpen(e, d, a)
  PROVE  PgIInv'
<1> USE PgConstants
<1>1. PgTyped'
  BY DEF PgIInv, PgSetup, PgTyped, PgPoints, PgOpen, PgGoto, pgDatabase
<1>2. SetupOf(e)' /\ pgDim'[e] # PgNone
  BY DEF PgIInv, PgSetup, PgTyped, SetupOf, InSetup, PgOpen, PgGoto, pgDatabase
<1>3. \A f \in PgEngines \ {e} : Undisturbed(f)
  BY DEF PgIInv, PgSetup, PgTyped, PgOpen, PgGoto, pgDatabase, Undisturbed
<1>4. PgSetup'
  BY <1>1, <1>2, <1>3, SetupKept DEF PgIInv, PgOpen, pgDatabase
<1>5. ASSUME ~PgLapse
      PROVE  PgFits'
  <2>1. /\ pgAt' = [pgAt EXCEPT ![e] = "connect"] /\ pgDim' = [pgDim EXCEPT ![e] = d]
        /\ pgAt \in [PgEngines -> PgPoints] /\ pgDim \in [PgEngines -> PgDims \cup {PgNone}]
        /\ pgAt[e] = "closed" /\ (\A f \in PgEngines : Live(f) => pgDim[f] = d)
        /\ pgOwed \in {d, PgNone} /\ UNCHANGED <<pgColumn, pgMeta, pgOwed, pgTodo, pgUnbuilt>>
    BY <1>5 DEF PgIInv, PgSetup, PgTyped, PgOpen, PgGoto, pgDatabase, Live
  <2>2. OneDimOpens'
    BY <2>1 DEF OneDimOpens, Live
  <2>3. \A f \in PgEngines : FitOf(f)'
    BY <1>5, <2>1 DEF PgIInv, PgFits, FitOf
  <2>4. \A f \in PgEngines : Claims(f) => Claims(f)'
    BY <2>1 DEF Claims
  <2> QED
    BY <1>5, <2>1, <2>2, <2>3, <2>4 DEF PgIInv, PgFits, ColumnIsClaimed
<1> QED
  BY <1>4, <1>5 DEF PgIInv

LEMMA PgCloseInv ==
  ASSUME PgIInv, NEW e \in PgEngines, PgClose(e)
  PROVE  PgIInv'
<1>1. PgStop(e) /\ PgCutShort(e) /\ Live(e) /\ UNCHANGED <<pgObjects, pgColumn, pgMeta, pgRows, pgRaced, pgUnbuilt>>
  BY DEF PgClose, pgDatabase, Live
<1>2. PgTyped'
  <2>1. pgOwed' \in {pgOwed, pgDim[e]} /\ pgRows' \in [PgIds -> PgDims \cup {PgNull, PgNone}]
    BY <1>1 DEF PgCutShort, PgIInv, PgSetup, PgTyped
  <2> QED
    BY <1>1, <2>1, StopTyped DEF PgIInv
<1>3. PgSetup'
  BY <1>1, <1>2, StopSetup DEF PgIInv
<1> QED
  BY <1>1, <1>3, StopFits DEF PgIInv

(* A step of an engine that is not closed, of the lock or of its list.     *)
LEMMA TakeLockInv ==
  ASSUME PgIInv, NEW e \in PgEngines, AfterConnect(e) \/ ApplyPGSchema(e)
  PROVE  PgIInv'
<1> USE PgConstants
<1>1. PgTyped'
  <2>1. CASE AfterConnect(e)
    BY <2>1 DEF PgIInv, PgSetup, PgTyped, PgPoints, AfterConnect, PgGoto, pgDatabase
  <2>2. CASE ApplyPGSchema(e)
    BY <2>2 DEF PgIInv, PgSetup, PgTyped, PgPoints, ApplyPGSchema, PgGoto, pgDatabase
  <2> QED
    BY <2>1, <2>2
<1>2. SetupOf(e)'
  BY DEF PgIInv, PgSetup, PgTyped, SetupOf, InSetup, AfterConnect, ApplyPGSchema, PgGoto, pgDatabase
<1>3. \A f \in PgEngines \ {e} : Undisturbed(f)
  BY DEF PgIInv, PgSetup, PgTyped, AfterConnect, ApplyPGSchema, PgGoto, pgDatabase, Undisturbed
<1>4. PgSetup'
  <2>1. Live(e) /\ UNCHANGED <<pgObjects, pgColumn, pgMeta, pgRaced, pgUnbuilt, pgDim>>
    BY DEF AfterConnect, ApplyPGSchema, pgDatabase, Live
  <2> QED
    BY <1>1, <1>2, <1>3, <2>1, SetupKept DEF PgIInv, PgSetup, Live
<1>5. Live(e) /\ Live(e)' /\ FitOf(e)' /\ (Claims(e) => Claims(e)')
  BY DEF PgIInv, PgSetup, PgTyped, Live, FitOf, Claims, AfterConnect, ApplyPGSchema, PgGoto, pgDatabase
<1>6. UNCHANGED <<pgColumn, pgMeta, pgOwed, pgDim, pgUnbuilt>>
      /\ \A f \in PgEngines \ {e} : pgAt'[f] = pgAt[f] /\ pgTodo'[f] = pgTodo[f]
  BY <1>3 DEF Undisturbed, AfterConnect, ApplyPGSchema, pgDatabase
<1> QED
  BY <1>4, <1>5, <1>6, FitsKept DEF PgIInv

LEMMA LookForInv ==
  ASSUME PgIInv, NEW e \in PgEngines, LookFor(e)
  PROVE  PgIInv'
<1> DEFINE object == Head(pgCreate[e])
<1>1. /\ InSetup(e) /\ pgCreate[e] # << >> /\ ~pgMissing[e]
      /\ UNCHANGED <<pgDatabase, pgLock, pgAt, pgDim, pgAllow, pgTodo, pgRaced, pgUnbuilt, pgOwed>>
      /\ \/ /\ object \in pgObjects /\ pgCreate' = [pgCreate EXCEPT ![e] = Tail(pgCreate[e])]
            /\ pgMissing' = pgMissing
         \/ /\ object \notin pgObjects /\ pgMissing' = [pgMissing EXCEPT ![e] = TRUE]
            /\ pgCreate' = pgCreate
  BY DEF LookFor, InSetup
<1> HIDE DEF object
<1>2. PgTyped'
  <2>1. Tail(pgCreate[e]) \in HookSteps \cup TableSteps
    BY <1>1, PgConstants DEF PgIInv, PgSetup, PgTyped
  <2>2. PgTyped
    BY DEF PgIInv, PgSetup
  <2>3. pgCreate' \in [PgEngines -> HookSteps \cup TableSteps]
    BY <1>1, <2>1, <2>2 DEF PgTyped
  <2>4. pgMissing' \in [PgEngines -> BOOLEAN]
    BY <1>1, <2>2 DEF PgTyped
  <2> QED
    BY <1>1, <2>2, <2>3, <2>4 DEF PgTyped, pgDatabase
<1>3. SetupOf(e)'
  <2>1. SetupOf(e) /\ pgCreate \in [PgEngines -> HookSteps \cup TableSteps]
        /\ pgMissing \in [PgEngines -> BOOLEAN]
    BY DEF PgIInv, PgSetup, PgTyped
  <2>2. CASE object \in pgObjects /\ pgCreate' = [pgCreate EXCEPT ![e] = Tail(pgCreate[e])]
    <3>1. pgAt[e] = "tables" /\ "memories" \notin pgObjects =>
             pgCreate[e] \in TableSteps /\ object # "memories" /\ Len(pgCreate[e]) >= 2
      BY <2>1, <2>2, PgConstants DEF SetupOf
    <3>2. pgAt[e] = "tables" /\ "memories" \notin pgObjects => Len(Tail(pgCreate[e])) >= 2
      BY <1>1, <3>1, PgConstants DEF object
    <3>3. /\ pgCreate'[e] = Tail(pgCreate[e]) /\ ~pgMissing'[e]
          /\ UNCHANGED <<pgLock, pgAt, pgObjects>>
      BY <1>1, <2>1, <2>2 DEF pgDatabase
    <3>4. /\ pgAt[e] = "hook" => Tail(pgCreate[e]) \in HookSteps
          /\ pgAt[e] = "tables" => Tail(pgCreate[e]) \in TableSteps
      BY <1>1, <2>1, PgConstants DEF SetupOf
    <3> QED
      BY <1>1, <2>1, <3>2, <3>3, <3>4 DEF SetupOf, InSetup
  <2>3. CASE object \notin pgObjects /\ pgMissing' = [pgMissing EXCEPT ![e] = TRUE]
    BY <1>1, <2>1, <2>3 DEF SetupOf, InSetup, pgDatabase, object
  <2> QED
    BY <1>1, <2>2, <2>3
<1>4. \A f \in PgEngines \ {e} : Undisturbed(f)
  BY <1>1 DEF PgIInv, PgSetup, PgTyped, pgDatabase, Undisturbed
<1>5. PgSetup'
  BY <1>1, <1>2, <1>3, <1>4, SetupKept DEF PgIInv, PgSetup, pgDatabase
<1>6. Live(e) /\ Live(e)' /\ (PgFits => FitOf(e)') /\ (Claims(e) => Claims(e)')
  BY <1>1 DEF PgFits, Live, FitOf, Claims, InSetup, pgDatabase
<1> QED
  BY <1>1, <1>5, <1>6, FitsKept DEF PgIInv, pgDatabase

LEMMA CreateMissingInv ==
  ASSUME PgIInv, NEW e \in PgEngines, CreateMissing(e)
  PROVE  PgIInv'
<1> USE PgConstants
<1> DEFINE object == Head(pgCreate[e])
<1>1. InSetup(e) /\ pgLock = e /\ pgCreate[e] # << >> /\ object \notin pgObjects /\ Live(e)
  BY DEF PgIInv, PgSetup, SetupOf, CreateMissing, InSetup, Live
<1>2. /\ pgObjects' = pgObjects \cup {object}
      /\ pgColumn' = IF object = "memories" THEN pgDim[e] ELSE pgColumn
      /\ pgCreate' = [pgCreate EXCEPT ![e] = Tail(pgCreate[e])]
      /\ pgMissing' = [pgMissing EXCEPT ![e] = FALSE]
      /\ UNCHANGED <<pgMeta, pgRows, pgLock, pgAt, pgDim, pgAllow, pgTodo, pgRaced, pgUnbuilt, pgOwed>>
  BY <1>1 DEF CreateMissing
<1>3. PgTyped'
  BY <1>1, <1>2 DEF PgIInv, PgSetup, PgTyped
<1>4. SetupOf(e)'
  BY <1>1, <1>2 DEF PgIInv, PgSetup, PgTyped, SetupOf, InSetup
<1>5. \A f \in PgEngines \ {e} : Undisturbed(f)
  BY <1>1, <1>2 DEF PgIInv, PgSetup, PgTyped, Undisturbed
<1>6. /\ "memories" \in pgObjects' <=> pgColumn' # PgNone
      /\ pgMeta' # PgNone => "memories" \in pgObjects'
  BY <1>1, <1>2 DEF PgIInv, PgSetup, InSetup
<1>7. PgSetup'
  BY <1>1, <1>2, <1>3, <1>4, <1>5, <1>6, SetupKept DEF PgIInv, PgSetup, Live
<1>8. ASSUME ~PgLapse
      PROVE  PgFits'
  <2>1. CASE object # "memories"
    <3>1. FitOf(e)' /\ (Claims(e) => Claims(e)') /\ Live(e)'
      BY <1>1, <1>2, <2>1 DEF FitOf, Claims, InSetup, Live
    <3> QED
      BY <1>1, <1>2, <1>8, <2>1, <3>1, FitsKept DEF PgIInv
  <2>2. CASE object = "memories"
    <3>1. pgMeta = PgNone /\ pgAt[e] = "tables"
      BY <1>1, <2>2 DEF PgIInv, PgSetup, SetupOf, InSetup, HookSteps
    <3>2. Claims(e)'
      BY <1>2, <2>2, <3>1 DEF Claims
    <3>3. \A f \in PgEngines : FitOf(f)'
      BY <1>1, <1>2, <1>8, <2>2 DEF PgIInv, PgSetup, SetupOf, FitOf, PgFits
    <3>4. OneDimOpens'
      BY <1>2, <1>8 DEF PgIInv, PgFits, OneDimOpens, Live
    <3> QED
      BY <3>2, <3>3, <3>4 DEF PgFits, ColumnIsClaimed
  <2> QED
    BY <2>1, <2>2
<1> QED
  BY <1>7, <1>8 DEF PgIInv

LEMMA UnlockInv ==
  ASSUME PgIInv, NEW e \in PgEngines, Unlock(e)
  PROVE  PgIInv'
<1> USE PgConstants
<1>1. /\ pgLock = e /\ pgLock' = PgNone /\ pgCreate[e] = << >> /\ ~pgMissing[e]
      /\ \/ pgAt[e] = "hook" /\ pgAt' = [pgAt EXCEPT ![e] = "schema"]
         \/ pgAt[e] = "tables" /\ pgAt' = [pgAt EXCEPT ![e] = "dim"] /\ "memories" \in pgObjects
      /\ UNCHANGED <<pgDatabase, pgDim, pgAllow, pgCreate, pgMissing, pgTodo, pgRaced, pgUnbuilt, pgOwed>>
  <2>1. SetupOf(e) /\ pgLock \in PgEngines \cup {PgNone} /\ pgMissing[e] \in BOOLEAN
    BY DEF PgIInv, PgSetup, PgTyped
  <2>2. pgAt[e] \in {"hook", "tables"} /\ pgCreate[e] = << >> /\ Len(pgCreate[e]) = 0
    BY DEF Unlock
  <2>3. /\ pgLock = e /\ ~pgMissing[e]
        /\ pgAt[e] = "tables" => "memories" \in pgObjects
    BY <2>1, <2>2 DEF SetupOf, InSetup
  <2> QED
    BY <2>2, <2>3 DEF Unlock, PgGoto
<1>2. PgTyped'
  BY <1>1 DEF PgIInv, PgSetup, PgTyped, PgPoints, pgDatabase
<1>3. SetupOf(e)'
  BY <1>1 DEF PgIInv, PgSetup, PgTyped, SetupOf, InSetup, pgDatabase
<1>4. \A f \in PgEngines \ {e} : Undisturbed(f)
  BY <1>1 DEF PgIInv, PgSetup, PgTyped, pgDatabase, Undisturbed
<1>5. PgSetup'
  BY <1>1, <1>2, <1>3, <1>4, SetupKept DEF PgIInv, PgSetup, pgDatabase
<1>6. Live(e) /\ Live(e)' /\ FitOf(e)' /\ (Claims(e) => Claims(e)')
  BY <1>1 DEF PgIInv, PgSetup, PgTyped, Live, FitOf, Claims, pgDatabase
<1> QED
  BY <1>1, <1>5, <1>6, FitsKept DEF PgIInv, PgSetup, PgTyped, pgDatabase

(* A step of an engine past the schema that only moves it, or records.     *)
LEMMA PastSchema ==
  ASSUME PgSetup, NEW e \in PgEngines, PgTyped', pgAt[e] \in {"dim", "rebuild", "reembed", "open"},
         pgAt' = [pgAt EXCEPT ![e] = pgAt'[e]], pgAt'[e] \in {"rebuild", "reembed", "open"},
         UNCHANGED <<pgObjects, pgLock, pgDim, pgCreate, pgMissing, pgRaced>>,
         pgColumn' \in {pgColumn, pgDim[e]}
  PROVE  PgSetup'
<1> USE PgConstants
<1>1. SetupOf(e)'
  BY DEF PgSetup, PgTyped, SetupOf, InSetup
<1>2. \A f \in PgEngines \ {e} : Undisturbed(f)
  BY DEF PgSetup, PgTyped, Undisturbed
<1>3. /\ "memories" \in pgObjects' <=> pgColumn' # PgNone
      /\ pgMeta' # PgNone => "memories" \in pgObjects'
  BY DEF PgSetup, SetupOf
<1>4. pgDim'[e] # PgNone
  BY DEF PgSetup
<1> QED
  BY <1>1, <1>2, <1>3, <1>4, SetupKept

(* The open engine, its dimension recorded.                                *)
LEMMA OpenedFits ==
  ASSUME PgSetup, PgFits, NEW e \in PgEngines, Live(e), PgOpened(e),
         pgColumn = pgDim[e] \/ pgUnbuilt, pgMeta' = pgDim[e],
         UNCHANGED <<pgColumn, pgDim, pgTodo, pgUnbuilt>>
  PROVE  PgFits'
<1>1. pgAt' = [pgAt EXCEPT ![e] = "open"] /\ pgAt \in [PgEngines -> PgPoints]
      /\ pgOwed' \in {pgOwed, PgNone}
  BY DEF PgOpened, PgGoto, PgSetup, PgTyped
<1>2. OneDimOpens'
  BY <1>1 DEF PgFits, OneDimOpens, Live
<1>3. pgDim[e] # PgNone
  BY DEF PgSetup, Live
<1>4. ASSUME NEW f \in PgEngines
      PROVE  FitOf(f)'
  <2>1. Live(f) => pgDim[f] = pgDim[e]
    BY DEF PgFits, OneDimOpens
  <2> QED
    BY <1>1, <1>3, <2>1 DEF PgFits, FitOf, Live
<1> QED
  BY <1>2, <1>4 DEF PgFits, ColumnIsClaimed

LEMMA ColumnOfTheFirst ==
  ASSUME PgSetup, PgFits, NEW e \in PgEngines, pgAt[e] = "dim", pgMeta \in {PgNone, pgDim[e]}
  PROVE  pgColumn = pgDim[e] \/ pgUnbuilt
<1>1. pgColumn # PgNone /\ Live(e)
  BY DEF PgSetup, SetupOf, Live
<1>2. \A f \in PgEngines : Claims(f) => Live(f) /\ pgDim[f] = pgColumn
  BY DEF Claims, Live
<1> QED
  BY <1>1, <1>2 DEF PgFits, OneDimOpens, ColumnIsClaimed

LEMMA PgCompareDimInv ==
  ASSUME PgIInv, NEW e \in PgEngines, PgCompareDim(e)
  PROVE  PgIInv'
<1> USE PgConstants
<1>1. pgAt[e] = "dim" /\ UNCHANGED <<pgObjects, pgColumn, pgRows, pgRaced, pgUnbuilt>> /\ Live(e)
      /\ pgDim[e] \in PgDims
  BY DEF PgCompareDim, Live, PgIInv, PgSetup, PgTyped
<1>2. CASE pgMeta \in {PgNone, pgDim[e]}
  <2>1. /\ pgMeta' = pgDim[e] /\ PgOpened(e)
        /\ UNCHANGED <<pgLock, pgDim, pgAllow, pgCreate, pgMissing, pgTodo>>
    BY <1>1, <1>2 DEF PgCompareDim
  <2>2. PgTyped'
    BY <1>1, <2>1 DEF PgIInv, PgSetup, PgTyped, PgPoints, PgOpened, PgGoto
  <2>3. PgSetup'
    BY <1>1, <2>1, <2>2, PastSchema DEF PgIInv, PgOpened, PgGoto, PgSetup, PgTyped
  <2> QED
    BY <1>1, <1>2, <2>1, <2>3, ColumnOfTheFirst, OpenedFits DEF PgIInv
<1>3. CASE pgMeta \notin {PgNone, pgDim[e]} /\ pgAllow[e]
  <2>1. /\ PgGoto(e, "rebuild")
        /\ UNCHANGED <<pgMeta, pgLock, pgDim, pgAllow, pgCreate, pgMissing, pgTodo, pgOwed>>
    BY <1>1, <1>3 DEF PgCompareDim
  <2>2. PgTyped'
    BY <1>1, <2>1 DEF PgIInv, PgSetup, PgTyped, PgPoints, PgGoto
  <2>3. PgSetup'
    BY <1>1, <2>1, <2>2, PastSchema DEF PgIInv, PgGoto, PgSetup, PgTyped
  <2>4. FitOf(e)' /\ Live(e)' /\ (Claims(e) => Claims(e)')
        /\ \A f \in PgEngines \ {e} : pgAt'[f] = pgAt[f] /\ pgTodo'[f] = pgTodo[f]
    BY <1>1, <1>3, <2>1 DEF PgIInv, PgSetup, PgTyped, PgGoto, FitOf, Live, Claims
  <2> QED
    BY <1>1, <2>1, <2>3, <2>4, FitsKept DEF PgIInv
<1>4. CASE pgMeta \notin {PgNone, pgDim[e]} /\ ~pgAllow[e]
  <2>1. PgStop(e) /\ UNCHANGED <<pgMeta, pgOwed>>
    BY <1>1, <1>4 DEF PgCompareDim
  <2>2. PgTyped'
    BY <1>1, <2>1, StopTyped DEF PgIInv, PgSetup, PgTyped
  <2>3. PgSetup'
    BY <1>1, <2>1, <2>2, StopSetup DEF PgIInv
  <2> QED
    BY <1>1, <1>4, <2>1, <2>3, StopFits DEF PgIInv
<1> QED
  BY <1>2, <1>3, <1>4

LEMMA RebuildInv ==
  ASSUME PgIInv, NEW e \in PgEngines, RebuildVectorIndex(e)
  PROVE  PgIInv'
<1> USE PgConstants
<1>1. /\ pgAt[e] = "rebuild" /\ pgAt' = [pgAt EXCEPT ![e] = "reembed"]
      /\ pgTodo' = [pgTodo EXCEPT ![e] = PgPresent] /\ PgPresent \subseteq PgIds
      /\ \/ pgColumn' = pgDim[e] /\ pgUnbuilt' = FALSE
         \/ /\ pgColumn' = pgColumn
            /\ pgUnbuilt' = (pgUnbuilt \/ (PgPresent = {} /\ pgColumn # pgDim[e]))
      /\ UNCHANGED <<pgObjects, pgMeta, pgLock, pgDim, pgAllow, pgCreate, pgMissing, pgRaced, pgOwed>>
  BY DEF RebuildVectorIndex, PgGoto, PgPresent
<1>2. pgRows' \in [PgIds -> PgDims \cup {PgNull, PgNone}] /\ pgUnbuilt' \in BOOLEAN
  BY DEF RebuildVectorIndex, PgIInv, PgSetup, PgTyped
<1>3. PgTyped'
  BY <1>1, <1>2 DEF PgIInv, PgSetup, PgTyped, PgPoints
<1>4. PgSetup'
  BY <1>1, <1>3, PastSchema DEF PgIInv, PgSetup, PgTyped
<1>5. ASSUME ~PgLapse
      PROVE  PgFits'
  <2>1. /\ pgAt \in [PgEngines -> PgPoints] /\ pgTodo \in [PgEngines -> SUBSET PgIds]
        /\ PgFits /\ Live(e) /\ pgMeta # PgNone
        /\ \A f \in PgEngines : Live(f) => pgDim[f] = pgDim[e]
    BY <1>1, <1>5 DEF PgIInv, PgSetup, PgTyped, Live, PgFits, OneDimOpens, FitOf
  <2>2. OneDimOpens'
    BY <1>1, <2>1 DEF PgFits, OneDimOpens, Live
  <2>3. CASE pgColumn' = pgDim[e] /\ pgUnbuilt' = FALSE
    <3>1. \A f \in PgEngines : FitOf(f)'
      BY <1>1, <2>1, <2>3 DEF PgFits, FitOf, Live
    <3> QED
      BY <1>1, <2>1, <2>2, <2>3, <3>1 DEF PgFits, ColumnIsClaimed, Claims
  <2>4. CASE /\ pgColumn' = pgColumn
             /\ pgUnbuilt' = (pgUnbuilt \/ (PgPresent = {} /\ pgColumn # pgDim[e]))
    <3>1. \A f \in PgEngines : FitOf(f)'
      BY <1>1, <2>1, <2>4 DEF PgFits, FitOf, Live
    <3>2. \A f \in PgEngines : Claims(f) => Claims(f)'
      BY <1>1, <2>1, <2>4 DEF Claims
    <3> QED
      BY <1>1, <2>1, <2>2, <2>4, <3>1, <3>2 DEF PgFits, ColumnIsClaimed
  <2> QED
    BY <1>1, <2>3, <2>4
<1> QED
  BY <1>4, <1>5 DEF PgIInv

LEMMA PgReembedInv ==
  ASSUME PgIInv, NEW e \in PgEngines, NEW i \in PgIds, PgReembed(e, i)
  PROVE  PgIInv'
<1> USE PgConstants
<1>1. pgAt[e] = "reembed" /\ UNCHANGED <<pgObjects, pgColumn, pgMeta, pgRaced, pgUnbuilt>> /\ Live(e)
  BY DEF PgReembed, Live
<1>2. CASE pgColumn = pgDim[e]
  <2>1. /\ pgRows' = [pgRows EXCEPT ![i] = pgDim[e]]
        /\ pgTodo' = [pgTodo EXCEPT ![e] = pgTodo[e] \ {i}]
        /\ UNCHANGED <<pgLock, pgAt, pgDim, pgAllow, pgCreate, pgMissing, pgOwed>>
    BY <1>2 DEF PgReembed
  <2>2. PgTyped'
    BY <1>1, <2>1 DEF PgIInv, PgSetup, PgTyped
  <2>3. PgSetup'
    BY <1>1, <2>1, <2>2, PastSchema DEF PgIInv, PgSetup, PgTyped
  <2>4. (PgFits => FitOf(e)') /\ Live(e)' /\ (Claims(e) => Claims(e)')
        /\ \A f \in PgEngines \ {e} : pgAt'[f] = pgAt[f] /\ pgTodo'[f] = pgTodo[f]
    BY <1>1, <1>2, <2>1 DEF PgIInv, PgSetup, PgTyped, PgFits, FitOf, Live, Claims
  <2> QED
    BY <1>1, <2>1, <2>3, <2>4, FitsKept DEF PgIInv
<1>3. CASE pgColumn # pgDim[e]
  <2>1. PgStop(e) /\ PgCutShort(e) /\ UNCHANGED pgRows
    BY <1>3 DEF PgReembed
  <2>2. PgTyped'
    <3>1. pgOwed' \in {pgOwed, pgDim[e]} /\ pgRows' \in [PgIds -> PgDims \cup {PgNull, PgNone}]
      BY <2>1 DEF PgCutShort, PgIInv, PgSetup, PgTyped
    <3> QED
      BY <1>1, <2>1, <3>1, StopTyped DEF PgIInv
  <2>3. PgSetup'
    BY <1>1, <2>1, <2>2, StopSetup DEF PgIInv
  <2> QED
    BY <1>1, <2>1, <2>3, StopFits DEF PgIInv
<1> QED
  BY <1>2, <1>3

LEMMA PgRecordDimInv ==
  ASSUME PgIInv, NEW e \in PgEngines, PgRecordDim(e)
  PROVE  PgIInv'
<1> USE PgConstants
<1>1. /\ pgAt[e] = "reembed" /\ pgTodo[e] = {} /\ Live(e)
      /\ pgMeta' = pgDim[e] /\ PgOpened(e) /\ pgDim[e] \in PgDims
      /\ UNCHANGED <<pgObjects, pgColumn, pgRows, pgLock, pgDim, pgAllow, pgCreate, pgMissing,
                     pgTodo, pgRaced, pgUnbuilt>>
  BY DEF PgRecordDim, PgIInv, PgSetup, PgTyped, Live
<1>2. PgTyped'
  BY <1>1 DEF PgIInv, PgSetup, PgTyped, PgPoints, PgOpened, PgGoto
<1>3. PgSetup'
  BY <1>1, <1>2, PastSchema DEF PgIInv, PgOpened, PgGoto, PgSetup, PgTyped
<1>4. PgFits => pgColumn = pgDim[e] \/ pgUnbuilt
  BY <1>1 DEF PgFits, FitOf
<1> QED
  BY <1>1, <1>3, <1>4, OpenedFits DEF PgIInv

LEMMA PgSame ==
  ASSUME PgIInv, UNCHANGED <<pgObjects, pgColumn, pgMeta, pgLock, pgEngine, pgRaced, pgUnbuilt, pgOwed>>,
         pgRows' \in [PgIds -> PgDims \cup {PgNull, PgNone}]
  PROVE  PgIInv'
BY DEF PgIInv, PgSetup, PgTyped, SetupOf, InSetup, PgFits, OneDimOpens, Live, ColumnIsClaimed, Claims,
       FitOf, pgEngine

LEMMA NextPg == PgIInv /\ [PgNext]_pgVars => PgIInv'
<1> SUFFICES ASSUME PgIInv, [PgNext]_pgVars
             PROVE  PgIInv'
  OBVIOUS
<1>1. ASSUME NEW e \in PgEngines, NEW i \in PgIds, NEW v \in PgDims \cup {PgNull, PgNone},
             PgWrite(e, i, v)
      PROVE  PgIInv'
  BY <1>1, PgSame DEF PgWrite, PgIInv, PgSetup, PgTyped
<1>2. CASE UNCHANGED pgVars
  BY <1>2, PgSame DEF pgVars, pgDatabase, PgIInv, PgSetup, PgTyped
<1>3. CASE PgNext
  BY <1>1, <1>3, PgOpenInv, PgCloseInv, TakeLockInv, LookForInv, CreateMissingInv, UnlockInv,
     PgCompareDimInv, RebuildInv, PgReembedInv, PgRecordDimInv DEF PgNext
<1> QED
  BY <1>2, <1>3

LEMMA PgInvariance == PgSpec => []PgIInv
BY InitPg, NextPg, PTL DEF PgSpec

(* The state of database and engines is typed, for any engines, dimensions *)
(* and memories.                                                           *)
THEOREM PgTypeCorrect == PgSpec => []PgTypeOK
<1>1. PgIInv => PgTypeOK
  BY PgTypeFollows DEF PgIInv, PgSetup
<1> QED
  BY <1>1, PgInvariance, PTL

(* However many processes open a fresh database, and whoever is killed     *)
(* while holding the lock, no CREATE .. IF NOT EXISTS meets an object that *)
(* it has found missing.                                                   *)
THEOREM SetupNeverRacesTheorem == PgSpec => []SetupNeverRaces
<1>1. PgIInv => SetupNeverRaces
  BY DEF PgIInv, PgSetup, SetupNeverRaces
<1> QED
  BY <1>1, PgInvariance, PTL

(* Where an open that was cut short is tried again, the column of an open  *)
(* engine has the dimension of its vectors, unless the last rebuild failed *)
(* over a table without memories.                                          *)
THEOREM WritesFitTheorem == PgSpec => [](~PgLapse => WritesFit)
<1>1. PgIInv => (~PgLapse => WritesFit)
  BY DEF PgIInv, PgFits, FitOf, WritesFit
<1> QED
  BY <1>1, PgInvariance, PTL

-----------------------------------------------------------------------------
(***************************************************************************)
(* Secrets.  While no call that makes a key has overlapped another, it is  *)
(* alone, and what the others have read, and have written to the temporary *)
(* file, is sealed with the present key.  While no two have been at the    *)
(* temporary file at once, the one that has emptied it finds it empty.     *)
(***************************************************************************)
KeyNumbers == 1..(KeyChanges + 1) \cup {NoKey, BlankKey}
Entries == [SecretNames -> 1..(KeyChanges + 1) \cup {NoKey, Torn}]

\* Where a call may stand.
CallStates ==
  {Idle} \cup [call : {"set", "rm"}, at : {"read", "write", "fill", "rename"}]
         \cup [call : {"setkey"}, at : {"read", "writekey", "fillkey", "renamekey"}]
         \cup [call : {"resetkey"},
               at : {"read", "writekey", "fillkey", "write", "fill", "renamekey", "rename"}]

SecretTyped ==
  /\ masterFile \in KeyNumbers /\ masterTmp \in KeyNumbers /\ keys \in 0..(KeyChanges + 1)
  /\ secretsFile \in Entries /\ secretsTmp \subseteq Entries /\ rekeyed \in BOOLEAN
  /\ held \in [SecretProcs -> Entries] /\ heldKey \in [SecretProcs -> KeyNumbers]
  /\ secretAt \in [SecretProcs -> CallStates] /\ mixed \in BOOLEAN
  /\ fd \in [SecretProcs -> {"none", "tmp", "placed", "gone"}]

SealedWith(entries, key) == \A n \in SecretNames : entries[n] \in {NoKey, Torn, key}

KeyCallIsAlone ==
  \A p, q \in SecretProcs : secretAt[p].call \in MakesKey /\ p # q => secretAt[q].call = "none"

Plain(p) == secretAt[p].call \in {"set", "rm"}

PlainInv(p) ==
  Plain(p) => /\ SealedWith(held[p], masterFile)
              /\ secretAt[p].at \in {"fill", "rename"} =>
                   \A kv \in secretsTmp : SealedWith(kv, masterFile)

SetKeyInv(p) ==
  secretAt[p].call = "setkey" =>
    held[p] = secretsFile /\ (secretAt[p].at # "read" => secretsFile = Empty)

ResetKeyInv(p) ==
  secretAt[p].call = "resetkey" =>
    IF secretAt[p].at = "read" THEN held[p] = secretsFile
    ELSE /\ SealedWith(held[p], heldKey[p])
         /\ secretAt[p].at = "fillkey" => fd[p] = "tmp"
         /\ secretAt[p].at \in {"write", "fill", "renamekey"} => masterTmp = heldKey[p]
         /\ secretAt[p].at = "fill" => fd[p] = "tmp" /\ secretsTmp = {Empty}
         /\ secretAt[p].at \in {"renamekey", "rename"} => secretsTmp = {held[p]}
         /\ secretAt[p].at = "rename" => masterFile = heldKey[p]

BetweenRenames == \E p \in SecretProcs : secretAt[p] = [call |-> "resetkey", at |-> "rename"]

Readable ==
  /\ KeyCallIsAlone
  /\ \A p \in SecretProcs : PlainInv(p) /\ SetKeyInv(p) /\ ResetKeyInv(p)
  /\ SealedWith(secretsFile, masterFile) \/ BetweenRenames

SecretInv == SecretTyped /\ (~rekeyed => Readable)

LEMMA CallStateFacts ==
  /\ \A s \in CallStates : /\ s = Idle <=> s.call = "none"
                           /\ s = [call |-> s.call, at |-> s.at]
                           /\ s.call \in {"none", "set", "rm"} \cup MakesKey
  /\ Idle \in CallStates /\ Idle.call = "none"
  /\ \A c \in {"set", "rm", "setkey", "resetkey"} : [call |-> c, at |-> "read"] \in CallStates
BY DEF CallStates, Idle, MakesKey

LEMMA InitSecret == SecretInit => SecretInv
<1> SUFFICES ASSUME SecretInit
             PROVE  SecretInv
  OBVIOUS
<1>1. Empty \in Entries
  BY DEF Empty, Entries
<1>2. SecretTyped
  <2>1. keys \in 0..(KeyChanges + 1)
    BY SecretAssumption DEF SecretInit
  <2>2. NoKey \in KeyNumbers
    BY DEF KeyNumbers
  <2>3. rekeyed = FALSE /\ mixed = FALSE
    BY DEF SecretInit
  <2> QED
    BY <1>1, <2>1, <2>2, <2>3, CallStateFacts DEF SecretInit, SecretTyped, NoTmp
<1>3. \A p \in SecretProcs : secretAt[p].call = "none"
  BY CallStateFacts DEF SecretInit
<1>4. SealedWith(secretsFile, masterFile)
  BY DEF SecretInit, SealedWith, Empty
<1>5. KeyCallIsAlone /\ \A p \in SecretProcs : PlainInv(p) /\ SetKeyInv(p) /\ ResetKeyInv(p)
  BY <1>3 DEF KeyCallIsAlone, PlainInv, Plain, SetKeyInv, ResetKeyInv
<1> QED
  BY <1>2, <1>4, <1>5 DEF SecretInv, Readable

(* p's call moves on; it is the call of another who makes a key only if p  *)
(* has none.                                                               *)
LEMMA OneKeyCall ==
  ASSUME SecretTyped, Readable, NEW p \in SecretProcs, NEW q \in SecretProcs, p # q,
         secretAt[p] # Idle
  PROVE  /\ secretAt[q].call \notin MakesKey
         /\ secretAt[p].call \in MakesKey => secretAt[q] = Idle
<1>1. secretAt[p] \in CallStates /\ secretAt[q] \in CallStates
  BY DEF SecretTyped
<1> QED
  BY <1>1, CallStateFacts DEF Readable, KeyCallIsAlone

LEMMA BeginCallInv ==
  ASSUME SecretInv, NEW p \in SecretProcs, NEW c \in {"set", "rm", "setkey", "resetkey"},
         BeginCall(p, c)
  PROVE  SecretInv'
<1>1. /\ secretAt[p] = Idle /\ secretAt' = [secretAt EXCEPT ![p] = [call |-> c, at |-> "read"]]
      /\ held' = [held EXCEPT ![p] = secretsFile]
      /\ rekeyed' = (rekeyed \/ \E q \in Under : MakesKey \cap {c, secretAt[q].call} # {})
      /\ UNCHANGED <<masterFile, secretsFile, masterTmp, secretsTmp, keys, heldKey, fd, mixed>>
  BY DEF BeginCall, secretFiles
<1>2. SecretTyped'
  BY <1>1, CallStateFacts DEF SecretInv, SecretTyped
<1>3. ASSUME ~rekeyed'
      PROVE  Readable'
  <2>1. ~rekeyed /\ Readable /\ \A q \in Under : c \notin MakesKey /\ secretAt[q].call \notin MakesKey
    BY <1>1, <1>3 DEF SecretInv
  <2>2. \A q \in SecretProcs \ {p} : secretAt'[q] = secretAt[q] /\ held'[q] = held[q]
    BY <1>1 DEF SecretInv, SecretTyped
  <2>3. secretAt'[p] = [call |-> c, at |-> "read"] /\ held'[p] = secretsFile
    BY <1>1 DEF SecretInv, SecretTyped
  <2>4. \A q \in SecretProcs : secretAt[q] \in CallStates
    BY DEF SecretInv, SecretTyped
  <2>5. \A q \in SecretProcs \ {p} :
           /\ secretAt[q].call \notin MakesKey
           /\ c \in MakesKey => secretAt[q].call = "none"
    BY <2>1, <2>4, CallStateFacts DEF Under, MakesKey
  <2>6. KeyCallIsAlone'
    BY <2>2, <2>3, <2>5 DEF KeyCallIsAlone
  <2>7. ~BetweenRenames /\ SealedWith(secretsFile, masterFile)
    BY <1>1, <2>1, <2>5 DEF BetweenRenames, MakesKey, Idle, Readable
  <2>8. ASSUME NEW q \in SecretProcs \ {p}
        PROVE  (PlainInv(q) /\ SetKeyInv(q) /\ ResetKeyInv(q))'
    BY <1>1, <2>1, <2>2 DEF Readable, PlainInv, Plain, SetKeyInv, ResetKeyInv
  <2>9. (PlainInv(p) /\ SetKeyInv(p) /\ ResetKeyInv(p))'
    BY <1>1, <2>3, <2>7 DEF PlainInv, Plain, SetKeyInv, ResetKeyInv
  <2>10. SealedWith(secretsFile, masterFile)'
    BY <1>1, <2>7 DEF SealedWith
  <2> QED
    BY <2>6, <2>8, <2>9, <2>10 DEF Readable
<1> QED
  BY <1>2, <1>3 DEF SecretInv

Inv3(p) == PlainInv(p) /\ SetKeyInv(p) /\ ResetKeyInv(p)

(* A step of a call under way: whoever else is under way is no call that   *)
(* makes a key, and nobody is if it is one itself.                         *)
LEMMA StepOfCall ==
  ASSUME SecretInv, NEW p \in SecretProcs, SecretTyped', secretAt[p] # Idle, rekeyed' = rekeyed,
         \A q \in SecretProcs \ {p} :
           secretAt'[q] = secretAt[q] /\ held'[q] = held[q] /\ heldKey'[q] = heldKey[q],
         secretAt'[p] = Idle \/ secretAt'[p].call = secretAt[p].call,
         Plain(p) => masterFile' = masterFile,
         ~rekeyed => /\ Plain(p) => \A kv \in secretsTmp' \ secretsTmp : SealedWith(kv, masterFile)
                     /\ Inv3(p)' /\ (SealedWith(secretsFile, masterFile)' \/ BetweenRenames')
  PROVE  SecretInv'
<1> SUFFICES ASSUME ~rekeyed
             PROVE  Readable'
  BY DEF SecretInv
<1>1. Readable /\ SecretTyped
  BY DEF SecretInv
<1>2. /\ secretAt[p] \in CallStates /\ (Plain(p) \/ secretAt[p].call \in MakesKey)
      /\ \A q \in SecretProcs : secretAt[q] \in CallStates
  BY <1>1, CallStateFacts DEF SecretTyped, Plain
<1>3. \A q \in SecretProcs \ {p} :
        /\ secretAt[q].call \notin MakesKey
        /\ secretAt[p].call \in MakesKey => secretAt[q].call = "none"
  BY <1>1, <1>2, OneKeyCall, CallStateFacts
<1>4. KeyCallIsAlone'
  BY <1>3, CallStateFacts DEF KeyCallIsAlone, MakesKey
<1>5. ASSUME NEW q \in SecretProcs \ {p}
      PROVE  Inv3(q)'
  <2>1. SetKeyInv(q)' /\ ResetKeyInv(q)'
    BY <1>3, <1>5 DEF SetKeyInv, ResetKeyInv, MakesKey
  <2>2. CASE Plain(p)
    <3>1. PlainInv(q)'
      BY <1>1, <1>5, <2>2 DEF Readable, PlainInv, Plain, SealedWith
    <3> QED
      BY <2>1, <3>1 DEF Inv3
  <2>3. CASE secretAt[p].call \in MakesKey
    BY <1>3, <1>5, <2>1, <2>3 DEF Inv3, PlainInv, Plain
  <2> QED
    BY <1>2, <2>2, <2>3
<1> QED
  BY <1>4, <1>5 DEF Readable, Inv3

(* While another call is under way nobody is between two renames.          *)
LEMMA FileIsSealed ==
  ASSUME SecretTyped, Readable, NEW p \in SecretProcs, secretAt[p] # Idle,
         secretAt[p] # [call |-> "resetkey", at |-> "rename"]
  PROVE  SealedWith(secretsFile, masterFile)
BY OneKeyCall DEF Readable, BetweenRenames, MakesKey

LEMMA SetSecretInv ==
  ASSUME SecretInv, NEW p \in SecretProcs, NEW n \in SecretNames, SetSecret(p, n)
  PROVE  SecretInv'
<1>1. /\ secretAt[p] = [call |-> "set", at |-> "read"] /\ SecretTyped
      /\ UNCHANGED <<masterFile, secretsFile, masterTmp, secretsTmp, keys, fd, rekeyed, mixed>>
  BY DEF SetSecret, secretFiles, SecretInv
<1>2. secretAt[p] # Idle /\ Plain(p) /\ secretAt[p] # [call |-> "resetkey", at |-> "rename"]
  BY <1>1 DEF Idle, Plain
<1>3. ~rekeyed => SealedWith(held[p], masterFile) /\ SealedWith(secretsFile, masterFile)
  BY <1>1, <1>2, FileIsSealed DEF SecretInv, Readable, PlainInv
<1>4. \/ /\ secretAt' = [secretAt EXCEPT ![p] = Idle] /\ UNCHANGED <<held, heldKey>>
      \/ /\ secretAt' = [secretAt EXCEPT ![p] = [call |-> "set", at |-> "write"]]
         /\ heldKey' = [heldKey EXCEPT ![p] = masterFile] /\ masterFile \notin {NoKey, BlankKey}
         /\ held' = [held EXCEPT ![p] = [held[p] EXCEPT ![n] = masterFile]]
  BY <1>1 DEF SetSecret, Proceed
<1>5. [call |-> "set", at |-> "write"] \in CallStates
  BY DEF CallStates
<1>6. SecretTyped'
  <2>1. \A k \in KeyNumbers \ {BlankKey} : [held[p] EXCEPT ![n] = k] \in Entries
    BY <1>1 DEF SecretTyped, Entries, KeyNumbers
  <2>2. secretAt' \in [SecretProcs -> CallStates]
    BY <1>1, <1>4, <1>5, CallStateFacts DEF SecretTyped
  <2>3. held' \in [SecretProcs -> Entries] /\ heldKey' \in [SecretProcs -> KeyNumbers]
    BY <1>1, <1>4, <2>1 DEF SecretTyped
  <2> QED
    BY <1>1, <2>2, <2>3 DEF SecretTyped
<1>7. \A q \in SecretProcs \ {p} :
        secretAt'[q] = secretAt[q] /\ held'[q] = held[q] /\ heldKey'[q] = heldKey[q]
  BY <1>1, <1>4 DEF SecretTyped
<1>8. secretAt'[p] = Idle \/ secretAt'[p] = [call |-> "set", at |-> "write"]
  BY <1>1, <1>4 DEF SecretTyped
<1>9. ~rekeyed => SealedWith(held'[p], masterFile)
  BY <1>1, <1>3, <1>4 DEF SecretTyped, Entries, SealedWith
<1>10. ~rekeyed => Inv3(p)'
  BY <1>1, <1>8, <1>9 DEF Inv3, PlainInv, Plain, SetKeyInv, ResetKeyInv, Idle
<1>11. ~rekeyed => SealedWith(secretsFile, masterFile)'
  BY <1>1, <1>3 DEF SealedWith
<1> QED
  BY <1>1, <1>2, <1>6, <1>7, <1>8, <1>10, <1>11, StepOfCall

LEMMA RemoveSecretInv ==
  ASSUME SecretInv, NEW p \in SecretProcs, NEW n \in SecretNames, RemoveSecret(p, n)
  PROVE  SecretInv'
<1>1. /\ secretAt[p] = [call |-> "rm", at |-> "read"] /\ SecretTyped
      /\ UNCHANGED <<masterFile, secretsFile, masterTmp, secretsTmp, keys, heldKey, fd, rekeyed, mixed>>
  BY DEF RemoveSecret, secretFiles, SecretInv
<1>2. secretAt[p] # Idle /\ Plain(p) /\ secretAt[p] # [call |-> "resetkey", at |-> "rename"]
  BY <1>1 DEF Idle, Plain
<1>3. ~rekeyed => SealedWith(held[p], masterFile) /\ SealedWith(secretsFile, masterFile)
  BY <1>1, <1>2, FileIsSealed DEF SecretInv, Readable, PlainInv
<1>4. \/ /\ secretAt' = [secretAt EXCEPT ![p] = Idle] /\ UNCHANGED held
      \/ /\ secretAt' = [secretAt EXCEPT ![p] = [call |-> "rm", at |-> "write"]]
         /\ held' = [held EXCEPT ![p] = [held[p] EXCEPT ![n] = NoKey]]
  BY <1>1 DEF RemoveSecret, Proceed
<1>5. [call |-> "rm", at |-> "write"] \in CallStates
  BY DEF CallStates
<1>6. SecretTyped'
  <2>1. [held[p] EXCEPT ![n] = NoKey] \in Entries
    BY <1>1 DEF SecretTyped, Entries
  <2>2. secretAt' \in [SecretProcs -> CallStates]
    BY <1>1, <1>4, <1>5, CallStateFacts DEF SecretTyped
  <2>3. held' \in [SecretProcs -> Entries] /\ heldKey' \in [SecretProcs -> KeyNumbers]
    BY <1>1, <1>4, <1>5, <2>1 DEF SecretTyped
  <2> QED
    BY <1>1, <2>2, <2>3 DEF SecretTyped
<1>7. \A q \in SecretProcs \ {p} :
        secretAt'[q] = secretAt[q] /\ held'[q] = held[q] /\ heldKey'[q] = heldKey[q]
  BY <1>1, <1>4 DEF SecretTyped
<1>8. secretAt'[p] = Idle \/ secretAt'[p] = [call |-> "rm", at |-> "write"]
  BY <1>1, <1>4 DEF SecretTyped
<1>9. ~rekeyed => SealedWith(held'[p], masterFile)
  BY <1>1, <1>3, <1>4 DEF SecretTyped, Entries, SealedWith
<1>10. ~rekeyed => Inv3(p)'
  BY <1>1, <1>8, <1>9 DEF Inv3, PlainInv, Plain, SetKeyInv, ResetKeyInv, Idle
<1>11. ~rekeyed => SealedWith(secretsFile, masterFile)'
  BY <1>1, <1>3 DEF SealedWith
<1> QED
  BY <1>1, <1>2, <1>6, <1>7, <1>8, <1>10, <1>11, StepOfCall

LEMMA SetMasterKeyInv ==
  ASSUME SecretInv, NEW p \in SecretProcs, SetMasterKey(p)
  PROVE  SecretInv'
<1>1. /\ secretAt[p] = [call |-> "setkey", at |-> "read"] /\ SecretTyped
      /\ UNCHANGED <<masterFile, secretsFile, masterTmp, secretsTmp, held, fd, rekeyed, mixed>>
  BY DEF SetMasterKey, secretFiles, SecretInv
<1>2. secretAt[p] # Idle /\ ~Plain(p) /\ secretAt[p] # [call |-> "resetkey", at |-> "rename"]
  BY <1>1 DEF Idle, Plain
<1>3. ~rekeyed => held[p] = secretsFile /\ SealedWith(secretsFile, masterFile)
  BY <1>1, <1>2, FileIsSealed DEF SecretInv, Readable, SetKeyInv
<1>4. \/ /\ secretAt' = [secretAt EXCEPT ![p] = Idle] /\ UNCHANGED <<keys, heldKey>>
      \/ /\ secretAt' = [secretAt EXCEPT ![p] = [call |-> "setkey", at |-> "writekey"]]
         /\ keys <= KeyChanges /\ keys' = keys + 1
         /\ heldKey' = [heldKey EXCEPT ![p] = keys + 1] /\ held[p] = Empty
  BY <1>1 DEF SetMasterKey, Proceed, MayStartAfresh
<1>5. [call |-> "setkey", at |-> "writekey"] \in CallStates
  BY DEF CallStates
<1>6. SecretTyped'
  <2>1. keys <= KeyChanges => keys + 1 \in KeyNumbers /\ keys + 1 \in 0..(KeyChanges + 1)
    BY <1>1, SecretAssumption DEF SecretTyped, KeyNumbers
  <2>2. secretAt' \in [SecretProcs -> CallStates]
    BY <1>1, <1>4, <1>5, CallStateFacts DEF SecretTyped
  <2>3. keys' \in 0..(KeyChanges + 1) /\ heldKey' \in [SecretProcs -> KeyNumbers]
    BY <1>1, <1>4, <2>1 DEF SecretTyped
  <2> QED
    BY <1>1, <2>2, <2>3 DEF SecretTyped
<1>7. \A q \in SecretProcs \ {p} :
        secretAt'[q] = secretAt[q] /\ held'[q] = held[q] /\ heldKey'[q] = heldKey[q]
  BY <1>1, <1>4 DEF SecretTyped
<1>8. \/ secretAt'[p] = Idle
      \/ secretAt'[p] = [call |-> "setkey", at |-> "writekey"] /\ held[p] = Empty
  BY <1>1, <1>4 DEF SecretTyped
<1>9. ~rekeyed => Inv3(p)'
  BY <1>1, <1>3, <1>8 DEF Inv3, PlainInv, Plain, SetKeyInv, ResetKeyInv, Idle
<1>10. ~rekeyed => SealedWith(secretsFile, masterFile)'
  BY <1>1, <1>3 DEF SealedWith
<1> QED
  BY <1>1, <1>2, <1>6, <1>7, <1>8, <1>9, <1>10, StepOfCall

LEMMA ResetMasterKeyInv ==
  ASSUME SecretInv, NEW p \in SecretProcs, ResetMasterKey(p)
  PROVE  SecretInv'
<1> DEFINE sealed == [n \in SecretNames |-> IF held[p][n] = NoKey THEN NoKey ELSE keys + 1]
<1>1. /\ secretAt[p] = [call |-> "resetkey", at |-> "read"] /\ SecretTyped
      /\ UNCHANGED <<masterFile, secretsFile, masterTmp, secretsTmp, fd, rekeyed, mixed>>
  BY DEF ResetMasterKey, secretFiles, SecretInv
<1>2. secretAt[p] # Idle /\ ~Plain(p) /\ secretAt[p] # [call |-> "resetkey", at |-> "rename"]
  BY <1>1 DEF Idle, Plain
<1>3. ~rekeyed => held[p] = secretsFile /\ SealedWith(secretsFile, masterFile)
  BY <1>1, <1>2, FileIsSealed DEF SecretInv, Readable, ResetKeyInv
<1>4. \/ /\ secretAt' = [secretAt EXCEPT ![p] = Idle] /\ UNCHANGED <<keys, heldKey, held>>
      \/ /\ secretAt' = [secretAt EXCEPT ![p] = [call |-> "resetkey", at |-> "writekey"]]
         /\ keys <= KeyChanges /\ keys' = keys + 1
         /\ heldKey' = [heldKey EXCEPT ![p] = keys + 1]
         /\ held' = [held EXCEPT ![p] = sealed]
  BY <1>1 DEF ResetMasterKey, Proceed
<1>5. [call |-> "resetkey", at |-> "writekey"] \in CallStates
  BY DEF CallStates
<1>6. keys <= KeyChanges => keys + 1 \in KeyNumbers /\ keys + 1 \in 0..(KeyChanges + 1)
                             /\ sealed \in Entries
  <2>1. keys <= KeyChanges => keys + 1 \in 1..(KeyChanges + 1)
    BY <1>1, SecretAssumption DEF SecretTyped
  <2> QED
    BY <2>1 DEF KeyNumbers, Entries
<1>7. SealedWith(sealed, keys + 1)
  BY DEF SealedWith
<1> HIDE DEF sealed
<1>8. SecretTyped'
  <2>1. secretAt' \in [SecretProcs -> CallStates]
    BY <1>1, <1>4, <1>5, CallStateFacts DEF SecretTyped
  <2>2. keys' \in 0..(KeyChanges + 1)
    BY <1>1, <1>4, <1>6 DEF SecretTyped
  <2>3. held' \in [SecretProcs -> Entries] /\ heldKey' \in [SecretProcs -> KeyNumbers]
    BY <1>1, <1>4, <1>6 DEF SecretTyped
  <2> QED
    BY <1>1, <2>1, <2>2, <2>3 DEF SecretTyped
<1>9. \A q \in SecretProcs \ {p} :
        secretAt'[q] = secretAt[q] /\ held'[q] = held[q] /\ heldKey'[q] = heldKey[q]
  BY <1>1, <1>4 DEF SecretTyped
<1>10. \/ secretAt'[p] = Idle
       \/ /\ secretAt'[p] = [call |-> "resetkey", at |-> "writekey"]
          /\ held'[p] = sealed /\ heldKey'[p] = keys + 1
  BY <1>1, <1>4 DEF SecretTyped
<1>11. ~rekeyed => Inv3(p)'
  BY <1>1, <1>7, <1>10 DEF Inv3, PlainInv, Plain, SetKeyInv, ResetKeyInv, Idle
<1>12. ~rekeyed => SealedWith(secretsFile, masterFile)'
  BY <1>1, <1>3 DEF SealedWith
<1> QED
  BY <1>1, <1>2, <1>8, <1>9, <1>10, <1>11, <1>12, StepOfCall

LEMMA OpenKeyTmpInv ==
  ASSUME SecretInv, NEW p \in SecretProcs, OpenKeyTmp(p)
  PROVE  SecretInv'
<1>1. /\ secretAt[p].at = "writekey" /\ SecretTyped /\ masterTmp' = BlankKey
      /\ fd' = [fd EXCEPT ![p] = "tmp"] /\ secretAt' = [secretAt EXCEPT ![p].at = "fillkey"]
      /\ UNCHANGED <<masterFile, secretsFile, secretsTmp, keys, held, heldKey, rekeyed, mixed>>
  BY DEF OpenKeyTmp, Proceed, SecretInv
<1>2. /\ secretAt[p] \in {[call |-> "setkey", at |-> "writekey"], [call |-> "resetkey", at |-> "writekey"]}
      /\ secretAt[p] # Idle /\ ~Plain(p) /\ secretAt[p] # [call |-> "resetkey", at |-> "rename"]
  BY <1>1 DEF SecretTyped, CallStates, Idle, Plain
<1>3. ~rekeyed => Inv3(p) /\ SealedWith(secretsFile, masterFile)
  BY <1>1, <1>2, FileIsSealed DEF SecretInv, Readable, Inv3
<1>4. secretAt'[p] = [call |-> secretAt[p].call, at |-> "fillkey"]
  BY <1>1, <1>2 DEF SecretTyped
<1>5. secretAt'[p] \in CallStates /\ BlankKey \in KeyNumbers
  BY <1>2, <1>4 DEF CallStates, KeyNumbers
<1>6. SecretTyped'
  BY <1>1, <1>5 DEF SecretTyped
<1>7. \A q \in SecretProcs \ {p} :
        secretAt'[q] = secretAt[q] /\ held'[q] = held[q] /\ heldKey'[q] = heldKey[q]
  BY <1>1 DEF SecretTyped
<1>8. fd'[p] = "tmp"
  BY <1>1 DEF SecretTyped
<1>9. ~rekeyed => Inv3(p)'
  BY <1>1, <1>2, <1>3, <1>4, <1>8 DEF Inv3, PlainInv, Plain, SetKeyInv, ResetKeyInv, SealedWith
<1>10. ~rekeyed => SealedWith(secretsFile, masterFile)'
  BY <1>1, <1>3 DEF SealedWith
<1> QED
  BY <1>1, <1>2, <1>4, <1>6, <1>7, <1>9, <1>10, StepOfCall

LEMMA FillKeyTmpInv ==
  ASSUME SecretInv, NEW p \in SecretProcs, FillKeyTmp(p)
  PROVE  SecretInv'
<1> DEFINE r == secretAt[p].call = "resetkey"
<1>1. /\ secretAt[p].at = "fillkey" /\ SecretTyped
      /\ masterTmp' = IF fd[p] = "tmp" THEN heldKey[p] ELSE masterTmp
      /\ masterFile' = IF fd[p] = "placed" THEN heldKey[p] ELSE masterFile
      /\ fd' = [fd EXCEPT ![p] = "none"]
      /\ secretAt' = [secretAt EXCEPT ![p].at = IF r THEN "write" ELSE "renamekey"]
      /\ UNCHANGED <<secretsFile, secretsTmp, keys, held, heldKey, rekeyed, mixed>>
  BY DEF FillKeyTmp, Proceed, SecretInv
<1>2. /\ secretAt[p] \in {[call |-> "setkey", at |-> "fillkey"], [call |-> "resetkey", at |-> "fillkey"]}
      /\ secretAt[p] # Idle /\ ~Plain(p) /\ secretAt[p] # [call |-> "resetkey", at |-> "rename"]
  BY <1>1 DEF SecretTyped, CallStates, Idle, Plain
<1>3. ~rekeyed => Inv3(p) /\ SealedWith(secretsFile, masterFile)
  BY <1>1, <1>2, FileIsSealed DEF SecretInv, Readable, Inv3
<1>4. secretAt'[p] = IF r THEN [call |-> "resetkey", at |-> "write"]
                          ELSE [call |-> "setkey", at |-> "renamekey"]
  BY <1>1, <1>2 DEF SecretTyped
<1>5. secretAt'[p] \in CallStates
  BY <1>4 DEF CallStates
<1>6. SecretTyped'
  BY <1>1, <1>5 DEF SecretTyped
<1>7. \A q \in SecretProcs \ {p} :
        secretAt'[q] = secretAt[q] /\ held'[q] = held[q] /\ heldKey'[q] = heldKey[q]
  BY <1>1 DEF SecretTyped
<1>8. ~rekeyed => IF r THEN masterTmp' = heldKey[p] /\ masterFile' = masterFile ELSE secretsFile = Empty
  BY <1>1, <1>2, <1>3 DEF Inv3, SetKeyInv, ResetKeyInv
<1>9. ~rekeyed => Inv3(p)'
  BY <1>1, <1>2, <1>3, <1>4, <1>8 DEF Inv3, PlainInv, Plain, SetKeyInv, ResetKeyInv, SealedWith
<1>10. ~rekeyed => SealedWith(secretsFile, masterFile)'
  BY <1>1, <1>3, <1>8 DEF SealedWith, Empty
<1> QED
  BY <1>1, <1>2, <1>4, <1>6, <1>7, <1>9, <1>10, StepOfCall

LEMMA OpenSecretsTmpInv ==
  ASSUME SecretInv, NEW p \in SecretProcs, OpenSecretsTmp(p)
  PROVE  SecretInv'
<1>1. /\ secretAt[p].at = "write" /\ SecretTyped /\ secretsTmp' = {Empty}
      /\ fd' = [fd EXCEPT ![p] = "tmp"] /\ secretAt' = [secretAt EXCEPT ![p].at = "fill"]
      /\ UNCHANGED <<masterFile, secretsFile, masterTmp, keys, held, heldKey, rekeyed>>
      /\ mixed' \in BOOLEAN
  BY DEF OpenSecretsTmp, Proceed, SecretInv, SecretTyped
<1>2. /\ secretAt[p] \in {[call |-> "set", at |-> "write"], [call |-> "rm", at |-> "write"],
                          [call |-> "resetkey", at |-> "write"]}
      /\ secretAt[p] # Idle /\ secretAt[p] # [call |-> "resetkey", at |-> "rename"]
  BY <1>1 DEF SecretTyped, CallStates, Idle
<1>3. ~rekeyed => Inv3(p) /\ SealedWith(secretsFile, masterFile)
  BY <1>1, <1>2, FileIsSealed DEF SecretInv, Readable, Inv3
<1>4. secretAt'[p] = [call |-> secretAt[p].call, at |-> "fill"] /\ fd'[p] = "tmp"
  BY <1>1, <1>2 DEF SecretTyped
<1>5. secretAt'[p] \in CallStates /\ Empty \in Entries
  BY <1>2, <1>4 DEF CallStates, Empty, Entries
<1>6. SecretTyped'
  BY <1>1, <1>5 DEF SecretTyped
<1>7. \A q \in SecretProcs \ {p} :
        secretAt'[q] = secretAt[q] /\ held'[q] = held[q] /\ heldKey'[q] = heldKey[q]
  BY <1>1 DEF SecretTyped
<1>8. SealedWith(Empty, masterFile)
  BY DEF SealedWith, Empty
<1>9. ~rekeyed => Inv3(p)'
  BY <1>1, <1>2, <1>3, <1>4, <1>8 DEF Inv3, PlainInv, Plain, SetKeyInv, ResetKeyInv, SealedWith
<1>10. ~rekeyed => SealedWith(secretsFile, masterFile)'
  BY <1>1, <1>3 DEF SealedWith
<1> QED
  BY <1>1, <1>2, <1>4, <1>6, <1>7, <1>8, <1>9, <1>10, StepOfCall

(* What is written over entries that are sealed with a key leaves entries  *)
(* that are, and the entries themselves where there were none.             *)
LEMMA OverFacts ==
  ASSUME NEW before \in Entries, NEW W \in Entries, NEW kv \in Over(before, W)
  PROVE  /\ kv \in Entries /\ (before = Empty => kv = W)
         /\ \A k : SealedWith(before, k) /\ SealedWith(W, k) => SealedWith(kv, k)
<1>1. CASE before = Empty
  BY <1>1 DEF Over
<1>2. CASE before # Empty
  <2>1. \A n \in SecretNames : kv[n] \in {W[n], before[n], Torn}
    BY <1>2 DEF Over
  <2>2. kv = [n \in SecretNames |-> kv[n]]
    BY <1>2 DEF Over
  <2>3. \A n \in SecretNames : kv[n] \in 1..(KeyChanges + 1) \cup {NoKey, Torn}
    BY <2>1 DEF Entries
  <2>4. kv \in Entries
    BY <2>2, <2>3 DEF Entries
  <2> QED
    BY <1>2, <2>1, <2>4 DEF SealedWith
<1> QED
  BY <1>1, <1>2

LEMMA FillSecretsTmpInv ==
  ASSUME SecretInv, NEW p \in SecretProcs, FillSecretsTmp(p)
  PROVE  SecretInv'
<1> DEFINE r == secretAt[p].call = "resetkey"
<1>1. /\ secretAt[p].at = "fill" /\ SecretTyped /\ fd' = [fd EXCEPT ![p] = "none"]
      /\ secretAt' = [secretAt EXCEPT ![p].at = IF r THEN "renamekey" ELSE "rename"]
      /\ UNCHANGED <<masterFile, masterTmp, keys, held, heldKey, rekeyed, mixed>>
  BY DEF FillSecretsTmp, Proceed, SecretInv
<1>2. /\ secretAt[p] \in {[call |-> "set", at |-> "fill"], [call |-> "rm", at |-> "fill"],
                          [call |-> "resetkey", at |-> "fill"]}
      /\ secretAt[p] # Idle /\ secretAt[p] # [call |-> "resetkey", at |-> "rename"]
  BY <1>1 DEF SecretTyped, CallStates, Idle
<1>3. ~rekeyed => Inv3(p) /\ SealedWith(secretsFile, masterFile)
  BY <1>1, <1>2, FileIsSealed DEF SecretInv, Readable, Inv3
<1>4. secretAt'[p] = IF r THEN [call |-> "resetkey", at |-> "renamekey"]
                          ELSE [call |-> secretAt[p].call, at |-> "rename"]
  BY <1>1, <1>2 DEF SecretTyped
<1>5. secretAt'[p] \in CallStates
  BY <1>2, <1>4 DEF CallStates
<1>6. /\ secretsFile \in Entries /\ held[p] \in Entries
      /\ \A before \in secretsTmp : before \in Entries
  BY <1>1 DEF SecretTyped
<1>7. /\ secretsFile' = secretsFile \/ secretsFile' \in Over(secretsFile, held[p])
      /\ \/ secretsTmp' = secretsTmp
         \/ \E before \in secretsTmp : \E kv \in Over(before, held[p]) : secretsTmp' = {kv}
  BY DEF FillSecretsTmp
<1>8. secretsFile' \in Entries /\ secretsTmp' \subseteq Entries
  BY <1>6, <1>7, OverFacts
<1>9. SecretTyped'
  BY <1>1, <1>5, <1>8 DEF SecretTyped
<1>10. \A q \in SecretProcs \ {p} :
         secretAt'[q] = secretAt[q] /\ held'[q] = held[q] /\ heldKey'[q] = heldKey[q]
  BY <1>1 DEF SecretTyped
<1>11. Plain(p) /\ ~rekeyed =>
         /\ SealedWith(held[p], masterFile) /\ SealedWith(secretsFile', masterFile)
         /\ \A kv \in secretsTmp' : SealedWith(kv, masterFile)
  <2> SUFFICES ASSUME Plain(p), ~rekeyed
               PROVE  /\ SealedWith(held[p], masterFile) /\ SealedWith(secretsFile', masterFile)
                      /\ \A kv \in secretsTmp' : SealedWith(kv, masterFile)
    OBVIOUS
  <2>1. /\ SealedWith(held[p], masterFile) /\ SealedWith(secretsFile, masterFile)
        /\ \A kv \in secretsTmp : SealedWith(kv, masterFile)
    BY <1>1, <1>3 DEF Inv3, PlainInv
  <2>2. SealedWith(secretsFile', masterFile)
    BY <1>6, <1>7, <2>1, OverFacts
  <2>3. \A kv \in secretsTmp' : SealedWith(kv, masterFile)
    BY <1>6, <1>7, <2>1, OverFacts
  <2> QED
    BY <2>1, <2>2, <2>3
<1>12. r /\ ~rekeyed => secretsFile' = secretsFile /\ secretsTmp' = {held[p]}
  <2> SUFFICES ASSUME r, ~rekeyed
               PROVE  secretsFile' = secretsFile /\ secretsTmp' = {held[p]}
    OBVIOUS
  <2>1. fd[p] = "tmp" /\ secretsTmp = {Empty}
    BY <1>1, <1>3 DEF Inv3, ResetKeyInv
  <2>2. Over(Empty, held[p]) = {held[p]}
    BY DEF Over
  <2> QED
    BY <2>1, <2>2 DEF FillSecretsTmp
<1>13. ~rekeyed => Inv3(p)'
  <2> SUFFICES ASSUME ~rekeyed
               PROVE  Inv3(p)'
    OBVIOUS
  <2>1. CASE r
    BY <1>1, <1>2, <1>3, <1>4, <1>12, <2>1
       DEF Inv3, PlainInv, Plain, SetKeyInv, ResetKeyInv, SealedWith
  <2>2. CASE ~r
    <3>1. Plain(p) /\ secretAt'[p].call = secretAt[p].call
      BY <1>2, <1>4, <2>2 DEF Plain
    <3>2. PlainInv(p)'
      BY <1>1, <1>11, <3>1 DEF PlainInv, SealedWith
    <3> QED
      BY <3>1, <3>2 DEF Inv3, Plain, SetKeyInv, ResetKeyInv
  <2> QED
    BY <2>1, <2>2
<1>14. ~rekeyed => SealedWith(secretsFile', masterFile)
  <2>1. Plain(p) \/ r
    BY <1>2 DEF Plain
  <2> QED
    BY <1>3, <1>11, <1>12, <2>1
<1>15. ~rekeyed => SealedWith(secretsFile, masterFile)'
  BY <1>1, <1>14 DEF SealedWith
<1>16. secretAt'[p].call = secretAt[p].call
  BY <1>2, <1>4
<1> QED
  BY <1>1, <1>2, <1>9, <1>10, <1>11, <1>13, <1>15, <1>16, StepOfCall

LEMMA FdsAreTyped ==
  ASSUME SecretTyped, NEW point
  PROVE  {FdsPlaced(point), FdsRemoved(point)} \subseteq [SecretProcs -> {"none", "tmp", "placed", "gone"}]
BY DEF SecretTyped, FdsPlaced, FdsRemoved

LEMMA RenameKeyInv ==
  ASSUME SecretInv, NEW p \in SecretProcs, RenameKey(p)
  PROVE  SecretInv'
<1> DEFINE r == secretAt[p].call = "resetkey"
<1>1. /\ secretAt[p].at = "renamekey" /\ SecretTyped /\ masterTmp' = NoKey
      /\ UNCHANGED <<secretsFile, keys, held, heldKey, rekeyed, mixed>>
  BY DEF RenameKey, SecretInv
<1>2. /\ secretAt[p] \in {[call |-> "setkey", at |-> "renamekey"], [call |-> "resetkey", at |-> "renamekey"]}
      /\ secretAt[p] # Idle /\ ~Plain(p) /\ secretAt[p] # [call |-> "resetkey", at |-> "rename"]
  BY <1>1 DEF SecretTyped, CallStates, Idle, Plain
<1>3. ~rekeyed => Inv3(p) /\ SealedWith(secretsFile, masterFile)
  BY <1>1, <1>2, FileIsSealed DEF SecretInv, Readable, Inv3
<1>4. \/ /\ masterTmp = NoKey /\ secretAt' = [secretAt EXCEPT ![p] = Idle] /\ masterFile' = masterFile
         /\ secretsTmp' = {} \/ secretsTmp' = secretsTmp
      \/ /\ masterFile' = masterTmp /\ secretsTmp' = secretsTmp
         /\ secretAt' = [secretAt EXCEPT ![p] =
                           IF r THEN [secretAt[p] EXCEPT !.at = "rename"] ELSE Idle]
  BY DEF RenameKey, NoTmp
<1>5. \/ secretAt'[p] = Idle /\ masterFile' = masterFile
      \/ secretAt'[p] = Idle /\ ~r
      \/ /\ secretAt'[p] = [call |-> "resetkey", at |-> "rename"] /\ r
         /\ masterFile' = masterTmp /\ secretsTmp' = secretsTmp
  <2>1. secretAt \in [SecretProcs -> CallStates]
    BY <1>1 DEF SecretTyped
  <2>2. CASE ~r
    BY <1>4, <2>1, <2>2
  <2>3. CASE r
    <3>1. secretAt[p] = [call |-> "resetkey", at |-> "renamekey"]
      BY <1>2, <2>3
    <3>2. [secretAt[p] EXCEPT !.at = "rename"] = [call |-> "resetkey", at |-> "rename"]
      BY <3>1
    <3> HIDE DEF r
    <3> QED
      BY <1>4, <2>1, <2>3, <3>2
  <2> QED
    BY <2>2, <2>3
<1>6. SecretTyped'
  <2>1. secretAt'[p] \in CallStates
    BY <1>5, CallStateFacts DEF CallStates
  <2>2. NoKey \in KeyNumbers /\ secretsTmp' \subseteq Entries /\ masterFile' \in KeyNumbers
    BY <1>1, <1>4 DEF KeyNumbers, SecretTyped
  <2>3. secretAt' = [secretAt EXCEPT ![p] = secretAt'[p]]
    BY <1>1, <1>4 DEF SecretTyped
  <2>4. fd' = fd \/ fd' = FdsPlaced("fillkey") \/ fd' = FdsRemoved("fill")
    BY DEF RenameKey
  <2> QED
    BY <1>1, <2>1, <2>2, <2>3, <2>4, FdsAreTyped DEF SecretTyped
<1>7. \A q \in SecretProcs \ {p} :
        secretAt'[q] = secretAt[q] /\ held'[q] = held[q] /\ heldKey'[q] = heldKey[q]
  BY <1>1, <1>4 DEF SecretTyped
<1>8. ~rekeyed => Inv3(p)'
  BY <1>1, <1>2, <1>3, <1>5 DEF Inv3, PlainInv, Plain, SetKeyInv, ResetKeyInv, SealedWith, Idle
<1>9. ~rekeyed => SealedWith(secretsFile, masterFile)' \/ BetweenRenames'
  <2>1. CASE secretAt'[p] = [call |-> "resetkey", at |-> "rename"]
    BY <2>1 DEF BetweenRenames
  <2>2. CASE secretAt'[p] = Idle /\ masterFile' = masterFile
    BY <1>1, <1>3, <2>2 DEF SealedWith
  <2>3. CASE secretAt'[p] = Idle /\ ~r
    BY <1>1, <1>2, <1>3, <2>3 DEF Inv3, SetKeyInv, SealedWith, Empty
  <2> QED
    BY <1>5, <2>1, <2>2, <2>3
<1>10. secretAt'[p] = Idle \/ secretAt'[p].call = secretAt[p].call
  BY <1>2, <1>5
<1> QED
  BY <1>1, <1>2, <1>6, <1>7, <1>8, <1>9, <1>10, StepOfCall

LEMMA RenameSecretsInv ==
  ASSUME SecretInv, NEW p \in SecretProcs, RenameSecrets(p)
  PROVE  SecretInv'
<1>1. /\ secretAt[p].at = "rename" /\ SecretTyped /\ secretsTmp' = {}
      /\ secretAt' = [secretAt EXCEPT ![p] = Idle]
      /\ UNCHANGED <<masterFile, masterTmp, keys, held, heldKey, rekeyed, mixed>>
      /\ fd' = fd \/ fd' = FdsPlaced("fill")
  BY DEF RenameSecrets, NoTmp, SecretInv
<1>2. \/ secretsFile' = secretsFile /\ secretsTmp = {}
      \/ secretsFile' \in secretsTmp
  BY DEF RenameSecrets, NoTmp
<1>3. /\ secretAt[p] \in {[call |-> "set", at |-> "rename"], [call |-> "rm", at |-> "rename"],
                          [call |-> "resetkey", at |-> "rename"]}
      /\ secretAt[p] # Idle
  BY <1>1 DEF SecretTyped, CallStates, Idle
<1>4. SecretTyped'
  BY <1>1, <1>2, CallStateFacts, FdsAreTyped DEF SecretTyped
<1>5. \A q \in SecretProcs \ {p} :
        secretAt'[q] = secretAt[q] /\ held'[q] = held[q] /\ heldKey'[q] = heldKey[q]
  BY <1>1 DEF SecretTyped
<1>6. secretAt'[p] = Idle
  BY <1>1 DEF SecretTyped
<1>7. Inv3(p)'
  BY <1>6 DEF Inv3, PlainInv, Plain, SetKeyInv, ResetKeyInv, Idle
<1>8. ~rekeyed => SealedWith(secretsFile', masterFile)
  <2>1. ASSUME ~rekeyed
        PROVE  Inv3(p)
    BY <2>1 DEF SecretInv, Readable, Inv3
  <2>2. CASE Plain(p)
    <3>1. ~rekeyed => SealedWith(secretsFile, masterFile)
      BY <1>1, <1>3, <2>2, FileIsSealed DEF SecretInv, Plain
    <3> QED
      BY <1>1, <1>2, <2>1, <2>2, <3>1 DEF Inv3, PlainInv
  <2>3. CASE secretAt[p] = [call |-> "resetkey", at |-> "rename"]
    <3>1. ASSUME ~rekeyed
          PROVE  secretsTmp = {held[p]} /\ masterFile = heldKey[p] /\ SealedWith(held[p], heldKey[p])
      BY <2>1, <2>3, <3>1 DEF Inv3, ResetKeyInv
    <3> QED
      BY <1>2, <3>1
  <2> QED
    BY <1>3, <2>2, <2>3 DEF Plain
<1>9. ~rekeyed => SealedWith(secretsFile, masterFile)'
  BY <1>1, <1>8 DEF SealedWith
<1> QED
  BY <1>1, <1>3, <1>4, <1>5, <1>6, <1>7, <1>9, StepOfCall

LEMMA KillCallInv ==
  ASSUME SecretInv, NEW p \in SecretProcs, KillCall(p)
  PROVE  SecretInv'
<1>1. /\ secretAt[p] # Idle /\ secretAt' = [secretAt EXCEPT ![p] = Idle] /\ SecretTyped
      /\ rekeyed' = (rekeyed \/ secretAt[p] = [call |-> "resetkey", at |-> "rename"])
      /\ fd' = [fd EXCEPT ![p] = "none"]
      /\ UNCHANGED <<masterFile, secretsFile, masterTmp, secretsTmp, keys, held, heldKey, mixed>>
  BY DEF KillCall, secretFiles, SecretInv
<1>2. SecretTyped'
  BY <1>1, CallStateFacts DEF SecretTyped
<1>3. CASE rekeyed'
  BY <1>2, <1>3 DEF SecretInv
<1>4. CASE ~rekeyed'
  <2>1. ~rekeyed /\ rekeyed' = rekeyed /\ secretAt[p] # [call |-> "resetkey", at |-> "rename"]
    BY <1>1, <1>4 DEF SecretTyped
  <2>2. SealedWith(secretsFile, masterFile)'
    BY <1>1, <2>1, FileIsSealed DEF SecretInv, SealedWith
  <2>3. secretAt'[p] = Idle
    BY <1>1 DEF SecretTyped
  <2>4. Inv3(p)'
    BY <2>3 DEF Inv3, PlainInv, Plain, SetKeyInv, ResetKeyInv, Idle
  <2>5. \A q \in SecretProcs \ {p} :
          secretAt'[q] = secretAt[q] /\ held'[q] = held[q] /\ heldKey'[q] = heldKey[q]
    BY <1>1 DEF SecretTyped
  <2> QED
    BY <1>1, <1>2, <2>1, <2>2, <2>3, <2>4, <2>5, StepOfCall
<1> QED
  BY <1>3, <1>4

LEMMA SecretStutters == SecretInv /\ UNCHANGED secretVars => SecretInv'
BY DEF secretVars, secretFiles, secretCalls, SecretInv, SecretTyped, Readable, KeyCallIsAlone, PlainInv, Plain, SetKeyInv,
       ResetKeyInv, SealedWith, BetweenRenames

LEMMA NextSecret == SecretInv /\ [SecretNext]_secretVars => SecretInv'
BY SecretStutters, BeginCallInv, SetSecretInv, RemoveSecretInv, SetMasterKeyInv, ResetMasterKeyInv,
   OpenKeyTmpInv, FillKeyTmpInv, OpenSecretsTmpInv, FillSecretsTmpInv, RenameKeyInv, RenameSecretsInv,
   KillCallInv DEF SecretNext

LEMMA SecretInvariance == SecretSpec => []SecretInv
BY InitSecret, NextSecret, PTL DEF SecretSpec

(* No two calls are at the temporary file at once, and whoever has emptied *)
(* it finds it empty: no entry is cut.                                     *)
Whole(entries) == \A n \in SecretNames : entries[n] # Torn
OneWriter ==
  /\ \A p, q \in SecretProcs : Writing(p) /\ Writing(q) => p = q
  /\ \A p \in SecretProcs : secretAt[p].at = "fill" => fd[p] = "tmp" /\ secretsTmp = {Empty}
NoneTorn ==
  Whole(secretsFile) /\ (\A kv \in secretsTmp : Whole(kv)) /\ \A p \in SecretProcs : Whole(held[p])
UnmixedInv == ~mixed => OneWriter /\ NoneTorn

LEMMA WholeFacts == Whole(Empty) /\ Torn \notin KeyNumbers \ {BlankKey}
BY SecretAssumption DEF Whole, Empty, KeyNumbers

(* A step away from the temporary file.                                    *)
LEMMA NotAtTheFile ==
  ASSUME SecretTyped, OneWriter, NEW p \in SecretProcs, ~Writing(p), NEW s,
         s.at \notin {"fill", "rename"}, s # [call |-> "resetkey", at |-> "renamekey"],
         secretAt' = [secretAt EXCEPT ![p] = s], secretsTmp' = secretsTmp,
         \A q \in SecretProcs \ {p} : secretAt[q].at = "fill" => fd'[q] = fd[q]
  PROVE  OneWriter'
<1>1. secretAt'[p] = s /\ \A q \in SecretProcs \ {p} : secretAt'[q] = secretAt[q]
  BY DEF SecretTyped
<1>2. ~Writing(p)' /\ \A q \in SecretProcs \ {p} : Writing(q)' <=> Writing(q)
  BY <1>1 DEF Writing
<1> QED
  BY <1>1, <1>2 DEF OneWriter

(* A step of the only one who is at it, who does not empty it.             *)
LEMMA AtTheFile ==
  ASSUME SecretTyped, OneWriter, NEW p \in SecretProcs, Writing(p), NEW s, s.at # "fill",
         secretAt' = [secretAt EXCEPT ![p] = s]
  PROVE  OneWriter'
<1>1. secretAt'[p] = s /\ \A q \in SecretProcs \ {p} : secretAt'[q] = secretAt[q] /\ ~Writing(q)
  BY DEF SecretTyped, OneWriter
<1>2. \A q \in SecretProcs : secretAt'[q].at # "fill" /\ (Writing(q)' => q = p)
  BY <1>1 DEF Writing
<1> QED
  BY <1>2 DEF OneWriter

LEMMA NextOneWriter ==
  ASSUME SecretTyped, OneWriter, SecretNext, ~mixed'
  PROVE  OneWriter'
<1>1. PICK p \in SecretProcs :
        \/ \E call \in {"set", "rm", "setkey", "resetkey"} : BeginCall(p, call)
        \/ \E n \in SecretNames : SetSecret(p, n) \/ RemoveSecret(p, n)
        \/ SetMasterKey(p) \/ ResetMasterKey(p)
        \/ OpenKeyTmp(p) \/ FillKeyTmp(p) \/ OpenSecretsTmp(p) \/ FillSecretsTmp(p)
        \/ RenameKey(p) \/ RenameSecrets(p) \/ KillCall(p)
  BY DEF SecretNext
<1> DEFINE Moves(s) == secretAt' = [secretAt EXCEPT ![p] = s]
<1>2. secretAt[p] \in CallStates /\ secretAt \in [SecretProcs -> CallStates]
  BY DEF SecretTyped
<1>15. Idle.at \notin {"fill", "rename"} /\ Idle # [call |-> "resetkey", at |-> "renamekey"]
  BY DEF Idle
<1>3. ASSUME NEW call \in {"set", "rm", "setkey", "resetkey"}, BeginCall(p, call)
      PROVE  OneWriter'
  <2>1. Moves([call |-> call, at |-> "read"]) /\ ~Writing(p) /\ secretsTmp' = secretsTmp /\ fd' = fd
    BY <1>3 DEF BeginCall, secretFiles, Writing, Idle
  <2>2. /\ [call |-> call, at |-> "read"].at \notin {"fill", "rename"}
        /\ [call |-> call, at |-> "read"] # [call |-> "resetkey", at |-> "renamekey"]
    OBVIOUS
  <2> QED
    BY <2>1, <2>2, NotAtTheFile
<1>4. ASSUME NEW n \in SecretNames, SetSecret(p, n)
      PROVE  OneWriter'
  <2>1. Moves(Idle) \/ Moves([call |-> "set", at |-> "write"])
    BY <1>4 DEF SetSecret, Proceed
  <2> QED
    BY <1>4, <2>1, NotAtTheFile DEF SetSecret, secretFiles, Writing, Idle
<1>5. ASSUME NEW n \in SecretNames, RemoveSecret(p, n)
      PROVE  OneWriter'
  <2>1. Moves(Idle) \/ Moves([call |-> "rm", at |-> "write"])
    BY <1>5 DEF RemoveSecret, Proceed
  <2> QED
    BY <1>5, <2>1, NotAtTheFile DEF RemoveSecret, secretFiles, Writing, Idle
<1>6. CASE SetMasterKey(p)
  <2>1. Moves(Idle) \/ Moves([call |-> "setkey", at |-> "writekey"])
    BY <1>6 DEF SetMasterKey, Proceed
  <2> QED
    BY <1>6, <2>1, NotAtTheFile DEF SetMasterKey, secretFiles, Writing, Idle
<1>7. CASE ResetMasterKey(p)
  <2>1. Moves(Idle) \/ Moves([call |-> "resetkey", at |-> "writekey"])
    BY <1>7 DEF ResetMasterKey, Proceed
  <2> QED
    BY <1>7, <2>1, NotAtTheFile DEF ResetMasterKey, secretFiles, Writing, Idle
<1>8. CASE OpenKeyTmp(p)
  <2>1. secretAt[p].at = "writekey" /\ Moves([secretAt[p] EXCEPT !.at = "fillkey"])
    BY <1>8 DEF OpenKeyTmp, Proceed
  <2>2. [secretAt[p] EXCEPT !.at = "fillkey"].at = "fillkey" /\ ~Writing(p)
    BY <1>2, <2>1 DEF CallStates, Idle, Writing
  <2>3. \A q \in SecretProcs \ {p} : fd'[q] = fd[q]
    BY <1>8 DEF OpenKeyTmp, SecretTyped
  <2> QED
    BY <1>8, <2>1, <2>2, <2>3, NotAtTheFile DEF OpenKeyTmp
<1>9. CASE FillKeyTmp(p)
  <2>1. secretAt[p] \in {[call |-> "setkey", at |-> "fillkey"], [call |-> "resetkey", at |-> "fillkey"]}
    BY <1>2, <1>9 DEF FillKeyTmp, CallStates, Idle
  <2>2. Moves([call |-> "resetkey", at |-> "write"]) \/ Moves([call |-> "setkey", at |-> "renamekey"])
    <3> DEFINE point == IF secretAt[p].call = "resetkey" THEN "write" ELSE "renamekey"
    <3>1. Moves([secretAt[p] EXCEPT !.at = point])
      BY <1>9 DEF FillKeyTmp, Proceed
    <3>2. [secretAt[p] EXCEPT !.at = point]
            \in {[call |-> "resetkey", at |-> "write"], [call |-> "setkey", at |-> "renamekey"]}
      BY <2>1
    <3> QED
      BY <3>1, <3>2
  <2>3. \A q \in SecretProcs \ {p} : fd'[q] = fd[q]
    BY <1>9 DEF FillKeyTmp, SecretTyped
  <2> QED
    BY <1>9, <2>1, <2>2, <2>3, NotAtTheFile DEF FillKeyTmp, Writing
<1>10. CASE OpenSecretsTmp(p)
  <2>1. /\ \A q \in SecretProcs : ~Writing(q)
        /\ secretsTmp' = {Empty} /\ fd'[p] = "tmp"
        /\ \A q \in SecretProcs \ {p} : secretAt'[q] = secretAt[q]
    BY <1>10 DEF OpenSecretsTmp, Proceed, SecretTyped
  <2>2. \A q \in SecretProcs \ {p} : ~Writing(q)' /\ secretAt'[q].at # "fill"
    BY <2>1 DEF Writing
  <2> QED
    BY <2>1, <2>2 DEF OneWriter
<1>11. CASE FillSecretsTmp(p)
  <2>1. PICK point \in {"renamekey", "rename"} :
          secretAt[p].at = "fill" /\ Moves([secretAt[p] EXCEPT !.at = point])
    BY <1>11 DEF FillSecretsTmp, Proceed
  <2>2. [secretAt[p] EXCEPT !.at = point].at # "fill" /\ Writing(p)
    BY <1>2, <2>1 DEF CallStates, Idle, Writing
  <2> QED
    BY <2>1, <2>2, AtTheFile
<1>12. CASE RenameKey(p)
  <2>1. secretAt[p] \in {[call |-> "setkey", at |-> "renamekey"], [call |-> "resetkey", at |-> "renamekey"]}
    BY <1>2, <1>12 DEF RenameKey, CallStates, Idle
  <2>2. CASE secretAt[p] = [call |-> "setkey", at |-> "renamekey"]
    <3>1. Moves(Idle) /\ secretsTmp' = secretsTmp /\ (fd' = fd \/ fd' = FdsPlaced("fillkey"))
      BY <1>12, <2>2 DEF RenameKey
    <3>2. \A q \in SecretProcs : secretAt[q].at = "fill" => fd'[q] = fd[q]
      BY <3>1 DEF FdsPlaced
    <3> QED
      <4>1. ~Writing(p)
        BY <2>2 DEF Writing
      <4> QED
        BY <3>1, <3>2, <4>1, <1>15, NotAtTheFile
  <2>3. CASE secretAt[p] = [call |-> "resetkey", at |-> "renamekey"]
    <3>1. Moves(Idle) \/ Moves([call |-> "resetkey", at |-> "rename"])
      BY <1>12, <2>3 DEF RenameKey
    <3> QED
      BY <2>3, <3>1, AtTheFile DEF Writing, Idle
  <2> QED
    BY <2>1, <2>2, <2>3
<1>13. CASE RenameSecrets(p)
  BY <1>13, AtTheFile DEF RenameSecrets, Writing, Idle
<1>14. CASE KillCall(p)
  <2>1. Moves(Idle) /\ Idle.at = "idle" /\ Idle.call = "none" /\ secretsTmp' = secretsTmp
    BY <1>14 DEF KillCall, secretFiles, Idle
  <2>2. \A q \in SecretProcs \ {p} : fd'[q] = fd[q]
    BY <1>14 DEF KillCall, SecretTyped
  <2> QED
    BY <2>1, <2>2, <1>15, AtTheFile, NotAtTheFile
<1> QED
  BY <1>1, <1>3, <1>4, <1>5, <1>6, <1>7, <1>8, <1>9, <1>10, <1>11, <1>12, <1>13, <1>14

LEMMA NextNoneTorn ==
  ASSUME SecretTyped, OneWriter, NoneTorn, SecretNext
  PROVE  NoneTorn'
<1>1. PICK p \in SecretProcs :
        \/ \E call \in {"set", "rm", "setkey", "resetkey"} : BeginCall(p, call)
        \/ \E n \in SecretNames : SetSecret(p, n) \/ RemoveSecret(p, n)
        \/ SetMasterKey(p) \/ ResetMasterKey(p)
        \/ OpenKeyTmp(p) \/ FillKeyTmp(p) \/ OpenSecretsTmp(p) \/ FillSecretsTmp(p)
        \/ RenameKey(p) \/ RenameSecrets(p) \/ KillCall(p)
  BY DEF SecretNext
<1>2. held \in [SecretProcs -> Entries] /\ held[p] \in Entries /\ Whole(held[p])
  BY DEF SecretTyped, NoneTorn
<1>3. ASSUME NEW entries, Whole(entries), held' = [held EXCEPT ![p] = entries],
             UNCHANGED <<secretsFile, secretsTmp>>
      PROVE  NoneTorn'
  BY <1>2, <1>3 DEF NoneTorn, Whole
<1>4. ASSUME UNCHANGED <<secretsFile, secretsTmp, held>>
      PROVE  NoneTorn'
  BY <1>4 DEF NoneTorn, Whole
<1>5. ASSUME NEW call \in {"set", "rm", "setkey", "resetkey"}, BeginCall(p, call)
      PROVE  NoneTorn'
  BY <1>3, <1>5 DEF BeginCall, secretFiles, NoneTorn
<1>6. ASSUME NEW n \in SecretNames, SetSecret(p, n)
      PROVE  NoneTorn'
  <2>1. UNCHANGED <<secretsFile, secretsTmp>>
    BY <1>6 DEF SetSecret, secretFiles
  <2>2. CASE masterFile \in {NoKey, BlankKey}
    BY <1>4, <1>6, <2>1, <2>2 DEF SetSecret
  <2>3. CASE masterFile \notin {NoKey, BlankKey}
    <3>1. held' = [held EXCEPT ![p] = [held[p] EXCEPT ![n] = masterFile]]
      BY <1>6, <2>3 DEF SetSecret
    <3>2. masterFile # Torn
      BY <2>3, WholeFacts DEF SecretTyped
    <3>3. Whole([held[p] EXCEPT ![n] = masterFile])
      BY <1>2, <3>2 DEF Whole, Entries
    <3> QED
      BY <1>3, <2>1, <3>1, <3>3
  <2> QED
    BY <2>2, <2>3
<1>7. ASSUME NEW n \in SecretNames, RemoveSecret(p, n)
      PROVE  NoneTorn'
  <2>1. UNCHANGED <<secretsFile, secretsTmp>>
    BY <1>7 DEF RemoveSecret, secretFiles
  <2>2. held' = held \/ held' = [held EXCEPT ![p] = [held[p] EXCEPT ![n] = NoKey]]
    BY <1>7 DEF RemoveSecret
  <2>3. Whole([held[p] EXCEPT ![n] = NoKey])
    BY <1>2, SecretAssumption DEF Whole, Entries
  <2> QED
    BY <1>3, <1>4, <2>1, <2>2, <2>3
<1>8. CASE SetMasterKey(p)
  BY <1>4, <1>8 DEF SetMasterKey, secretFiles
<1>9. CASE ResetMasterKey(p)
  <2> DEFINE sealed == [n \in SecretNames |-> IF held[p][n] = NoKey THEN NoKey ELSE keys + 1]
  <2>1. UNCHANGED <<secretsFile, secretsTmp>>
    BY <1>9 DEF ResetMasterKey, secretFiles
  <2>2. held' = held \/ (keys <= KeyChanges /\ held' = [held EXCEPT ![p] = sealed])
    BY <1>9 DEF ResetMasterKey
  <2>3. keys <= KeyChanges => keys + 1 \in 1..(KeyChanges + 1)
    BY SecretAssumption DEF SecretTyped
  <2>4. keys <= KeyChanges => keys + 1 # Torn /\ NoKey # Torn
    BY <2>3, SecretAssumption
  <2>5. keys <= KeyChanges => Whole(sealed)
    BY <2>4 DEF Whole
  <2> HIDE DEF sealed
  <2> QED
    BY <1>3, <1>4, <2>1, <2>2, <2>5
<1>10. CASE OpenKeyTmp(p) \/ FillKeyTmp(p)
  BY <1>4, <1>10 DEF OpenKeyTmp, FillKeyTmp
<1>11. CASE OpenSecretsTmp(p)
  BY <1>11, WholeFacts DEF OpenSecretsTmp, NoneTorn, Whole
<1>12. CASE FillSecretsTmp(p)
  <2>1. secretsTmp = {Empty} /\ fd[p] = "tmp" /\ Over(Empty, held[p]) = {held[p]}
    BY <1>12 DEF FillSecretsTmp, OneWriter, Over
  <2>2. secretsFile' = secretsFile /\ secretsTmp' = {held[p]} /\ held' = held
    BY <1>12, <2>1 DEF FillSecretsTmp
  <2> QED
    BY <1>2, <2>2 DEF NoneTorn, Whole
<1>13. CASE RenameKey(p)
  <2>1. UNCHANGED <<secretsFile, held>> /\ (secretsTmp' = secretsTmp \/ secretsTmp' = {})
    BY <1>13 DEF RenameKey, NoTmp
  <2> QED
    BY <2>1 DEF NoneTorn, Whole
<1>14. CASE RenameSecrets(p)
  <2>1. held' = held /\ secretsTmp' = {} /\ (secretsFile' = secretsFile \/ secretsFile' \in secretsTmp)
    BY <1>14 DEF RenameSecrets, NoTmp
  <2> QED
    BY <2>1 DEF NoneTorn, Whole
<1>15. CASE KillCall(p)
  BY <1>4, <1>15 DEF KillCall, secretFiles
<1> QED
  BY <1>1, <1>5, <1>6, <1>7, <1>8, <1>9, <1>10, <1>11, <1>12, <1>13, <1>14, <1>15

LEMMA UnmixedInvariance == SecretSpec => []UnmixedInv
<1>1. SecretInit => UnmixedInv
  <2>1. ASSUME SecretInit
        PROVE  /\ secretsFile = Empty /\ secretsTmp = {} /\ \A p \in SecretProcs : held[p] = Empty
               /\ \A p \in SecretProcs : secretAt[p] = Idle
    BY <2>1 DEF SecretInit, NoTmp
  <2> QED
    BY <2>1, WholeFacts DEF UnmixedInv, OneWriter, NoneTorn, Writing, Idle
<1>2. SecretInv /\ UnmixedInv /\ [SecretNext]_secretVars => UnmixedInv'
  <2> SUFFICES ASSUME SecretInv, UnmixedInv, [SecretNext]_secretVars, ~mixed'
               PROVE  OneWriter' /\ NoneTorn'
    BY DEF UnmixedInv
  <2>1. CASE SecretNext
    <3>1. ~mixed
      BY <2>1 DEF SecretNext, BeginCall, SetSecret, RemoveSecret, SetMasterKey, ResetMasterKey, OpenKeyTmp,
                  FillKeyTmp, OpenSecretsTmp, FillSecretsTmp, RenameKey, RenameSecrets, KillCall
    <3> QED
      BY <2>1, <3>1, NextOneWriter, NextNoneTorn DEF SecretInv, UnmixedInv
  <2>2. CASE UNCHANGED secretVars
    <3>1. UNCHANGED <<secretsFile, secretsTmp, secretAt, held, fd, mixed>>
      BY <2>2 DEF secretVars, secretFiles, secretCalls
    <3> QED
      BY <3>1 DEF UnmixedInv, OneWriter, NoneTorn, Writing, Whole
  <2> QED
    BY <2>1, <2>2
<1> QED
  BY <1>1, <1>2, SecretInvariance, PTL DEF SecretSpec

(* The files and the calls are typed, for any processes, names and keys.   *)
THEOREM SecretTypeCorrect == SecretSpec => []SecretTypeOK
<1>1. SecretInv => SecretTypeOK
  <2>1. \A s \in CallStates : s.call \in {"none", "set", "rm"} \cup MakesKey
    BY CallStateFacts
  <2> QED
    BY <2>1 DEF SecretInv, SecretTyped, SecretTypeOK, KeyNumbers, Entries
<1> QED
  BY <1>1, SecretInvariance, PTL

(* Any number of sets and removals that overlap, killed anywhere, and any  *)
(* changes of the key that are alone and not killed between their renames, *)
(* leave no entry sealed with a key that is not the master key; and none   *)
(* is cut while no two calls are at the temporary file at once.            *)
THEOREM SecretsOpenTheorem == SecretSpec => []SecretsOpen
<1>1. SecretInv /\ UnmixedInv => SecretsOpen
  BY DEF SecretInv, UnmixedInv, NoneTorn, Whole, Readable, SealedWith, BetweenRenames, SecretsOpen
<1> QED
  BY <1>1, SecretInvariance, UnmixedInvariance, PTL

-----------------------------------------------------------------------------
(***************************************************************************)
(* What config.Load makes of the sources of a numeric setting, for any     *)
(* number of files and whatever they and the maps they become hold.        *)
(*                                                                         *)
(* The inductive invariant: a number has one spelling once its file is     *)
(* normalised, so what is merged so far is the highest file that has it,   *)
(* and the order in which the map is applied has nothing to decide.        *)
(***************************************************************************)

Highest(k, S) == k \in S /\ \A l \in S : l <= k

\* The files up to n that have the number, and 0.
NumberFiles(n) == {0} \cup {k \in 1..n : file[k]["number"] # {}}

\* These, and the environment.
NumberSources == NumberFiles(CfFiles) \cup (IF "number" \in env THEN {CfEnvRank} ELSE {})

CfTyped ==
  /\ file \in [1..CfFiles -> [Settings -> SUBSET Spellings]]
  /\ merged \in [Settings -> [Spellings -> 0..CfFiles]]
  /\ value \in [Settings -> 0..CfFlagRank] /\ applied \subseteq Keys
  /\ layer \in 1..(CfFiles + 1)
  /\ cfAt \in {"merge", "files", "flags", "loaded", "failed"}

MergedSoFar ==
  cfAt = "merge" =>
    /\ applied = {} /\ value["number"] = 0 /\ merged["number"]["nested"] = 0
    /\ Highest(merged["number"]["flat"], NumberFiles(layer - 1))

AppliedSoFar ==
  cfAt = "files" =>
    /\ merged["number"]["nested"] = 0
    /\ Highest(merged["number"]["flat"], NumberFiles(CfFiles))
    /\ value["number"] = IF <<"number", "flat">> \in applied THEN merged["number"]["flat"] ELSE 0

Overridden ==
  /\ cfAt = "flags" => Highest(value["number"], NumberSources)
  /\ cfAt = "loaded" => Highest(value["number"], DefinedBy("number"))

CfInv == CfTyped /\ MergedSoFar /\ AppliedSoFar /\ Overridden

LEMMA CfConstants == CfFiles \in Nat /\ "number" \in Settings /\ Spellings = {"flat", "nested"}
BY CfAssumption DEF Settings, Spellings

LEMMA HighestRank ==
  /\ NumberFiles(0) = {0}
  /\ \A n \in Nat : NumberFiles(n) \subseteq 0..n
  /\ \A n \in Nat \ {0} : NumberFiles(n) =
       NumberFiles(n - 1) \cup (IF file[n]["number"] # {} THEN {n} ELSE {})
<1>1. NumberFiles(0) = {0}
  BY DEF NumberFiles
<1>2. \A n \in Nat : NumberFiles(n) \subseteq 0..n
  BY DEF NumberFiles
<1>3. ASSUME NEW n \in Nat \ {0}
      PROVE  NumberFiles(n) = NumberFiles(n - 1) \cup (IF file[n]["number"] # {} THEN {n} ELSE {})
  <2>1. 1..n = (1..(n - 1)) \cup {n}
    OBVIOUS
  <2> QED
    BY <2>1 DEF NumberFiles
<1> QED
  BY <1>1, <1>2, <1>3

LEMMA InitCf == CfInit => CfInv
<1> SUFFICES ASSUME CfInit PROVE CfInv
  OBVIOUS
<1>1. CfTyped
  BY CfConstants DEF CfInit, CfTyped, CfFlagRank
<1>2. MergedSoFar
  <2>1. NumberFiles(layer - 1) = {0}
    BY HighestRank DEF CfInit
  <2> QED
    BY <2>1, CfConstants DEF CfInit, MergedSoFar, Highest
<1> QED
  BY <1>1, <1>2 DEF CfInit, CfInv, AppliedSoFar, Overridden

LEMMA MergeFileInv == CfInv /\ MergeFile => CfInv'
<1> SUFFICES ASSUME CfInv, MergeFile PROVE CfInv'
  OBVIOUS
<1>1. /\ cfAt = "merge" /\ cfAt' = "merge" /\ layer <= CfFiles /\ layer' = layer + 1
      /\ UNCHANGED <<file, env, flag, value, applied>> /\ layer \in Nat \ {0}
  BY CfConstants DEF MergeFile, cfSources, CfInv, CfTyped
<1>2. merged' = [s \in Settings |-> [p \in Spellings |->
                   IF p \in Normalized(file[layer])[s] THEN layer ELSE merged[s][p]]]
  BY DEF MergeFile
<1>3. layer \in 0..CfFiles /\ layer' \in 1..(CfFiles + 1)
  BY <1>1, CfConstants DEF CfInv, CfTyped
<1>4. CfTyped'
  <2>1. merged' \in [Settings -> [Spellings -> 0..CfFiles]]
    BY <1>2, <1>3 DEF CfInv, CfTyped
  <2> QED
    BY <1>1, <1>3, <2>1 DEF CfInv, CfTyped
<1>5. Normalized(file[layer])["number"] = IF file[layer]["number"] = {} THEN {} ELSE {"flat"}
  <2>1. file[layer] \in [Settings -> SUBSET Spellings]
    BY <1>1, <1>3, CfConstants DEF CfInv, CfTyped
  <2> QED
    BY <2>1, CfConstants DEF Normalized
<1>6. /\ merged'["number"]["nested"] = merged["number"]["nested"]
      /\ merged'["number"]["flat"] =
           IF file[layer]["number"] = {} THEN merged["number"]["flat"] ELSE layer
  BY <1>2, <1>5, CfConstants
<1>7. MergedSoFar'
  <2>1. \A n \in Nat : NumberFiles(n)' = NumberFiles(n)
    BY <1>1 DEF NumberFiles
  <2>2. layer' - 1 = layer
    BY <1>1
  <2>3. Highest(merged["number"]["flat"], NumberFiles(layer - 1))
        /\ NumberFiles(layer - 1) \subseteq 0..(layer - 1)
        /\ NumberFiles(layer) = NumberFiles(layer - 1)
                                \cup (IF file[layer]["number"] # {} THEN {layer} ELSE {})
    BY <1>1, HighestRank DEF CfInv, MergedSoFar
  <2>4. Highest(merged'["number"]["flat"], NumberFiles(layer))
    BY <1>1, <1>6, <2>3 DEF Highest
  <2>5. Highest(merged["number"]["flat"], NumberFiles(layer - 1))'
    BY <1>1, <2>1, <2>2, <2>4 DEF Highest
  <2> QED
    BY <1>1, <1>6, <2>5 DEF CfInv, MergedSoFar
<1> QED
  BY <1>1, <1>4, <1>7 DEF CfInv, AppliedSoFar, Overridden

LEMMA MergedInv == CfInv /\ Merged => CfInv'
<1> SUFFICES ASSUME CfInv, Merged PROVE CfInv'
  OBVIOUS
<1>1. /\ cfAt = "merge" /\ cfAt' = "files" /\ layer = CfFiles + 1
      /\ UNCHANGED <<file, env, flag, value, applied, merged, layer>>
  BY CfConstants DEF Merged, cfSources, CfInv, CfTyped
<1>2. CfTyped'
  BY <1>1 DEF CfInv, CfTyped
<1>3. layer - 1 = CfFiles
  BY <1>1, CfConstants
<1>4. AppliedSoFar'
  BY <1>1, <1>3 DEF CfInv, MergedSoFar, AppliedSoFar, Highest, NumberFiles
<1> QED
  BY <1>1, <1>2, <1>4 DEF CfInv, MergedSoFar, Overridden

LEMMA ApplyKeyInv ==
  ASSUME CfInv, NEW s \in Settings, NEW p \in Spellings, ApplyKey(s, p)
  PROVE  CfInv'
<1>1. /\ cfAt = "files" /\ cfAt' = "files" /\ merged[s][p] # 0
      /\ value' = [value EXCEPT ![s] = merged[s][p]] /\ applied' = applied \cup {<<s, p>>}
      /\ UNCHANGED <<file, env, flag, merged, layer>>
  BY DEF ApplyKey, cfSources
<1>2. CfTyped'
  <2>1. merged[s][p] \in 0..CfFlagRank
    BY CfConstants DEF CfInv, CfTyped, CfFlagRank
  <2> QED
    BY <1>1, <2>1 DEF CfInv, CfTyped, Keys
<1>3. value'["number"] = IF <<"number", "flat">> \in applied' THEN merged["number"]["flat"] ELSE 0
  BY <1>1, CfConstants DEF CfInv, CfTyped, AppliedSoFar
<1>4. AppliedSoFar'
  BY <1>1, <1>3 DEF CfInv, AppliedSoFar, Highest, NumberFiles
<1> QED
  BY <1>1, <1>2, <1>4 DEF CfInv, MergedSoFar, Overridden

(* What is left to apply is nothing, so nothing of the number is.          *)
LEMMA ApplyEnvInv == CfInv /\ ApplyEnv => CfInv'
<1> SUFFICES ASSUME CfInv, ApplyEnv PROVE CfInv'
  OBVIOUS
<1>1. /\ cfAt = "files" /\ cfAt' = "flags"
      /\ \A k \in Keys \ applied : merged[k[1]][k[2]] = 0
      /\ value' = [s \in Settings |-> IF s \in env THEN CfEnvRank ELSE value[s]]
      /\ UNCHANGED <<file, env, flag, merged, applied, layer>>
  BY DEF ApplyEnv, cfSources
<1>2. CfTyped'
  <2>1. CfEnvRank \in 0..CfFlagRank
    BY CfConstants DEF CfEnvRank, CfFlagRank
  <2> QED
    BY <1>1, <2>1 DEF CfInv, CfTyped
<1>3. value["number"] = merged["number"]["flat"]
  <2>1. <<"number", "flat">> \in Keys
    BY CfConstants DEF Keys
  <2> QED
    BY <1>1, <2>1 DEF CfInv, AppliedSoFar
<1>4. Highest(value'["number"], NumberSources)
  <2>1. Highest(merged["number"]["flat"], NumberFiles(CfFiles)) /\ NumberFiles(CfFiles) \subseteq 0..CfFiles
    BY <1>1, HighestRank, CfConstants DEF CfInv, AppliedSoFar
  <2>2. value'["number"] = IF "number" \in env THEN CfEnvRank ELSE merged["number"]["flat"]
    BY <1>1, <1>3, CfConstants
  <2> QED
    BY <2>1, <2>2, CfConstants DEF Highest, NumberSources, CfEnvRank
<1>5. Highest(value["number"], NumberSources)'
  BY <1>1, <1>4 DEF Highest, NumberSources, NumberFiles
<1> QED
  BY <1>1, <1>2, <1>5 DEF CfInv, MergedSoFar, AppliedSoFar, Overridden

LEMMA ApplyFlagsInv == CfInv /\ ApplyFlags => CfInv'
<1> SUFFICES ASSUME CfInv, ApplyFlags PROVE CfInv'
  OBVIOUS
<1>1. /\ cfAt = "flags" /\ cfAt' = "loaded"
      /\ value' = [s \in Settings |-> IF s \in flag THEN CfFlagRank ELSE value[s]]
      /\ UNCHANGED <<file, env, flag, merged, applied, layer>>
  BY DEF ApplyFlags, cfSources
<1>2. CfTyped'
  <2>1. CfFlagRank \in 0..CfFlagRank
    BY CfConstants DEF CfFlagRank
  <2> QED
    BY <1>1, <2>1 DEF CfInv, CfTyped
<1>3. Highest(value'["number"], DefinedBy("number"))
  <2>1. Highest(value["number"], NumberSources) /\ NumberFiles(CfFiles) \subseteq 0..CfFiles
    BY <1>1, HighestRank, CfConstants DEF CfInv, Overridden
  <2>2. DefinedBy("number") = NumberSources \cup (IF "number" \in flag THEN {CfFlagRank} ELSE {})
    BY DEF DefinedBy, NumberSources, NumberFiles
  <2>3. value'["number"] = IF "number" \in flag THEN CfFlagRank ELSE value["number"]
    BY <1>1, CfConstants
  <2>4. \A k \in NumberSources : k \in Nat /\ k <= CfFlagRank
    BY <2>1, CfConstants DEF NumberSources, CfEnvRank, CfFlagRank
  <2> QED
    BY <2>1, <2>2, <2>3, <2>4, CfConstants DEF Highest, CfFlagRank
<1>4. Highest(value["number"], DefinedBy("number"))'
  BY <1>1, <1>3 DEF Highest, DefinedBy
<1> QED
  BY <1>1, <1>2, <1>4 DEF CfInv, MergedSoFar, AppliedSoFar, Overridden

LEMMA NextCf == CfInv /\ [CfNext]_cfVars => CfInv'
<1> SUFFICES ASSUME CfInv, [CfNext]_cfVars PROVE CfInv'
  OBVIOUS
<1>1. CASE RejectFile
  BY <1>1 DEF RejectFile, cfSources, CfInv, CfTyped, MergedSoFar, AppliedSoFar, Overridden
<1>2. CASE Unload
  <2>1. CfTyped'
    BY <1>2, CfConstants DEF Unload, cfSources, CfInv, CfTyped, CfFlagRank
  <2>2. NumberFiles(0)' = {0}
    BY DEF NumberFiles
  <2>3. MergedSoFar'
    BY <1>2, <2>2, CfConstants DEF Unload, MergedSoFar, Highest
  <2> QED
    BY <1>2, <2>1, <2>3 DEF Unload, CfInv, AppliedSoFar, Overridden
<1>3. CASE UNCHANGED cfVars
  BY <1>3 DEF cfVars, cfSources, CfInv, CfTyped, MergedSoFar, AppliedSoFar, Overridden, Highest,
              NumberFiles, NumberSources, DefinedBy
<1> QED
  BY <1>1, <1>2, <1>3, MergeFileInv, MergedInv, ApplyKeyInv, ApplyEnvInv, ApplyFlagsInv DEF CfNext

(* A numeric setting of [llm] has the value of the highest source that has  *)
(* it, whatever its spelling there: normalizeLLMNumericSource has left one  *)
(* key of it when applyToml ranges over the map.                            *)
THEOREM NumbersFollowPrecedenceTheorem == CfSpec => []NumbersFollowPrecedence
<1>1. CfInv => NumbersFollowPrecedence
  <2> SUFFICES ASSUME CfInv, cfAt = "loaded" PROVE value["number"] = HighestSource("number")
    BY DEF NumbersFollowPrecedence
  <2>1. Highest(value["number"], DefinedBy("number")) /\ DefinedBy("number") \subseteq Nat
    BY CfConstants DEF CfInv, Overridden, DefinedBy, CfEnvRank, CfFlagRank
  <2>2. \A k, l \in DefinedBy("number") : k <= l /\ l <= k => k = l
    BY <2>1
  <2> QED
    BY <2>1, <2>2 DEF HighestSource, Highest
<1> QED
  BY InitCf, NextCf, <1>1, PTL DEF CfSpec

(* Every setting has the value of some source, or the default.              *)
THEOREM CfTypeCorrect == CfSpec => []CfTypeOK
<1>1. CfInv => CfTypeOK
  BY DEF CfInv, CfTyped, CfTypeOK, Keys
<1> QED
  BY InitCf, NextCf, <1>1, PTL DEF CfSpec

-----------------------------------------------------------------------------
(***************************************************************************)
(* What a process segments with, for any number of processes, downloads    *)
(* and removals.                                                           *)
(*                                                                         *)
(* The inductive invariant.  Always: a placed file is absent or whole, and *)
(* one that is loading undisturbed sees what is there.  And as long as     *)
(* changes do not overlap and none is killed: the one who changes the      *)
(* directory has left behind what it says, at rest the manifest is right,  *)
(* its time is later than any that a process remembers of an earlier       *)
(* manifest, and so a process that remembers it has what it names.         *)
(***************************************************************************)

DictPaths == {Placed(f) : f \in DictFiles} \cup (DictProcs \X DictFiles)
DictPoints == {"unloaded", "idle", "drop", "put", "unlink", "detect", "load", "stat"}

DictTyped ==
  /\ disk \in [DictPaths -> {"absent", "partial", "whole"}]
  /\ manifest \in Variants \cup {NoVariant} /\ stamp \in 0..DictCalls /\ ticks \in 0..DictCalls
  /\ segmenter \in [DictProcs -> {"none", "whole", "broken"}]
  /\ active \in [DictProcs -> Variants \cup {NoVariant}] /\ had \in [DictProcs -> 0..DictCalls]
  /\ dictAt \in [DictProcs -> DictPoints] /\ wanted \in [DictProcs -> Variants \cup {NoVariant}]
  /\ drop \in [DictProcs -> SUBSET DictFiles] /\ put \in [DictProcs -> SUBSET DictFiles]
  /\ settled \subseteq DictProcs /\ torn \in BOOLEAN

NoPartial == \A f \in DictFiles : disk[Placed(f)] # "partial"

\* The times of manifests are the numbers of changes.
Stamps ==
  /\ stamp = 0 <=> manifest = NoVariant
  /\ stamp <= ticks /\ \A p \in DictProcs : had[p] <= ticks
  /\ \A p \in DictProcs : dictAt[p] \in {"drop", "put"} => ticks > 0 /\ wanted[p] \in Variants

Loading ==
  \A p \in settled : dictAt[p] \in {"load", "stat"} =>
    /\ Changing = {}
    /\ dictAt[p] = "load" => wanted[p] = Detected
    /\ dictAt[p] = "stat" => active[p] = Detected

OneChanger == \A p, q \in Changing : p = q

SoFar(p) ==
  /\ dictAt[p] \in {"drop", "put"} => stamp < ticks /\ \A q \in DictProcs : had[q] < ticks
  /\ dictAt[p] = "drop" => put[p] = FilesOf(wanted[p])
  /\ dictAt[p] = "put" => \A f \in FilesOf(wanted[p]) \ put[p] : disk[Placed(f)] = "whole"
  /\ dictAt[p] = "unlink" => /\ manifest = NoVariant
                             /\ \A f \in DictFiles \ drop[p] : disk[Placed(f)] = "absent"

AtRest ==
  Changing = {} => IF manifest = NoVariant THEN \A f \in DictFiles : disk[Placed(f)] = "absent"
                                           ELSE Present(manifest)

Remembers(p) ==
  p \in settled /\ dictAt[p] = "idle" /\ active[p] # NoVariant =>
    had[p] # 0 /\ (had[p] = stamp => active[p] = manifest)

Undamaged == OneChanger /\ AtRest /\ \A p \in DictProcs : SoFar(p) /\ Remembers(p)

DictInv ==
  /\ DictTyped /\ NoPartial /\ NeverBroken /\ Stamps /\ Loading
  /\ ~torn => Undamaged

LEMMA DictFacts ==
  /\ DictCalls \in Nat /\ NoVariant \notin Variants
  /\ \A v \in Variants : FilesOf(v) # {} /\ FilesOf(v) \subseteq DictFiles
  /\ \A f \in DictFiles : Placed(f) \in DictPaths /\ Placed(f)[1] = "dict"
  /\ \A p \in DictProcs, f \in DictFiles :
       Temp(p, f) \in DictPaths /\ \A g \in DictFiles : Temp(p, f) # Placed(g)
  /\ \A p \in DictProcs : p # "dict"
<1>1. \A v \in Variants : FilesOf(v) # {} /\ FilesOf(v) \subseteq DictFiles
  BY DEF Variants, FilesOf, DictFiles
<1> QED
  BY <1>1, DictAssumption DEF Placed, Temp, DictPaths

(* What is detected is there; it is what the manifest names if that is      *)
(* there, and nothing if nothing is.                                        *)
LEMMA DetectedFacts ==
  ASSUME manifest \in Variants \cup {NoVariant}
  PROVE  /\ Detected \in Variants \cup {NoVariant}
         /\ Detected # NoVariant => Present(Detected)
         /\ manifest # NoVariant /\ Present(manifest) => Detected = manifest
         /\ (manifest = NoVariant /\ \A f \in DictFiles : disk[Placed(f)] = "absent")
              => Detected = NoVariant
<1> DEFINE found == {i \in 1..3 : Present(DictOrder[i])}
           first == CHOOSE i \in found : \A j \in found : i <= j
<1>1. Detected = IF manifest # NoVariant /\ Present(manifest) THEN manifest
                 ELSE IF found = {} THEN NoVariant ELSE DictOrder[first]
  BY DEF Detected
<1>2. found # {} => first \in found
  <2>1. found \subseteq {1, 2, 3}
    OBVIOUS
  <2>2. found # {} => \E i \in found : \A j \in found : i <= j
    BY <2>1
  <2> QED
    BY <2>2
<1>3. \A i \in 1..3 : DictOrder[i] \in Variants
  BY DEF DictOrder, Variants
<1>4. \A i \in found : DictOrder[i] \in Variants /\ Present(DictOrder[i])
  BY <1>3
<1>5. (\A f \in DictFiles : disk[Placed(f)] = "absent") => found = {}
  <2>1. \A v \in Variants : (\A f \in DictFiles : disk[Placed(f)] = "absent") => ~Present(v)
    BY DictFacts DEF Present
  <2> QED
    BY <1>3, <2>1
<1> HIDE DEF found, first
<1> QED
  BY <1>1, <1>2, <1>4, <1>5, DictFacts

LEMMA DetectedKept ==
  ASSUME UNCHANGED <<disk, manifest>>
  PROVE  Detected' = Detected /\ \A v \in Variants : Present(v)' = Present(v)
<1> QED
  BY DEF Detected, Present

(* A step of p that leaves the directory as it is.                          *)
LEMMA StillInv ==
  ASSUME DictInv, NEW p \in DictProcs, DictTyped',
         UNCHANGED <<disk, manifest, stamp, ticks, drop, put, torn>>,
         \A q \in DictProcs \ {p} :
           /\ dictAt'[q] = dictAt[q] /\ wanted'[q] = wanted[q] /\ active'[q] = active[q]
           /\ segmenter'[q] = segmenter[q] /\ had'[q] = had[q]
           /\ q \in settled' => q \in settled,
         dictAt[p] \notin {"drop", "put", "unlink"}, dictAt'[p] \notin {"drop", "put", "unlink"},
         had'[p] \in {had[p], stamp}, segmenter'[p] # "broken",
         p \in settled' /\ dictAt'[p] \in {"load", "stat"} =>
           /\ Changing = {}
           /\ dictAt'[p] = "load" => wanted'[p] = Detected
           /\ dictAt'[p] = "stat" => active'[p] = Detected,
         ~torn => Remembers(p)'
  PROVE  DictInv'
<1>1. Detected' = Detected /\ \A v \in Variants : Present(v)' = Present(v)
  BY DetectedKept
<1>2. DictTyped /\ dictAt[p] # "rename"
  BY DEF DictInv, DictTyped, DictPoints
<1>3. dictAt'[p] # "rename"
  BY DEF DictTyped, DictPoints
<1>4. Changing' = Changing
  BY <1>2, <1>3 DEF Changing
<1>5. NoPartial' /\ NeverBroken'
  BY DEF DictInv, NoPartial, NeverBroken
<1>6. Stamps'
  BY <1>2 DEF DictInv, Stamps
<1>7. Loading'
  <2>1. settled' \subseteq DictProcs
    BY DEF DictTyped
  <2> QED
    BY <1>1, <1>4, <2>1 DEF DictInv, Loading
<1>8. ASSUME ~torn
      PROVE  Undamaged'
  <2>1. Undamaged
    BY <1>8 DEF DictInv
  <2>2. OneChanger'
    BY <1>4, <2>1 DEF Undamaged, OneChanger
  <2>3. AtRest'
    BY <1>1, <1>2, <1>4, <2>1 DEF Undamaged, AtRest, DictTyped
  <2>4. ASSUME NEW q \in DictProcs PROVE SoFar(q)'
    BY <2>1, <2>4 DEF Undamaged, SoFar
  <2>5. ASSUME NEW q \in DictProcs PROVE Remembers(q)'
    BY <1>8, <2>1, <2>5 DEF Undamaged, Remembers
  <2> QED
    BY <2>2, <2>3, <2>4, <2>5 DEF Undamaged
<1> QED
  BY <1>5, <1>6, <1>7, <1>8 DEF DictInv

(* A step of p that changes the directory.                                  *)
LEMMA ChangeInv ==
  ASSUME DictInv, NEW p \in DictProcs, DictTyped', NoPartial', Stamps', Unsettle,
         UNCHANGED <<segmenter, active, had>>,
         \A q \in DictProcs \ {p} : dictAt'[q] = dictAt[q],
         dictAt'[p] \notin {"idle", "load", "stat"},
         ~torn' => /\ ~torn /\ Changing \subseteq {p}
                   /\ SoFar(p)' /\ AtRest' /\ \A q \in DictProcs \ {p} : Remembers(q)'
  PROVE  DictInv'
<1>1. NeverBroken'
  BY DEF DictInv, NeverBroken
<1>2. Loading'
  BY DEF Unsettle, Loading, DictInv, DictTyped
<1>3. ASSUME ~torn'
      PROVE  Undamaged'
  <2>1. Changing' \subseteq {p}
    BY <1>3 DEF Changing
  <2>2. \A q \in DictProcs \ {p} : SoFar(q)'
    BY <2>1 DEF SoFar, Changing
  <2>3. Remembers(p)'
    BY DEF Remembers
  <2> QED
    BY <1>3, <2>1, <2>2, <2>3 DEF Undamaged, OneChanger
<1> QED
  BY <1>1, <1>2, <1>3 DEF DictInv

(* The one who changes the directory is the only one who does.              *)
LEMMA OnlyChanger ==
  ASSUME DictInv, ~torn, NEW p \in Changing
  PROVE  Changing = {p} /\ SoFar(p) /\ \A q \in DictProcs : Remembers(q)
BY DEF DictInv, Undamaged, OneChanger, Changing

(* What p remembers is as it was.                                           *)
LEMMA RemembersKept ==
  ASSUME Unsettle, UNCHANGED <<active, had, stamp, manifest>>,
         NEW q \in DictProcs, dictAt'[q] = dictAt[q], Remembers(q)
  PROVE  Remembers(q)'
BY DEF Unsettle, Remembers

LEMMA DownloadInv ==
  ASSUME DictInv, NEW p \in DictProcs, NEW v \in Variants, Download(p, v)
  PROVE  DictInv'
<1>1. /\ dictAt[p] \in {"idle", "unloaded"} /\ ticks < DictCalls /\ ticks' = ticks + 1
      /\ torn' = (torn \/ Changing # {}) /\ dictAt' = [dictAt EXCEPT ![p] = "drop"]
      /\ wanted' = [wanted EXCEPT ![p] = v] /\ put' = [put EXCEPT ![p] = FilesOf(v)] /\ Unsettle
      /\ UNCHANGED <<disk, manifest, stamp, segmenter, active, had>> /\ DictTyped
  BY DEF Download, dirVars, DictInv
<1>2. drop' \in [DictProcs -> SUBSET DictFiles]
  <2>1. Detected \in Variants \cup {NoVariant}
    BY <1>1, DetectedFacts DEF DictTyped
  <2>2. (IF Detected \in {NoVariant, v} THEN {} ELSE FilesOf(Detected) \ FilesOf(v)) \subseteq DictFiles
    BY <2>1, DictFacts
  <2>3. drop' = [drop EXCEPT ![p] = IF Detected \in {NoVariant, v} THEN {}
                                    ELSE FilesOf(Detected) \ FilesOf(v)]
    BY DEF Download
  <2> QED
    BY <1>1, <2>2, <2>3 DEF DictTyped
<1>3. settled' \subseteq DictProcs /\ put' \in [DictProcs -> SUBSET DictFiles]
      /\ wanted' \in [DictProcs -> Variants \cup {NoVariant}] /\ wanted'[p] = v
      /\ dictAt' \in [DictProcs -> DictPoints] /\ dictAt'[p] = "drop"
      /\ \A q \in DictProcs \ {p} : dictAt'[q] = dictAt[q] /\ wanted'[q] = wanted[q]
  BY <1>1, DictFacts DEF DictTyped, Unsettle, DictPoints
<1>4. ticks \in Nat /\ ticks' \in 0..DictCalls /\ torn' \in BOOLEAN
  BY <1>1, DictFacts DEF DictTyped
<1>5. DictTyped'
  BY <1>1, <1>2, <1>3, <1>4 DEF DictTyped
<1>6. NoPartial'
  BY <1>1 DEF DictInv, NoPartial
<1>7. Stamps /\ stamp \in Nat /\ \A q \in DictProcs : had[q] \in Nat
  BY <1>1, DictFacts DEF DictInv, DictTyped
<1>8. Stamps'
  BY <1>1, <1>3, <1>4, <1>7 DEF Stamps
<1>9. SoFar(p)'
  <2>1. put'[p] = FilesOf(v)
    BY <1>1 DEF DictTyped
  <2> QED
    BY <1>1, <1>3, <1>4, <1>7, <2>1 DEF SoFar, Stamps
<1>10. ASSUME ~torn'
       PROVE  ~torn /\ Changing = {} /\ AtRest' /\ \A q \in DictProcs \ {p} : Remembers(q)'
  <2>1. ~torn /\ Changing = {} /\ Undamaged
    BY <1>1, <1>10 DEF DictInv
  <2>2. AtRest'
    BY <1>3 DEF AtRest, Changing
  <2> QED
    BY <1>1, <1>3, <2>1, <2>2, RemembersKept DEF Undamaged
<1> QED
  BY <1>1, <1>3, <1>5, <1>6, <1>8, <1>9, <1>10, ChangeInv

LEMMA DropFileInv ==
  ASSUME DictInv, NEW p \in DictProcs, DropFile(p)
  PROVE  DictInv'
<1>1. /\ dictAt[p] = "drop" /\ Unsettle /\ DictTyped /\ p \in Changing
      /\ UNCHANGED <<manifest, stamp, ticks, segmenter, active, had, wanted, put, torn>>
      /\ \/ dictAt' = [dictAt EXCEPT ![p] = "put"] /\ UNCHANGED <<disk, drop>>
         \/ \E f \in drop[p] : /\ disk' = [disk EXCEPT ![Placed(f)] = "absent"]
                               /\ drop' = [drop EXCEPT ![p] = @ \ {f}]
                               /\ dictAt' = dictAt
  BY DEF DropFile, DictInv, Changing
<1>2. dictAt' \in [DictProcs -> DictPoints] /\ dictAt'[p] \in {"drop", "put"}
      /\ \A q \in DictProcs \ {p} : dictAt'[q] = dictAt[q]
  BY <1>1 DEF DictTyped, DictPoints
<1>3. disk' \in [DictPaths -> {"absent", "partial", "whole"}]
      /\ drop' \in [DictProcs -> SUBSET DictFiles] /\ settled' \subseteq DictProcs
  BY <1>1, DictFacts DEF DictTyped, Unsettle
<1>4. DictTyped'
  BY <1>1, <1>2, <1>3 DEF DictTyped
<1>5. NoPartial'
  BY <1>1, DictFacts DEF DictInv, NoPartial, DictTyped
<1>6. Stamps'
  BY <1>1, <1>2 DEF DictInv, Stamps
<1>7. ASSUME ~torn'
      PROVE  ~torn /\ Changing \subseteq {p} /\ SoFar(p)' /\ AtRest'
             /\ \A q \in DictProcs \ {p} : Remembers(q)'
  <2>1. ~torn /\ Changing = {p} /\ SoFar(p) /\ \A q \in DictProcs : Remembers(q)
    BY <1>1, <1>7, OnlyChanger
  <2>2. AtRest'
    BY <1>2 DEF AtRest, Changing
  <2>3. SoFar(p)'
    BY <1>1, <1>2, <2>1 DEF SoFar
  <2> QED
    BY <1>1, <1>2, <1>7, <2>1, <2>2, <2>3, RemembersKept
<1> QED
  BY <1>1, <1>2, <1>4, <1>5, <1>6, <1>7, ChangeInv

(* A temporary file is no placed one.                                       *)
LEMMA WriteFileInv ==
  ASSUME DictInv, NEW p \in DictProcs, WriteFile(p)
  PROVE  DictInv'
<1>1. /\ dictAt[p] = "put" /\ Unsettle /\ DictTyped /\ p \in Changing
      /\ UNCHANGED <<manifest, stamp, ticks, segmenter, active, had, dictAt, wanted, drop, put, torn>>
  BY DEF WriteFile, planVars, DictInv, Changing
<1>2. PICK f \in put[p] : disk' = [disk EXCEPT ![Temp(p, f)] =
                                     IF disk[Temp(p, f)] = "partial" THEN "whole" ELSE "partial"]
  BY DEF WriteFile
<1>3. f \in DictFiles
  BY <1>1, <1>2 DEF DictTyped
<1>4. \A g \in DictFiles : disk'[Placed(g)] = disk[Placed(g)]
  BY <1>1, <1>2, <1>3, DictFacts DEF DictTyped
<1>5. DictTyped'
  <2>1. disk' \in [DictPaths -> {"absent", "partial", "whole"}] /\ settled' \subseteq DictProcs
    BY <1>1, <1>2, <1>3, DictFacts DEF DictTyped, Unsettle
  <2> QED
    BY <1>1, <2>1 DEF DictTyped
<1>6. NoPartial'
  BY <1>4 DEF DictInv, NoPartial
<1>7. Stamps'
  BY <1>1 DEF DictInv, Stamps
<1>8. ASSUME ~torn'
      PROVE  ~torn /\ Changing \subseteq {p} /\ SoFar(p)' /\ AtRest'
             /\ \A q \in DictProcs \ {p} : Remembers(q)'
  <2>1. ~torn /\ Changing = {p} /\ SoFar(p) /\ \A q \in DictProcs : Remembers(q)
    BY <1>1, <1>8, OnlyChanger
  <2>2. AtRest'
    BY <1>1 DEF AtRest, Changing
  <2>3. SoFar(p)'
    <3>1. Stamps
      BY DEF DictInv
    <3>2. FilesOf(wanted[p]) \subseteq DictFiles
      BY <1>1, <3>1, DictFacts DEF Stamps
    <3> QED
      BY <1>1, <1>4, <2>1, <3>2 DEF SoFar
  <2> QED
    BY <1>1, <2>1, <2>2, <2>3, RemembersKept
<1> QED
  BY <1>1, <1>5, <1>6, <1>7, <1>8, ChangeInv

LEMMA RenameFileInv ==
  ASSUME DictInv, NEW p \in DictProcs, RenameFile(p)
  PROVE  DictInv'
<1>1. /\ dictAt[p] = "put" /\ Unsettle /\ DictTyped /\ p \in Changing
      /\ UNCHANGED <<manifest, stamp, ticks, segmenter, active, had, dictAt, wanted, drop, torn>>
  BY DEF RenameFile, DictInv, Changing
<1>2. PICK f \in put[p] :
        /\ disk' = [[disk EXCEPT ![Temp(p, f)] = "absent"] EXCEPT ![Placed(f)] = "whole"]
        /\ put' = [put EXCEPT ![p] = put[p] \ {f}]
  BY DEF RenameFile
<1>3. f \in DictFiles
  BY <1>1, <1>2 DEF DictTyped
<1>4. DictTyped'
  <2>1. disk' \in [DictPaths -> {"absent", "partial", "whole"}] /\ settled' \subseteq DictProcs
    BY <1>1, <1>2, <1>3, DictFacts DEF DictTyped, Unsettle
  <2>2. put' \in [DictProcs -> SUBSET DictFiles]
    BY <1>1, <1>2 DEF DictTyped
  <2> QED
    BY <1>1, <2>1, <2>2 DEF DictTyped
<1>5. /\ disk'[Placed(f)] = "whole"
      /\ \A g \in DictFiles : disk'[Placed(g)] = disk[Placed(g)] \/ disk'[Placed(g)] = "whole"
      /\ put'[p] = put[p] \ {f}
  <2>1. disk'[Placed(f)] = "whole"
    BY <1>1, <1>2, <1>3, DictFacts DEF DictTyped
  <2>2. ASSUME NEW g \in DictFiles, Placed(g) # Placed(f)
        PROVE  disk'[Placed(g)] = disk[Placed(g)]
    BY <1>1, <1>2, <1>3, <2>2, DictFacts DEF DictTyped
  <2>3. put'[p] = put[p] \ {f}
    BY <1>1, <1>2 DEF DictTyped
  <2> QED
    BY <2>1, <2>2, <2>3
<1>6. NoPartial'
  BY <1>5 DEF DictInv, NoPartial
<1>7. Stamps'
  BY <1>1 DEF DictInv, Stamps
<1>8. ASSUME ~torn'
      PROVE  ~torn /\ Changing \subseteq {p} /\ SoFar(p)' /\ AtRest'
             /\ \A q \in DictProcs \ {p} : Remembers(q)'
  <2>1. ~torn /\ Changing = {p} /\ SoFar(p) /\ \A q \in DictProcs : Remembers(q)
    BY <1>1, <1>8, OnlyChanger
  <2>2. AtRest'
    BY <1>1 DEF AtRest, Changing
  <2>3. SoFar(p)'
    <3>1. Stamps
      BY DEF DictInv
    <3>2. FilesOf(wanted[p]) \subseteq DictFiles
      BY <1>1, <3>1, DictFacts DEF Stamps
    <3>3. \A g \in FilesOf(wanted[p]) \ put[p] : disk[Placed(g)] = "whole"
      BY <1>1, <2>1 DEF SoFar
    <3>4. \A g \in FilesOf(wanted[p]) \ put'[p] : disk'[Placed(g)] = "whole"
      BY <1>5, <3>2, <3>3
    <3> QED
      BY <1>1, <2>1, <3>4 DEF SoFar
  <2> QED
    BY <1>1, <2>1, <2>2, <2>3, RemembersKept
<1> QED
  BY <1>1, <1>4, <1>6, <1>7, <1>8, ChangeInv

(* Every file is in place by now, and nobody remembers the manifest's time. *)
LEMMA WriteManifestInv ==
  ASSUME DictInv, NEW p \in DictProcs, WriteManifest(p)
  PROVE  DictInv'
<1>1. /\ dictAt[p] = "put" /\ put[p] = {} /\ Unsettle /\ DictTyped /\ p \in Changing
      /\ manifest' = wanted[p] /\ stamp' = ticks
      /\ dictAt' = [dictAt EXCEPT ![p] = "detect"]
      /\ UNCHANGED <<disk, ticks, segmenter, active, had, wanted, drop, put, torn>>
  BY DEF WriteManifest, planVars, DictInv, Changing
<1>2. /\ Stamps /\ ticks > 0 /\ ticks \in 0..DictCalls
      /\ wanted[p] \in Variants /\ wanted[p] # NoVariant
  <2>1. Stamps
    BY DEF DictInv
  <2>2. ticks > 0 /\ wanted[p] \in Variants
    BY <1>1, <2>1 DEF Stamps
  <2> QED
    BY <1>1, <2>1, <2>2, DictFacts DEF DictTyped
<1>3. /\ dictAt' \in [DictProcs -> DictPoints] /\ dictAt'[p] = "detect"
      /\ \A q \in DictProcs \ {p} : dictAt'[q] = dictAt[q] /\ settled' \subseteq DictProcs
  BY <1>1 DEF DictTyped, DictPoints, Unsettle
<1>4. settled' \subseteq DictProcs
  BY <1>1 DEF DictTyped, Unsettle
<1>5. DictTyped'
  BY <1>1, <1>2, <1>3, <1>4 DEF DictTyped
<1>6. NoPartial'
  BY <1>1 DEF DictInv, NoPartial
<1>7. Stamps'
  BY <1>1, <1>2, <1>3, DictFacts DEF Stamps
<1>8. ASSUME ~torn'
      PROVE  ~torn /\ Changing \subseteq {p} /\ SoFar(p)' /\ AtRest'
             /\ \A q \in DictProcs \ {p} : Remembers(q)'
  <2>1. ~torn /\ Changing = {p} /\ SoFar(p) /\ \A q \in DictProcs : Remembers(q)
    BY <1>1, <1>8, OnlyChanger
  <2>2. AtRest'
    <3>1. \A f \in FilesOf(wanted[p]) : disk[Placed(f)] = "whole"
      BY <1>1, <2>1 DEF SoFar
    <3>2. Present(manifest)'
      BY <1>1, <3>1 DEF Present
    <3> QED
      BY <1>1, <1>2, <3>2 DEF AtRest
  <2>3. SoFar(p)'
    BY <1>3 DEF SoFar
  <2>4. ASSUME NEW q \in DictProcs \ {p} PROVE Remembers(q)'
    <3>1. had[q] < ticks /\ had[q] \in Nat
      BY <1>1, <2>1, DictFacts DEF SoFar, DictTyped
    <3>2. had'[q] # stamp'
      BY <1>1, <1>2, <3>1, DictFacts
    <3> QED
      BY <1>1, <1>3, <2>1, <3>2 DEF Unsettle, Remembers
  <2> QED
    BY <1>1, <1>8, <2>1, <2>2, <2>3, <2>4
<1> QED
  BY <1>1, <1>3, <1>5, <1>6, <1>7, <1>8, ChangeInv

LEMMA RemoveManifestInv ==
  ASSUME DictInv, NEW p \in DictProcs, RemoveManifest(p)
  PROVE  DictInv'
<1>1. /\ dictAt[p] \in {"idle", "unloaded"} /\ ticks < DictCalls /\ ticks' = ticks + 1
      /\ torn' = (torn \/ Changing # {}) /\ manifest' = NoVariant /\ stamp' = 0
      /\ dictAt' = [dictAt EXCEPT ![p] = "unlink"] /\ drop' = [drop EXCEPT ![p] = DictFiles]
      /\ Unsettle /\ DictTyped /\ UNCHANGED <<disk, segmenter, active, had, wanted, put>>
  BY DEF RemoveManifest, DictInv
<1>2. /\ dictAt' \in [DictProcs -> DictPoints] /\ dictAt'[p] = "unlink"
      /\ \A q \in DictProcs \ {p} : dictAt'[q] = dictAt[q]
      /\ drop' \in [DictProcs -> SUBSET DictFiles] /\ drop'[p] = DictFiles
      /\ settled' \subseteq DictProcs
  BY <1>1 DEF DictTyped, DictPoints, Unsettle
<1>3. ticks \in Nat /\ ticks' \in 0..DictCalls /\ torn' \in BOOLEAN /\ 0 \in 0..DictCalls
      /\ \A q \in DictProcs : had[q] \in Nat
  BY <1>1, DictFacts DEF DictTyped
<1>4. DictTyped'
  BY <1>1, <1>2, <1>3 DEF DictTyped
<1>5. NoPartial'
  BY <1>1 DEF DictInv, NoPartial
<1>6. Stamps'
  BY <1>1, <1>2, <1>3 DEF DictInv, Stamps
<1>7. ASSUME ~torn'
      PROVE  ~torn /\ Changing \subseteq {p} /\ SoFar(p)' /\ AtRest'
             /\ \A q \in DictProcs \ {p} : Remembers(q)'
  <2>1. ~torn /\ Changing = {} /\ Undamaged
    BY <1>1, <1>7 DEF DictInv
  <2>2. AtRest'
    BY <1>2 DEF AtRest, Changing
  <2>3. SoFar(p)'
    BY <1>1, <1>2 DEF SoFar
  <2>4. ASSUME NEW q \in DictProcs \ {p} PROVE Remembers(q)'
    BY <1>1, <1>2, <2>1 DEF Unsettle, Undamaged, Remembers
  <2> QED
    BY <2>1, <2>2, <2>3, <2>4
<1> QED
  BY <1>1, <1>2, <1>4, <1>5, <1>6, <1>7, ChangeInv

LEMMA RemoveFileInv ==
  ASSUME DictInv, NEW p \in DictProcs, RemoveFile(p)
  PROVE  DictInv'
<1>1. /\ dictAt[p] = "unlink" /\ Unsettle /\ DictTyped /\ p \in Changing
      /\ UNCHANGED <<manifest, stamp, ticks, segmenter, active, had, wanted, put, torn>>
  BY DEF RemoveFile, DictInv, Changing
<1>2. PICK f \in drop[p] :
        /\ disk' = [disk EXCEPT ![Placed(f)] = "absent"]
        /\ drop' = [drop EXCEPT ![p] = drop[p] \ {f}]
        /\ dictAt' = [dictAt EXCEPT ![p] = IF drop[p] = {f} THEN "detect" ELSE dictAt[p]]
  BY DEF RemoveFile
<1>3. f \in DictFiles
  BY <1>1, <1>2 DEF DictTyped
<1>4. /\ dictAt' \in [DictProcs -> DictPoints] /\ \A q \in DictProcs \ {p} : dictAt'[q] = dictAt[q]
      /\ dictAt'[p] = IF drop[p] = {f} THEN "detect" ELSE "unlink"
  BY <1>1, <1>2 DEF DictTyped, DictPoints
<1>5. /\ disk' \in [DictPaths -> {"absent", "partial", "whole"}] /\ disk'[Placed(f)] = "absent"
      /\ \A g \in DictFiles : disk'[Placed(g)] = disk[Placed(g)] \/ disk'[Placed(g)] = "absent"
      /\ drop' \in [DictProcs -> SUBSET DictFiles] /\ drop'[p] = drop[p] \ {f}
      /\ settled' \subseteq DictProcs
  BY <1>1, <1>2, <1>3, DictFacts DEF DictTyped, Unsettle
<1>6. DictTyped'
  BY <1>1, <1>4, <1>5 DEF DictTyped
<1>7. NoPartial'
  BY <1>5 DEF DictInv, NoPartial
<1>8. Stamps'
  BY <1>1, <1>4 DEF DictInv, Stamps
<1>9. ASSUME ~torn'
      PROVE  ~torn /\ Changing \subseteq {p} /\ SoFar(p)' /\ AtRest'
             /\ \A q \in DictProcs \ {p} : Remembers(q)'
  <2>1. ~torn /\ Changing = {p} /\ SoFar(p) /\ \A q \in DictProcs : Remembers(q)
    BY <1>1, <1>9, OnlyChanger
  <2>2. /\ manifest' = NoVariant
        /\ \A g \in DictFiles \ drop'[p] : disk'[Placed(g)] = "absent"
    BY <1>1, <1>5, <2>1 DEF SoFar
  <2>3. AtRest'
    <3>1. CASE drop[p] = {f}
      BY <1>5, <2>2, <3>1 DEF AtRest
    <3>2. CASE drop[p] # {f}
      BY <1>4, <3>2 DEF AtRest, Changing
    <3> QED
      BY <3>1, <3>2
  <2>4. SoFar(p)'
    BY <1>4, <2>2 DEF SoFar
  <2> QED
    BY <1>1, <1>4, <1>9, <2>1, <2>3, <2>4, RemembersKept
<1> QED
  BY <1>1, <1>4, <1>6, <1>7, <1>8, <1>9, ChangeInv

LEMMA DetectInv ==
  ASSUME DictInv, NEW p \in DictProcs, Detect(p)
  PROVE  DictInv'
<1>1. /\ dictAt[p] = "detect" /\ DictTyped
      /\ wanted' = [wanted EXCEPT ![p] = Detected] /\ dictAt' = [dictAt EXCEPT ![p] = "load"]
      /\ settled' = IF Changing = {} THEN settled \cup {p} ELSE settled \ {p}
      /\ UNCHANGED <<disk, manifest, stamp, ticks, segmenter, active, had, drop, put, torn>>
  BY DEF Detect, dirVars, DictInv
<1>2. Detected \in Variants \cup {NoVariant}
  BY <1>1, DetectedFacts DEF DictTyped
<1>3. /\ dictAt' \in [DictProcs -> DictPoints] /\ dictAt'[p] = "load"
      /\ wanted' \in [DictProcs -> Variants \cup {NoVariant}] /\ wanted'[p] = Detected
      /\ \A q \in DictProcs \ {p} : dictAt'[q] = dictAt[q] /\ wanted'[q] = wanted[q]
      /\ settled' \subseteq DictProcs
  BY <1>1, <1>2 DEF DictTyped, DictPoints
<1>4. DictTyped'
  BY <1>1, <1>3 DEF DictTyped
<1>5. segmenter'[p] # "broken"
  BY <1>1 DEF DictInv, NeverBroken
<1>6. Remembers(p)'
  BY <1>3 DEF Remembers
<1> QED
  BY <1>1, <1>3, <1>4, <1>5, <1>6, StillInv

LEMMA LoadFilesInv ==
  ASSUME DictInv, NEW p \in DictProcs, LoadFiles(p)
  PROVE  DictInv'
<1> DEFINE v == wanted[p]
           ok == v # NoVariant /\ Present(v)
           files == {disk[Placed(f)] : f \in FilesOf(v)}
<1>1. /\ dictAt[p] = "load" /\ DictTyped
      /\ active' = [active EXCEPT ![p] = IF ok THEN v ELSE NoVariant]
      /\ segmenter' = [segmenter EXCEPT ![p] = IF ~ok THEN "none"
                         ELSE IF "partial" \in files THEN "broken" ELSE "whole"]
      /\ dictAt' = [dictAt EXCEPT ![p] = "stat"]
      /\ UNCHANGED <<disk, manifest, stamp, ticks, had, wanted, drop, put, settled, torn>>
  BY DEF LoadFiles, dirVars, planVars, DictInv
<1>2. v \in Variants \cup {NoVariant}
  BY <1>1 DEF DictTyped
<1>3. ok => "partial" \notin files
  BY <1>2, DictFacts DEF DictInv, NoPartial
<1> HIDE DEF ok, files
<1>4. /\ dictAt' \in [DictProcs -> DictPoints] /\ dictAt'[p] = "stat"
      /\ active' \in [DictProcs -> Variants \cup {NoVariant}]
      /\ active'[p] = IF ok THEN v ELSE NoVariant
      /\ \A q \in DictProcs \ {p} : dictAt'[q] = dictAt[q] /\ active'[q] = active[q]
  BY <1>1, <1>2 DEF DictTyped, DictPoints
<1>5. /\ segmenter' \in [DictProcs -> {"none", "whole", "broken"}] /\ segmenter'[p] # "broken"
      /\ \A q \in DictProcs \ {p} : segmenter'[q] = segmenter[q]
  BY <1>1, <1>3 DEF DictTyped
<1>6. DictTyped'
  BY <1>1, <1>4, <1>5 DEF DictTyped
<1>7. p \in settled' => Changing = {} /\ active'[p] = Detected
  <2>1. p \in settled => Changing = {} /\ v = Detected
    BY <1>1 DEF DictInv, Loading
  <2>2. Detected # NoVariant => Present(Detected)
    BY <1>1, DetectedFacts DEF DictTyped
  <2> QED
    BY <1>1, <1>4, <2>1, <2>2 DEF ok
<1>8. Remembers(p)'
  BY <1>4 DEF Remembers
<1> QED
  BY <1>1, <1>4, <1>5, <1>6, <1>7, <1>8, StillInv

(* Whoever has loaded undisturbed remembers the time of what it loaded.     *)
LEMMA StatManifestInv ==
  ASSUME DictInv, NEW p \in DictProcs, StatManifest(p)
  PROVE  DictInv'
<1>1. /\ dictAt[p] = "stat" /\ DictTyped
      /\ had' = [had EXCEPT ![p] = stamp] /\ dictAt' = [dictAt EXCEPT ![p] = "idle"]
      /\ wanted' = [wanted EXCEPT ![p] = NoVariant]
      /\ UNCHANGED <<disk, manifest, stamp, ticks, segmenter, active, drop, put, settled, torn>>
  BY DEF StatManifest, dirVars, DictInv
<1>2. /\ dictAt' \in [DictProcs -> DictPoints] /\ dictAt'[p] = "idle"
      /\ wanted' \in [DictProcs -> Variants \cup {NoVariant}]
      /\ had' \in [DictProcs -> 0..DictCalls] /\ had'[p] = stamp
      /\ \A q \in DictProcs \ {p} :
           dictAt'[q] = dictAt[q] /\ wanted'[q] = wanted[q] /\ had'[q] = had[q]
  BY <1>1 DEF DictTyped, DictPoints
<1>3. DictTyped'
  BY <1>1, <1>2 DEF DictTyped
<1>4. segmenter'[p] # "broken"
  BY <1>1 DEF DictInv, NeverBroken
<1>5. ASSUME ~torn
      PROVE  Remembers(p)'
  <2> SUFFICES ASSUME p \in settled, active[p] # NoVariant
               PROVE  stamp # 0 /\ active[p] = manifest
    BY <1>1, <1>2 DEF Remembers
  <2>1. Changing = {} /\ active[p] = Detected
    BY <1>1 DEF DictInv, Loading
  <2>2. AtRest
    BY <1>5 DEF DictInv, Undamaged
  <2>3. active[p] = manifest
    BY <1>1, <2>1, <2>2, DetectedFacts DEF AtRest, DictTyped
  <2> QED
    BY <2>3 DEF DictInv, Stamps
<1> QED
  BY <1>1, <1>2, <1>3, <1>4, <1>5, StillInv

LEMMA ProbeInv ==
  ASSUME DictInv, NEW p \in DictProcs, Probe(p)
  PROVE  DictInv'
<1>1. /\ dictAt[p] \in {"idle", "unloaded"} /\ DictTyped
      /\ dictAt' = [dictAt EXCEPT ![p] =
           IF dictAt[p] = "unloaded" \/ HasChanged(p) THEN "detect" ELSE "idle"]
      /\ UNCHANGED <<disk, manifest, stamp, ticks, segmenter, active, had, wanted, drop, put,
                     settled, torn>>
  BY DEF Probe, dirVars, planVars, DictInv
<1> DEFINE changed == HasChanged(p)
<1> HIDE DEF changed
<1>2. dictAt'[p] = "detect" \/ (dictAt'[p] = "idle" /\ dictAt[p] = "idle")
  BY <1>1 DEF DictTyped, changed
<1>3. /\ dictAt' \in [DictProcs -> DictPoints]
      /\ \A q \in DictProcs \ {p} : dictAt'[q] = dictAt[q]
  BY <1>1 DEF DictTyped, DictPoints
<1>4. DictTyped'
  BY <1>1, <1>3 DEF DictTyped
<1>5. segmenter'[p] # "broken"
  BY <1>1 DEF DictInv, NeverBroken
<1>6. ~torn => Remembers(p)'
  BY <1>1, <1>2 DEF DictInv, Undamaged, Remembers
<1> QED
  BY <1>1, <1>2, <1>3, <1>4, <1>5, <1>6, StillInv

(* The temporary files of the killed process are gone with it.              *)
LEMMA KillDictInv ==
  ASSUME DictInv, NEW p \in DictProcs, KillDict(p)
  PROVE  DictInv'
<1>1. /\ dictAt' = [dictAt EXCEPT ![p] = "unloaded"] /\ DictTyped
      /\ segmenter' = [segmenter EXCEPT ![p] = "none"]
      /\ active' = [active EXCEPT ![p] = NoVariant] /\ had' = [had EXCEPT ![p] = 0]
      /\ wanted' = [wanted EXCEPT ![p] = NoVariant]
      /\ drop' = [drop EXCEPT ![p] = {}] /\ put' = [put EXCEPT ![p] = {}]
      /\ settled' = settled \ {p} /\ torn' = (torn \/ p \in Changing)
      /\ UNCHANGED <<manifest, stamp, ticks>>
      /\ disk' = [path \in DOMAIN disk |-> IF path[1] = p THEN "absent" ELSE disk[path]]
  BY DEF KillDict, DictInv
<1>2. /\ dictAt' \in [DictProcs -> DictPoints] /\ dictAt'[p] = "unloaded"
      /\ segmenter' \in [DictProcs -> {"none", "whole", "broken"}] /\ segmenter'[p] = "none"
      /\ active' \in [DictProcs -> Variants \cup {NoVariant}]
  BY <1>1 DEF DictTyped, DictPoints
<1>3. /\ had' \in [DictProcs -> 0..DictCalls] /\ had'[p] = 0
      /\ wanted' \in [DictProcs -> Variants \cup {NoVariant}]
  BY <1>1, DictFacts DEF DictTyped
<1>4. drop' \in [DictProcs -> SUBSET DictFiles] /\ put' \in [DictProcs -> SUBSET DictFiles]
  BY <1>1 DEF DictTyped
<1>5. /\ disk' \in [DictPaths -> {"absent", "partial", "whole"}]
      /\ \A f \in DictFiles : disk'[Placed(f)] = disk[Placed(f)]
  BY <1>1, DictFacts DEF DictTyped
<1>6. \A q \in DictProcs \ {p} :
        /\ dictAt'[q] = dictAt[q] /\ segmenter'[q] = segmenter[q] /\ active'[q] = active[q]
        /\ had'[q] = had[q] /\ wanted'[q] = wanted[q] /\ drop'[q] = drop[q] /\ put'[q] = put[q]
  BY <1>1 DEF DictTyped
<1>7. DictTyped'
  BY <1>1, <1>2, <1>3, <1>4, <1>5 DEF DictTyped
<1>8. NoPartial' /\ NeverBroken'
  BY <1>2, <1>5, <1>6 DEF DictInv, NoPartial, NeverBroken
<1>9. Stamps'
  BY <1>1, <1>2, <1>3, <1>6, DictFacts DEF DictInv, Stamps, DictTyped
<1>10. Detected' = Detected /\ \A v \in Variants : Present(v)' = Present(v)
  <2>1. \A v \in Variants : Present(v)' = Present(v)
    BY <1>5, DictFacts DEF Present
  <2> DEFINE found == {i \in 1..3 : Present(DictOrder[i])}
             first(S) == DictOrder[CHOOSE i \in S : \A j \in S : i <= j]
  <2>2. Detected = IF manifest # NoVariant /\ Present(manifest) THEN manifest
                   ELSE IF found = {} THEN NoVariant ELSE first(found)
    BY DEF Detected
  <2>3. Detected' = IF manifest # NoVariant /\ Present(manifest)' THEN manifest
                    ELSE IF found' = {} THEN NoVariant ELSE first(found')
    BY <1>1 DEF Detected
  <2>4. found' = found
    <3>1. \A i \in 1..3 : DictOrder[i] \in Variants
      BY DEF DictOrder, Variants
    <3> QED
      BY <2>1, <3>1
  <2>5. manifest # NoVariant => Present(manifest)' = Present(manifest)
    BY <1>1, <2>1 DEF DictTyped
  <2> HIDE DEF found, first
  <2> QED
    BY <2>1, <2>2, <2>3, <2>4, <2>5
<1>11. Changing' = Changing \ {p}
  BY <1>2, <1>6 DEF Changing
<1>12. Loading'
  BY <1>1, <1>6, <1>10, <1>11 DEF DictInv, Loading, DictTyped
<1>13. ASSUME ~torn'
       PROVE  Undamaged'
  <2>1. ~torn /\ p \notin Changing /\ Changing' = Changing /\ Undamaged
    BY <1>1, <1>11, <1>13 DEF DictInv
  <2>2. OneChanger'
    BY <2>1 DEF Undamaged, OneChanger
  <2>3. AtRest'
    <3>1. manifest # NoVariant => Present(manifest)' = Present(manifest)
      BY <1>1, <1>10 DEF DictTyped
    <3> QED
      BY <1>1, <1>5, <2>1, <3>1 DEF Undamaged, AtRest, Present
  <2>4. ASSUME NEW q \in DictProcs PROVE SoFar(q)'
    <3>1. CASE q = p
      BY <1>2, <3>1 DEF SoFar
    <3>2. CASE q # p
      <4>1. SoFar(q)
        BY <2>1 DEF Undamaged
      <4>2. dictAt[q] \in {"drop", "put"} => stamp' < ticks' /\ \A r \in DictProcs : had'[r] < ticks'
        BY <1>1, <1>3, <1>6, <4>1, DictFacts DEF SoFar, DictInv, Stamps, DictTyped
      <4>3. dictAt[q] = "put" => FilesOf(wanted[q]) \subseteq DictFiles
        BY DictFacts DEF DictInv, Stamps
      <4>4. UNCHANGED <<dictAt[q], wanted[q], drop[q], put[q], manifest>>
        BY <1>1, <1>6, <3>2
      <4>5. dictAt[q] = "put" =>
              \A f \in FilesOf(wanted[q]) \ put[q] : disk'[Placed(f)] = "whole"
        BY <1>5, <4>1, <4>3 DEF SoFar
      <4>6. dictAt[q] = "unlink" => \A f \in DictFiles \ drop[q] : disk'[Placed(f)] = "absent"
        BY <1>5, <4>1 DEF SoFar
      <4> QED
        BY <4>1, <4>2, <4>4, <4>5, <4>6 DEF SoFar
    <3> QED
      BY <3>1, <3>2
  <2>5. ASSUME NEW q \in DictProcs PROVE Remembers(q)'
    BY <1>1, <1>2, <1>6, <2>1 DEF Undamaged, Remembers
  <2> QED
    BY <2>2, <2>3, <2>4, <2>5 DEF Undamaged
<1> QED
  BY <1>7, <1>8, <1>9, <1>12, <1>13 DEF DictInv

LEMMA InitDict == DictInit => DictInv
<1> SUFFICES ASSUME DictInit PROVE DictInv
  OBVIOUS
<1>1. disk \in [DictPaths -> {"absent", "partial", "whole"}]
      /\ \A f \in DictFiles : disk[Placed(f)] = "absent"
  BY DictFacts DEF DictInit, DictPaths
<1>2. DictTyped
  <2>1. 0 \in 0..DictCalls
    BY DictFacts
  <2>2. segmenter \in [DictProcs -> {"none", "whole", "broken"}]
        /\ dictAt \in [DictProcs -> DictPoints] /\ had \in [DictProcs -> 0..DictCalls]
    BY <2>1 DEF DictInit, DictPoints
  <2>3. active \in [DictProcs -> Variants \cup {NoVariant}]
        /\ wanted \in [DictProcs -> Variants \cup {NoVariant}]
    BY DEF DictInit
  <2>4. drop \in [DictProcs -> SUBSET DictFiles] /\ put \in [DictProcs -> SUBSET DictFiles]
    BY DEF DictInit
  <2> QED
    BY <1>1, <2>1, <2>2, <2>3, <2>4 DEF DictInit, DictTyped
<1> QED
  BY <1>1, <1>2, DictFacts DEF DictInit, DictInv, NoPartial, NeverBroken, Stamps, Loading, Undamaged,
     OneChanger, AtRest, SoFar, Remembers, Changing

LEMMA NextDict == DictInv /\ [DictNext]_dictVars => DictInv'
<1> SUFFICES ASSUME DictInv, [DictNext]_dictVars PROVE DictInv'
  OBVIOUS
<1>1. CASE UNCHANGED dictVars
  <2>1. UNCHANGED <<disk, manifest, stamp, ticks, segmenter, active, had, dictAt, wanted, drop, put,
                    settled, torn>>
    BY <1>1 DEF dictVars
  <2>2. Detected' = Detected /\ (\A v \in Variants : Present(v)' = Present(v)) /\ Changing' = Changing
    BY <2>1, DetectedKept DEF Changing
  <2>3. (DictTyped /\ NoPartial /\ NeverBroken /\ Stamps)'
    BY <2>1 DEF DictInv, DictTyped, NoPartial, NeverBroken, Stamps
  <2>4. Loading'
    BY <2>1, <2>2 DEF DictInv, Loading
  <2>5. ~torn => Undamaged'
    <3>1. ~torn => OneChanger' /\ \A q \in DictProcs : SoFar(q)' /\ Remembers(q)'
      BY <2>1, <2>2 DEF DictInv, Undamaged, OneChanger, SoFar, Remembers
    <3>2. ~torn => AtRest'
      BY <2>1, <2>2 DEF DictInv, Undamaged, AtRest, DictTyped
    <3> QED
      BY <3>1, <3>2 DEF Undamaged
  <2> QED
    BY <2>1, <2>3, <2>4, <2>5 DEF DictInv
<1> QED
  BY <1>1, DownloadInv, DropFileInv, WriteFileInv, RenameFileInv, WriteManifestInv,
     RemoveManifestInv, RemoveFileInv, DetectInv, LoadFilesInv, StatManifestInv, ProbeInv,
     KillDictInv DEF DictNext

(* The directory, the manifest and what the processes have of them are of   *)
(* their type.                                                              *)
THEOREM DictTypeCorrect == DictSpec => []DictTypeOK
<1>1. DictInv => DictTypeOK
  BY DEF DictInv, DictTyped, DictTypeOK
<1> QED
  BY InitDict, NextDict, <1>1, PTL DEF DictSpec

(* However downloads, removals, loads and kills of any processes interleave, *)
(* no segmenter is built from a file that is being written (atomicWrite);    *)
(* and where changes neither overlap nor are killed, one that loaded while   *)
(* nobody changed the directory either has what is installed or will see in  *)
(* its next probe that it has not (maybeReprobeLocked).                      *)
THEOREM SegmenterIsRightTheorem == DictSpec => []SegmenterIsRight
<1>1. DictInv => SegmenterIsRight
  <2> SUFFICES ASSUME DictInv, NEW p \in settled, dictAt[p] = "idle", Changing = {}, ~torn,
                      ~HasChanged(p)
               PROVE  active[p] = Detected
    BY DEF SegmenterIsRight, SwitchesAreNoticed, DictInv
  <2>1. DictTyped /\ AtRest /\ p \in DictProcs /\ Remembers(p)
    BY DEF DictInv, Undamaged, DictTyped
  <2>2. CASE active[p] = NoVariant
    BY <2>2 DEF HasChanged
  <2>3. CASE active[p] # NoVariant
    <3>1. active[p] = manifest
      BY <2>1, <2>3 DEF HasChanged, Remembers
    <3> QED
      BY <2>1, <2>3, <3>1, DetectedFacts DEF AtRest, DictTyped
  <2> QED
    BY <2>2, <2>3
<1> QED
  BY InitDict, NextDict, <1>1, PTL DEF DictSpec
-----------------------------------------------------------------------------
(***************************************************************************)
(* MCStores, the composition that is model-checked, adds nothing to its    *)
(* parts: a behaviour of it is one of each of them.  So whatever is proved *)
(* of a part, here or in StoreProofs, holds of the composition, and its    *)
(* TypesOK for any values of the constants.                                *)
(***************************************************************************)

LEMMA StoresParts ==
  MCSpec => /\ Spec
            /\ SpaceSpec
            /\ PgSpec
            /\ CfSpec
            /\ DictSpec
            /\ SecretSpec
            /\ IndexSpec
<1>1. MCInit => /\ Init
                /\ SpaceInit
                /\ PgInit
                /\ CfInit
                /\ DictInit
                /\ SecretInit
                /\ IndexInit
  BY DEF MCInit
<1>2. [MCNext]_allVars => [Next]_vars
  BY DEF MCNext, allVars
<1>3. [MCNext]_allVars => [SpaceNext]_spaceVars
  BY DEF MCNext, allVars
<1>4. [MCNext]_allVars => [PgNext]_pgVars
  BY DEF MCNext, allVars
<1>5. [MCNext]_allVars => [CfNext]_cfVars
  BY DEF MCNext, allVars
<1>6. [MCNext]_allVars => [DictNext]_dictVars
  BY DEF MCNext, allVars
<1>7. [MCNext]_allVars => [SecretNext]_secretVars
  BY DEF MCNext, allVars
<1>8. [MCNext]_allVars => [IndexNext]_indexVars
  BY DEF MCNext, allVars
<1> QED
  BY <1>1, <1>2, <1>3, <1>4, <1>5, <1>6, <1>7, <1>8, PTL
     DEF MCSpec, Spec, SpaceSpec, PgSpec, CfSpec, DictSpec, SecretSpec, IndexSpec

(* In the composition every part is typed.                                  *)
THEOREM StoresTypeCorrect == MCSpec => []TypesOK
  BY StoresParts, TypeCorrect, SpaceTypeCorrect, PgTypeCorrect, CfTypeCorrect, DictTypeCorrect,
     SecretTypeCorrect, IndexTypeCorrect, PTL DEF TypesOK
=============================================================================
