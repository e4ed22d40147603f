---------------------------- MODULE EmbeddingSpace ----------------------------
(***************************************************************************)
(* engine.New over an existing database: enforceEmbeddingDim and           *)
(* enforceEmbeddingTokenizer compare what `meta` says of the stored        *)
(* vectors with the configuration, and refuse, accept, or re-embed every   *)
(* memory and then record the new answer.  The re-embedding is one write   *)
(* per memory and may fail or be killed at any of them; other engines may  *)
(* have the database open.                                                 *)
(*                                                                         *)
(* A vector is abstracted to the configuration that produced it.           *)
(***************************************************************************)
EXTENDS FiniteSets

CONSTANTS Engines,   \* processes that open the database
          Configs,   \* embedding configurations
          Dim,       \* configuration -> dimension of its vectors
          Tokenizer, \* configuration -> CJKTokenizerVersion, Hosted for providers
                     \* that tokenize on their side
          Hosted,
          EmbIds,    \* memory ids
          Resume,    \* is a re-embedding that was cut short finished by the next open?
          NoVector,  \* a row without embedding
          NoRow,     \* no row
          None       \* no configuration, no value under a meta key

ASSUME EmbeddingAssumption ==
  /\ DOMAIN Dim = Configs /\ DOMAIN Tokenizer = Configs
  /\ Resume \in BOOLEAN
  /\ NoVector \notin Configs /\ NoRow \notin Configs /\ None \notin Configs /\ NoVector # NoRow
  /\ \A c \in Configs : Dim[c] # None /\ Tokenizer[c] # None

VARIABLES
  vector,   \* id -> the configuration that made its vector, NoVector or NoRow
  metaDim,  \* meta["embedding_dim"]
  metaTok,  \* meta["embedding_tokenizer"]
  stage,    \* engine -> where New stands
  config,   \* engine -> its configuration
  allow,    \* engine -> embedding.allow_dim_change
  todo,     \* engine -> the memories reembedAll has read and not written yet
  target    \* history: the configuration of a re-embedding begun and not finished

meta == <<metaDim, metaTok>>
spaceVars == <<vector, meta, stage, config, allow, todo, target>>

Dims       == {Dim[c] : c \in Configs}
Tokenizers == {Tokenizer[c] : c \in Configs} \ {Hosted}
Stages     == {"closed", "dim", "embed_dim", "tokenizer", "embed_tokenizer", "open"}

SpaceTypeOK ==
  /\ vector \in [EmbIds -> Configs \cup {NoVector, NoRow}]
  /\ metaDim \in Dims \cup {None}
  /\ metaTok \in Tokenizers \cup {None}
  /\ stage \in [Engines -> Stages]
  /\ config \in [Engines -> Configs \cup {None}]
  /\ allow \in [Engines -> BOOLEAN]
  /\ todo \in [Engines -> SUBSET EmbIds]
  /\ target \in Configs \cup {None}
  /\ \A e \in Engines : stage[e] # "closed" => config[e] # None

SpaceInit ==
  /\ vector = [i \in EmbIds |-> NoRow]
  /\ metaDim = None /\ metaTok = None
  /\ stage = [e \in Engines |-> "closed"]
  /\ config = [e \in Engines |-> None]
  /\ allow = [e \in Engines |-> FALSE]
  /\ todo = [e \in Engines |-> {}]
  /\ target = None

-----------------------------------------------------------------------------

NewAt(e, point) == stage' = [stage EXCEPT ![e] = point]

Open(e, c, a) ==
  /\ stage[e] = "closed"
  /\ Resume /\ target # None => c = target
  /\ NewAt(e, "dim")
  /\ config' = [config EXCEPT ![e] = c]
  /\ allow' = [allow EXCEPT ![e] = a]
  /\ UNCHANGED <<vector, meta, todo, target>>

\* New returns an error, an embedder or database call fails, the process is
\* closed or killed: what is written is written.
Stop(e) ==
  /\ NewAt(e, "closed")
  /\ config' = [config EXCEPT ![e] = None]
  /\ allow' = [allow EXCEPT ![e] = FALSE]
  /\ todo' = [todo EXCEPT ![e] = {}]

Close(e) ==
  /\ stage[e] # "closed"
  /\ Stop(e)
  /\ UNCHANGED <<vector, meta, target>>

\* reembedAll reads every memory, those without an embedding too.
Reembed(e, point) ==
  /\ NewAt(e, point)
  /\ todo' = [todo EXCEPT ![e] = {i \in EmbIds : vector[i] # NoRow}]
  /\ target' = config[e]
  /\ UNCHANGED <<vector, meta, config, allow>>

\* The vectors of the engine's configuration are on record as all there is.
Recorded(e) == target' = IF target = config[e] THEN None ELSE target

-----------------------------------------------------------------------------
(* enforceEmbeddingDim.                                                    *)

FirstDim(e) ==
  /\ stage[e] = "dim" /\ metaDim = None
  /\ metaDim' = Dim[config[e]]
  /\ NewAt(e, "tokenizer")
  /\ UNCHANGED <<vector, metaTok, config, allow, todo, target>>

SameDim(e) ==
  /\ stage[e] = "dim" /\ metaDim = Dim[config[e]]
  /\ NewAt(e, "tokenizer")
  /\ UNCHANGED <<vector, meta, config, allow, todo, target>>

OtherDim(e) ==
  /\ stage[e] = "dim" /\ metaDim \notin {None, Dim[config[e]]}
  /\ IF allow[e]
       THEN Reembed(e, "embed_dim")
       ELSE Stop(e) /\ UNCHANGED <<vector, meta, target>>

\* One write of reembedAll: the whole row as it was read, with the new vector.
EmbedOne(e, i) ==
  /\ stage[e] \in {"embed_dim", "embed_tokenizer"}
  /\ i \in todo[e]
  /\ vector' = [vector EXCEPT ![i] = config[e]]
  /\ todo' = [todo EXCEPT ![e] = @ \ {i}]
  /\ UNCHANGED <<meta, stage, config, allow, target>>

RecordDim(e) ==
  /\ stage[e] = "embed_dim" /\ todo[e] = {}
  /\ metaDim' = Dim[config[e]]
  /\ NewAt(e, "tokenizer")
  /\ UNCHANGED <<vector, metaTok, config, allow, todo, target>>

-----------------------------------------------------------------------------
(* enforceEmbeddingTokenizer: for the provider that tokenizes locally.     *)

NotLocal(e) ==
  /\ stage[e] = "tokenizer" /\ Tokenizer[config[e]] = Hosted
  /\ NewAt(e, "open")
  /\ Recorded(e)
  /\ UNCHANGED <<vector, meta, config, allow, todo>>

FirstTokenizer(e) ==
  /\ stage[e] = "tokenizer" /\ Tokenizer[config[e]] # Hosted /\ metaTok = None
  /\ metaTok' = Tokenizer[config[e]]
  /\ NewAt(e, "open")
  /\ Recorded(e)
  /\ UNCHANGED <<vector, metaDim, config, allow, todo>>

SameTokenizer(e) ==
  /\ stage[e] = "tokenizer" /\ metaTok = Tokenizer[config[e]]
  /\ NewAt(e, "open")
  /\ Recorded(e)
  /\ UNCHANGED <<vector, meta, config, allow, todo>>

OtherTokenizer(e) ==
  /\ stage[e] = "tokenizer" /\ Tokenizer[config[e]] # Hosted
  /\ metaTok \notin {None, Tokenizer[config[e]]}
  /\ IF allow[e]
       THEN Reembed(e, "embed_tokenizer")
       ELSE Stop(e) /\ UNCHANGED <<vector, meta, target>>

MutRecordTokenizer(e) ==
  /\ stage[e] = "embed_tokenizer"
  /\ metaTok' = Tokenizer[config[e]]
  /\ todo' = [todo EXCEPT ![e] = {}]
  /\ NewAt(e, "open")
  /\ Recorded(e)
  /\ UNCHANGED <<vector, metaDim, config, allow>>

RecordTokenizer(e) ==
  /\ stage[e] = "embed_tokenizer" /\ todo[e] = {}
  /\ metaTok' = Tokenizer[config[e]]
  /\ NewAt(e, "open")
  /\ Recorded(e)
  /\ UNCHANGED <<vector, metaDim, config, allow, todo>>

-----------------------------------------------------------------------------
(* An engine that is open writes, retires and deletes memories.            *)

Write(e, i, v) ==
  /\ stage[e] = "open"
  /\ v \in {config[e], NoRow} \/ (v = NoVector /\ vector[i] # NoRow)
  /\ vector' = [vector EXCEPT ![i] = v]
  /\ UNCHANGED <<meta, stage, config, allow, todo, target>>

Step(e) ==
  \/ FirstDim(e) \/ SameDim(e) \/ OtherDim(e) \/ RecordDim(e)
  \/ \E i \in EmbIds : EmbedOne(e, i)
  \/ NotLocal(e) \/ FirstTokenizer(e) \/ SameTokenizer(e) \/ OtherTokenizer(e)
  \/ RecordTokenizer(e)

SpaceNext ==
  \E e \in Engines :
    \/ \E c \in Configs, a \in BOOLEAN : Open(e, c, a)
    \/ Step(e)
    \/ \E i \in EmbIds, v \in Configs \cup {NoVector, NoRow} : Write(e, i, v)
    \/ Close(e)

SpaceSpec == SpaceInit /\ [][SpaceNext]_spaceVars

-----------------------------------------------------------------------------

(* An engine that is open can compare its vectors with every stored one     *)
(* whose shape it can read at all: none has another dimension, which the    *)
(* warm would skip without a word.                                          *)
OneDim ==
  \A e \in Engines, i \in EmbIds :
    stage[e] = "open" /\ vector[i] \in Configs => Dim[vector[i]] = Dim[config[e]]

(* An engine with a local tokenizer "refuses to reopen a database whose     *)
(* vectors came from a different one": once open it finds no vector made by *)
(* another local tokenizer, which would "degrade recall silently", whatever *)
(* hosted providers wrote and wherever a re-embedding was cut short, as     *)
(* long as the next open finishes it.                                       *)
OneTokenizer ==
  \A e \in Engines, i \in EmbIds :
    stage[e] = "open" /\ vector[i] \in Configs =>
      Hosted \in {Tokenizer[config[e]], Tokenizer[vector[i]]} \/ Tokenizer[vector[i]] = Tokenizer[config[e]]

(* Both: whatever is stored and can be read at all, an open engine can      *)
(* compare its own vectors with.                                            *)
OneSpace == OneDim /\ OneTokenizer

(* What `meta` says of the vectors is recorded last: when the dimension is, *)
(* and when a tokenizer replaces another one, every vector that is stored   *)
(* is of it, wherever earlier re-embeddings were cut short and whatever     *)
(* configuration opened the database next.                                  *)
MetaComesLast ==
  [][LET stored == {vector[i] : i \in EmbIds} \cap Configs IN
       /\ metaDim' # metaDim => \A c \in stored : Dim[c] = metaDim'
       /\ metaTok' # metaTok /\ metaTok # None => \A c \in stored : Tokenizer[c] = metaTok'
    ]_spaceVars
=============================================================================
