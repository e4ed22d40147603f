------------------------------ MODULE MCStores ------------------------------
(* Small instances of what an engine stands on: the SQLite store and its    *)
(* index, opening a database, the configuration, the secrets and the        *)
(* dictionary.  They share no state as they are modelled, so a behaviour is *)
(* one of one of them, `part`, and the others stay where they begin.        *)
EXTENDS SQLiteStore, EmbeddingSpace, PostgresOpen, ConfigLoad, CjkDictionary, SecretStore,
        VectorIndex

CONSTANTS small_dict, small_chars, large_dict, large_chars, small_http, large_http,
          p1, p2, t1, t2, t3

VARIABLE part

\* Two processes, of which the first serves two goroutines.
TwoHomes == (t1 :> p1) @@ (t2 :> p1) @@ (t3 :> p2)

\* The hashing provider with two dimensions and two tokenizers, hosted ones.
MCDim == [c \in Configs |-> IF c \in {small_dict, small_chars, small_http} THEN 256 ELSE 512]
MCTokenizer == [c \in Configs |-> IF c \in {small_dict, large_dict} THEN "dict-v1"
                                  ELSE IF c \in {small_chars, large_chars} THEN "chars-v1"
                                  ELSE Hosted]

Parts == {"store", "embeddings", "postgres", "config", "dictionary", "secrets", "index"}

MCInit ==
  /\ part \in Parts
  /\ Init /\ SpaceInit /\ PgInit /\ CfInit /\ DictInit /\ SecretInit /\ IndexInit
  /\ part # "config" => /\ env \cup flag = {}
                        /\ \A k \in 1..CfFiles, s \in Settings : file[k][s] = {}

MCNext ==
  /\ part' = part
  /\ \/ /\ part = "store" /\ Next
        /\ UNCHANGED <<spaceVars, pgVars, cfVars, dictVars, secretVars, indexVars>>
     \/ /\ part = "embeddings" /\ SpaceNext
        /\ UNCHANGED <<vars, pgVars, cfVars, dictVars, secretVars, indexVars>>
     \/ /\ part = "postgres" /\ PgNext
        /\ UNCHANGED <<vars, spaceVars, cfVars, dictVars, secretVars, indexVars>>
     \/ /\ part = "config" /\ CfNext
        /\ UNCHANGED <<vars, spaceVars, pgVars, dictVars, secretVars, indexVars>>
     \/ /\ part = "dictionary" /\ DictNext
        /\ UNCHANGED <<vars, spaceVars, pgVars, cfVars, secretVars, indexVars>>
     \/ /\ part = "secrets" /\ SecretNext
        /\ UNCHANGED <<vars, spaceVars, pgVars, cfVars, dictVars, indexVars>>
     \/ /\ part = "index" /\ IndexNext
        /\ UNCHANGED <<vars, spaceVars, pgVars, cfVars, dictVars, secretVars>>

allVars == <<part, vars, spaceVars, pgVars, cfVars, dictVars, secretVars, indexVars>>
MCSpec == MCInit /\ [][MCNext]_allVars

\* Every component's state is of its type.
TypesOK ==
  /\ TypeOK /\ SpaceTypeOK /\ PgTypeOK /\ CfTypeOK /\ DictTypeOK /\ SecretTypeOK /\ IndexTypeOK
=============================================================================
