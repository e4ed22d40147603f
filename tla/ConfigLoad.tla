------------------------------- MODULE ConfigLoad -------------------------------
(***************************************************************************)
(* config.Load: the files in their order of precedence are decoded, each   *)
(* is stripped, renamed and normalised, they are merged, and the merged    *)
(* table, the environment and the command line are applied to the defaults *)
(* in turn.  A setting can be spelled flat (embedding_model) or nested     *)
(* ([embedding] model), and a Go map is applied in no particular order.    *)
(*                                                                         *)
(* There is a setting of each kind: a "text" that is copied as it is, and  *)
(* a "number" of [llm] that is validated per source.  The value of a       *)
(* setting is the rank of the source it comes from.                        *)
(***************************************************************************)
EXTENDS Naturals, FiniteSets

CONSTANTS CfFiles   \* how many files there are: ranks 1..CfFiles

ASSUME CfAssumption == CfFiles \in Nat

CfEnvRank  == CfFiles + 1
CfFlagRank == CfFiles + 2
Spellings  == {"flat", "nested"}
Settings   == {"text", "number"}

VARIABLES
  file,      \* rank -> setting -> the spellings it uses
  badNumber, \* the files whose number is not one
  env,       \* the settings the environment has
  flag,      \* the settings the command line has
  merged,    \* setting -> spelling -> the rank of its value, 0 for none
  value,     \* setting -> the rank of the source its value is from, 0 the default
  applied,   \* the spellings of settings that applyToml has passed
  cfAt,      \* where Load stands
  layer      \* the file that is merged next

cfSources == <<file, badNumber, env, flag>>
cfVars == <<cfSources, merged, value, applied, cfAt, layer>>

Keys == Settings \X Spellings

CfInit ==
  /\ file \in [1..CfFiles -> [Settings -> SUBSET Spellings]]
  /\ badNumber \in SUBSET {k \in 1..CfFiles : file[k]["number"] # {}}
  /\ env \in SUBSET Settings
  /\ flag \in SUBSET Settings
  /\ merged = [s \in Settings |-> [p \in Spellings |-> 0]]
  /\ value = [s \in Settings |-> 0]
  /\ applied = {} /\ cfAt = "merge" /\ layer = 1

-----------------------------------------------------------------------------

\* normalizeLLMNumericSource: a source may not spell a number twice, a number
\* has to be one, and it is flat from here on.
Valid(table, bad) == Cardinality(table["number"]) <= 1 /\ ~bad

MutNormalized(table) == table

Normalized(table) == [table EXCEPT !["number"] = IF @ = {} THEN {} ELSE {"flat"}]

MergeFile ==
  /\ cfAt = "merge" /\ layer <= CfFiles
  /\ Valid(file[layer], layer \in badNumber)
  /\ merged' = [s \in Settings |->
                 [p \in Spellings |-> IF p \in Normalized(file[layer])[s] THEN layer ELSE merged[s][p]]]
  /\ layer' = layer + 1
  /\ UNCHANGED <<cfSources, value, applied, cfAt>>

\* An error of one file fails the whole.
RejectFile ==
  /\ cfAt = "merge" /\ layer <= CfFiles
  /\ ~Valid(file[layer], layer \in badNumber)
  /\ cfAt' = "failed"
  /\ UNCHANGED <<cfSources, merged, value, applied, layer>>

Merged ==
  /\ cfAt = "merge" /\ layer > CfFiles
  /\ cfAt' = "files"
  /\ UNCHANGED <<cfSources, merged, value, applied, layer>>

\* applyToml: `range` over a map.
ApplyKey(s, p) ==
  /\ cfAt = "files" /\ <<s, p>> \notin applied /\ merged[s][p] # 0
  /\ value' = [value EXCEPT ![s] = merged[s][p]]
  /\ applied' = applied \cup {<<s, p>>}
  /\ UNCHANGED <<cfSources, merged, cfAt, layer>>

ApplyEnv ==
  /\ cfAt = "files" /\ \A k \in Keys \ applied : merged[k[1]][k[2]] = 0
  /\ value' = [s \in Settings |-> IF s \in env THEN CfEnvRank ELSE value[s]]
  /\ cfAt' = "flags"
  /\ UNCHANGED <<cfSources, merged, applied, layer>>

\* applyDict: the commands spell a setting one way.
ApplyFlags ==
  /\ cfAt = "flags"
  /\ value' = [s \in Settings |-> IF s \in flag THEN CfFlagRank ELSE value[s]]
  /\ cfAt' = "loaded"
  /\ UNCHANGED <<cfSources, merged, applied, layer>>

\* The next command starts with the same files.
Unload ==
  /\ cfAt \in {"loaded", "failed"}
  /\ merged' = [s \in Settings |-> [p \in Spellings |-> 0]]
  /\ value' = [s \in Settings |-> 0]
  /\ applied' = {} /\ cfAt' = "merge" /\ layer' = 1
  /\ UNCHANGED cfSources

CfNext ==
  \/ MergeFile \/ RejectFile \/ Merged \/ ApplyEnv \/ ApplyFlags \/ Unload
  \/ \E s \in Settings, p \in Spellings : ApplyKey(s, p)

CfSpec == CfInit /\ [][CfNext]_cfVars

-----------------------------------------------------------------------------

CfTypeOK ==
  /\ cfAt \in {"merge", "files", "flags", "loaded", "failed"}
  /\ value \in [Settings -> 0..CfFlagRank] /\ applied \subseteq Keys
  /\ merged \in [Settings -> [Spellings -> 0..CfFiles]]

\* The ranks of the sources that define a setting, and 0.
DefinedBy(s) ==
  {0} \cup {k \in 1..CfFiles : file[k][s] # {}}
      \cup (IF s \in env THEN {CfEnvRank} ELSE {})
      \cup (IF s \in flag THEN {CfFlagRank} ELSE {})

HighestSource(s) == CHOOSE k \in DefinedBy(s) : \A l \in DefinedBy(s) : l <= k

(* The numeric LLM settings come from the highest source that has them,     *)
(* however the sources spell them and in whatever order a map is applied.   *)
NumbersFollowPrecedence ==
  cfAt = "loaded" => value["number"] = HighestSource("number")

(* What the README says of every setting: the project's file goes before    *)
(* the global one, whatever their spelling.                                 *)
SettingsFollowPrecedence ==
  cfAt = "loaded" => value["text"] = HighestSource("text")
=============================================================================
