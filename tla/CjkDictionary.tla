----------------------------- MODULE CjkDictionary -----------------------------
(***************************************************************************)
(* The tokenizer's dictionary (storage/cjk_dict.go) in a directory that    *)
(* several processes share.  A download fetches and verifies every file of *)
(* a variant, removes the files of the variant it replaces, puts the new   *)
(* ones into place by rename, the manifest last, and loads; a removal      *)
(* takes the manifest away first.  Everyone looks at the manifest from     *)
(* time to time and loads again if it has changed.  There is no embedded   *)
(* dictionary (the default build), and a process may be killed anywhere.   *)
(***************************************************************************)
EXTENDS Naturals, FiniteSets, Sequences, TLC

CONSTANTS DictProcs,   \* processes
          DictCalls,   \* bound: downloads and removals
          NoVariant    \* no variant: nothing installed, nothing loaded

\* Some variants have a file each, one has them both (zh is s_1 and t_1).
Variants == {"zh", "zh_s", "zh_t"}
FilesOf(v) == CASE v = "zh" -> {"s", "t"} [] v = "zh_s" -> {"s"} [] v = "zh_t" -> {"t"}
DictOrder == <<"zh", "zh_s", "zh_t">>
DictFiles == {"s", "t"}

ASSUME DictAssumption == DictCalls \in Nat /\ NoVariant \notin Variants /\ "dict" \notin DictProcs

Placed(f) == <<"dict", f>>
\* os.CreateTemp: the file is written under a name of its own and renamed.
Temp(p, f) == <<p, f>>

VARIABLES
  disk,      \* path -> "absent", "partial" or "whole"
  manifest,  \* the variant the manifest names, NoVariant without one
  stamp,     \* the manifest's modification time, 0 without one
  ticks,     \* downloads and removals so far: the clock of stamp
  segmenter, \* process -> "none", "whole", or "broken" for one read off a partial file
  active,    \* process -> cjkVariant
  had,       \* process -> the stamp it remembers, 0 for no manifest
  dictAt,    \* process -> where it stands
  wanted,    \* process -> the variant it downloads, detects or loads
  drop,      \* process -> the files it has still to remove
  put,       \* process -> the files it has still to put into place
  settled,   \* history: processes that loaded while nobody changed the directory
  torn       \* history: a download or a removal was killed or overlapped another

dictVars == <<disk, manifest, stamp, ticks, segmenter, active, had, dictAt,
              wanted, drop, put, settled, torn>>
dirVars == <<disk, manifest, stamp>>
planVars == <<wanted, drop, put>>

DictInit ==
  /\ disk = [path \in {Placed(f) : f \in DictFiles} \cup (DictProcs \X DictFiles) |-> "absent"]
  /\ manifest = NoVariant /\ stamp = 0 /\ ticks = 0 /\ torn = FALSE
  /\ segmenter = [p \in DictProcs |-> "none"]
  /\ active = [p \in DictProcs |-> NoVariant]
  /\ had = [p \in DictProcs |-> 0]
  /\ dictAt = [p \in DictProcs |-> "unloaded"]
  /\ wanted = [p \in DictProcs |-> NoVariant]
  /\ drop = [p \in DictProcs |-> {}] /\ put = [p \in DictProcs |-> {}]
  /\ settled = {}

Changing == {p \in DictProcs : dictAt[p] \in {"drop", "put", "rename", "unlink"}}
Present(v) == \A f \in FilesOf(v) : disk[Placed(f)] # "absent"

\* detectInstalledVariant: the manifest's variant when its files are there,
\* else the first in the canonical order whose files are.
Detected ==
  IF manifest # NoVariant /\ Present(manifest) THEN manifest
  ELSE LET found == {i \in 1..3 : Present(DictOrder[i])}
       IN IF found = {} THEN NoVariant
          ELSE DictOrder[CHOOSE i \in found : \A j \in found : i <= j]

\* Whoever changes the directory unsettles those that are loading from it.
Unsettle == settled' = {q \in settled : dictAt[q] \in {"idle", "unloaded"}}

\* DownloadCJKDictTo: everything is fetched and verified (a failure ends here,
\* before the directory is touched), then the installed variant is looked up.
Download(p, v) ==
  /\ dictAt[p] \in {"idle", "unloaded"} /\ ticks < DictCalls
  /\ ticks' = ticks + 1
  /\ torn' = (torn \/ Changing # {})
  /\ dictAt' = [dictAt EXCEPT ![p] = "drop"]
  /\ wanted' = [wanted EXCEPT ![p] = v]
  /\ drop' = [drop EXCEPT ![p] = IF Detected \in {NoVariant, v} THEN {}
                                 ELSE FilesOf(Detected) \ FilesOf(v)]
  /\ put' = [put EXCEPT ![p] = FilesOf(v)]
  /\ Unsettle
  /\ UNCHANGED <<dirVars, segmenter, active, had>>

\* The files of the previous variant that the new one does not use.
DropFile(p) ==
  /\ dictAt[p] = "drop"
  /\ IF drop[p] = {} THEN /\ dictAt' = [dictAt EXCEPT ![p] = "put"]
                          /\ UNCHANGED <<disk, drop>>
     ELSE \E f \in drop[p] : /\ disk' = [disk EXCEPT ![Placed(f)] = "absent"]
                             /\ drop' = [drop EXCEPT ![p] = @ \ {f}]
                             /\ UNCHANGED dictAt
  /\ Unsettle
  /\ UNCHANGED <<manifest, stamp, ticks, segmenter, active, had, wanted, put, torn>>

\* atomicWrite, first half: the temporary file grows ...
WriteFile(p) ==
  /\ dictAt[p] = "put" /\ put[p] # {}
  /\ \E f \in put[p] :
       disk' = [disk EXCEPT ![Temp(p, f)] = IF @ = "partial" THEN "whole" ELSE "partial"]
  /\ \A f \in put[p] : disk[Temp(p, f)] # "whole"
  /\ Unsettle
  /\ UNCHANGED <<manifest, stamp, ticks, segmenter, active, had, dictAt, planVars, torn>>

\* ... and is renamed when it is complete.
RenameFile(p) ==
  /\ dictAt[p] = "put"
  /\ \E f \in put[p] :
       /\ disk[Temp(p, f)] = "whole"
       /\ disk' = [[disk EXCEPT ![Temp(p, f)] = "absent"] EXCEPT ![Placed(f)] = "whole"]
       /\ put' = [put EXCEPT ![p] = @ \ {f}]
  /\ Unsettle
  /\ UNCHANGED <<manifest, stamp, ticks, segmenter, active, had, dictAt, wanted, drop, torn>>

\* The manifest goes last; then the process loads.
WriteManifest(p) ==
  /\ dictAt[p] = "put" /\ put[p] = {}
  /\ manifest' = wanted[p] /\ stamp' = ticks
  /\ dictAt' = [dictAt EXCEPT ![p] = "detect"]
  /\ Unsettle
  /\ UNCHANGED <<disk, ticks, segmenter, active, had, planVars, torn>>

\* RemoveCJKDict: the manifest first, then every file of every variant.
RemoveManifest(p) ==
  /\ dictAt[p] \in {"idle", "unloaded"} /\ ticks < DictCalls
  /\ ticks' = ticks + 1
  /\ torn' = (torn \/ Changing # {})
  /\ manifest' = NoVariant /\ stamp' = 0
  /\ dictAt' = [dictAt EXCEPT ![p] = "unlink"]
  /\ drop' = [drop EXCEPT ![p] = DictFiles]
  /\ Unsettle
  /\ UNCHANGED <<disk, segmenter, active, had, wanted, put>>
RemoveFile(p) ==
  /\ dictAt[p] = "unlink"
  /\ \E f \in drop[p] : /\ disk' = [disk EXCEPT ![Placed(f)] = "absent"]
                        /\ drop' = [drop EXCEPT ![p] = @ \ {f}]
                        /\ dictAt' = [dictAt EXCEPT ![p] = IF drop[p] = {f} THEN "detect" ELSE @]
  /\ Unsettle
  /\ UNCHANGED <<manifest, stamp, ticks, segmenter, active, had, wanted, put, torn>>

\* resolveCJKLocked reads the directory three times: which variant is there,
\* its files, and the manifest's time.
Detect(p) ==
  /\ dictAt[p] = "detect"
  /\ wanted' = [wanted EXCEPT ![p] = Detected]
  /\ dictAt' = [dictAt EXCEPT ![p] = "load"]
  /\ settled' = IF Changing = {} THEN settled \cup {p} ELSE settled \ {p}
  /\ UNCHANGED <<dirVars, ticks, segmenter, active, had, drop, put, torn>>

\* loadCJKDict: files that have gone since leave the process without any.
LoadFiles(p) ==
  LET v == wanted[p]
      ok == v # NoVariant /\ Present(v)
      files == {disk[Placed(f)] : f \in FilesOf(v)}
  IN /\ dictAt[p] = "load"
     /\ active' = [active EXCEPT ![p] = IF ok THEN v ELSE NoVariant]
     /\ segmenter' = [segmenter EXCEPT ![p] = IF ~ok THEN "none"
                        ELSE IF "partial" \in files THEN "broken" ELSE "whole"]
     /\ dictAt' = [dictAt EXCEPT ![p] = "stat"]
     /\ UNCHANGED <<dirVars, ticks, had, planVars, settled, torn>>
StatManifest(p) ==
  /\ dictAt[p] = "stat"
  /\ had' = [had EXCEPT ![p] = stamp]
  /\ dictAt' = [dictAt EXCEPT ![p] = "idle"]
  /\ wanted' = [wanted EXCEPT ![p] = NoVariant]
  /\ UNCHANGED <<dirVars, ticks, segmenter, active, drop, put, settled, torn>>

\* Whether a process that holds a file dictionary has to load again: the
\* manifest has come, gone, or another time; one that holds none loads as soon
\* as there is a variant.
MutHasChanged(p) == IF active[p] # NoVariant THEN (stamp = 0) # (had[p] = 0)
                    ELSE Detected # NoVariant
HasChanged(p) == IF active[p] # NoVariant THEN stamp # had[p] ELSE Detected # NoVariant

\* maybeReprobeLocked: the first use loads, a later one looks every 30 s.
Probe(p) ==
  /\ dictAt[p] \in {"idle", "unloaded"}
  /\ dictAt' = [dictAt EXCEPT ![p] = IF @ = "unloaded" \/ HasChanged(p) THEN "detect" ELSE "idle"]
  /\ UNCHANGED <<dirVars, ticks, segmenter, active, had, planVars, settled, torn>>

\* The process is killed and started again: what it was doing stays half done.
\* (The temporary file it leaves behind is never read again: it is dropped here.)
KillDict(p) ==
  /\ dictAt[p] # "unloaded"
  /\ dictAt' = [dictAt EXCEPT ![p] = "unloaded"]
  /\ segmenter' = [segmenter EXCEPT ![p] = "none"]
  /\ active' = [active EXCEPT ![p] = NoVariant]
  /\ had' = [had EXCEPT ![p] = 0]
  /\ wanted' = [wanted EXCEPT ![p] = NoVariant]
  /\ drop' = [drop EXCEPT ![p] = {}] /\ put' = [put EXCEPT ![p] = {}]
  /\ settled' = settled \ {p}
  /\ torn' = (torn \/ p \in Changing)
  /\ UNCHANGED <<manifest, stamp, ticks>>
  /\ disk' = [path \in DOMAIN disk |-> IF path[1] = p THEN "absent" ELSE disk[path]]

DictNext ==
  \E p \in DictProcs :
    \/ \E v \in Variants : Download(p, v)
    \/ DropFile(p) \/ WriteFile(p) \/ RenameFile(p) \/ WriteManifest(p)
    \/ RemoveManifest(p) \/ RemoveFile(p)
    \/ Detect(p) \/ LoadFiles(p) \/ StatManifest(p)
    \/ Probe(p) \/ KillDict(p)

DictSpec == DictInit /\ [][DictNext]_dictVars

DictTypeOK ==
  /\ \A path \in DOMAIN disk : disk[path] \in {"absent", "partial", "whole"}
  /\ manifest \in Variants \cup {NoVariant} /\ stamp \in 0..DictCalls /\ ticks \in 0..DictCalls
  /\ segmenter \in [DictProcs -> {"none", "whole", "broken"}]
  /\ active \in [DictProcs -> Variants \cup {NoVariant}]
  /\ settled \subseteq DictProcs /\ torn \in BOOLEAN

\* A segmenter is never built from a file that is still being written, however
\* downloads, removals, loads and kills interleave (atomicWrite: "so concurrent
\* readers never observe a partial dict").
NeverBroken == \A p \in DictProcs : segmenter[p] # "broken"

\* A process that loaded while nobody changed the directory, and probes it when
\* nobody does, keeps what it has only if that is what is installed: it notices
\* every switch, removal and upgrade made by others.  (One that loaded during a
\* change may have stored the time of a manifest it did not read, and one that
\* a killed download left behind has no new manifest to notice.)
SwitchesAreNoticed ==
  \A p \in settled :
    dictAt[p] = "idle" /\ Changing = {} /\ ~torn /\ ~HasChanged(p) => active[p] = Detected

\* What a process segments with is whole, and what is installed.
SegmenterIsRight == NeverBroken /\ SwitchesAreNoticed
=============================================================================
