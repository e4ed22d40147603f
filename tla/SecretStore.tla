------------------------------ MODULE SecretStore ------------------------------
(***************************************************************************)
(* The encrypted secrets under ~/.ladyM (secrets/secrets.go): master.key   *)
(* holds the key, secrets.enc the entries sealed with it.  Every call of   *)
(* the command line is a process of its own that reads the files, rewrites *)
(* one or both through a temporary file of a fixed name, and may be killed *)
(* anywhere; nothing locks them against each other.  os.WriteFile empties  *)
(* the temporary file when it opens it and fills it then: whatever another *)
(* call has written there meanwhile is overwritten from the beginning, and *)
(* the file may have been renamed into place by then.  Reading a value     *)
(* changes no file and is left out.                                        *)
(***************************************************************************)
EXTENDS Naturals, FiniteSets

CONSTANTS SecretProcs,  \* processes
          SecretNames,  \* names of entries
          KeyChanges,   \* bound: master keys made after the first
          NoKey,        \* no master key; no entry under a name
          BlankKey,     \* a file for the key with nothing in it
          Torn          \* what is left of an entry that was cut: it does not open

ASSUME SecretAssumption ==
  /\ KeyChanges \in Nat
  /\ {NoKey, BlankKey, Torn} \cap 1..(KeyChanges + 1) = {}
  /\ NoKey \notin {BlankKey, Torn}

VARIABLES
  masterFile,  \* master.key: a number for the key, BlankKey or NoKey
  secretsFile, \* secrets.enc: name -> the key its value is sealed with, NoKey or Torn
  masterTmp,   \* master.key.tmp, NoKey when absent
  secretsTmp,  \* secrets.enc.tmp, empty when absent
  keys,        \* keys made so far
  secretAt,    \* process -> [call, at] it is in
  held,        \* process -> the entries it has read
  heldKey,     \* process -> the key it has read or made
  fd,          \* process -> where the file is by now that it has opened to fill:
               \* "tmp", "placed" (renamed into place) or "gone" (replaced, removed)
  rekeyed,     \* history: a call that makes a key overlapped another call, or was
               \* killed between its two renames
  mixed        \* history: secrets.enc.tmp was opened while another call had it open,
               \* or had yet to rename it

secretFiles == <<masterFile, secretsFile, masterTmp, secretsTmp>>
secretCalls == <<secretAt, held, heldKey, fd>>
secretVars == <<secretFiles, secretCalls, keys, rekeyed, mixed>>

NoTmp == {}   \* no temporary file
Empty == [n \in SecretNames |-> NoKey]
Idle == [call |-> "none", at |-> "idle"]

SecretInit ==
  /\ masterFile = NoKey /\ secretsFile = Empty
  /\ masterTmp = NoKey /\ secretsTmp = NoTmp
  /\ keys = 0 /\ rekeyed = FALSE /\ mixed = FALSE
  /\ secretAt = [p \in SecretProcs |-> Idle]
  /\ held = [p \in SecretProcs |-> Empty]
  /\ heldKey = [p \in SecretProcs |-> NoKey]
  /\ fd = [p \in SecretProcs |-> "none"]

MakesKey == {"setkey", "resetkey"}
Under == {p \in SecretProcs : secretAt[p] # Idle}
Proceed(p, place) == secretAt' = [secretAt EXCEPT ![p].at = place]

\* The call begins and reads secrets.enc; readAll of a missing file is empty.
BeginCall(p, call) ==
  /\ secretAt[p] = Idle
  /\ secretAt' = [secretAt EXCEPT ![p] = [call |-> call, at |-> "read"]]
  /\ held' = [held EXCEPT ![p] = secretsFile]
  /\ rekeyed' = (rekeyed \/ \E q \in Under : MakesKey \cap {call, secretAt[q].call} # {})
  /\ UNCHANGED <<secretFiles, keys, heldKey, fd, mixed>>

\* Set: refused without a master key; seals the value with the key it reads, and
\* panics over an empty one.
SetSecret(p, n) ==
  /\ secretAt[p] = [call |-> "set", at |-> "read"]
  /\ IF masterFile \in {NoKey, BlankKey}
     THEN secretAt' = [secretAt EXCEPT ![p] = Idle] /\ UNCHANGED <<held, heldKey>>
     ELSE /\ heldKey' = [heldKey EXCEPT ![p] = masterFile]
          /\ held' = [held EXCEPT ![p][n] = masterFile]
          /\ Proceed(p, "write")
  /\ UNCHANGED <<secretFiles, keys, fd, rekeyed, mixed>>

\* Remove: nothing to write when the name is not there.
RemoveSecret(p, n) ==
  /\ secretAt[p] = [call |-> "rm", at |-> "read"]
  /\ IF held[p][n] = NoKey
     THEN secretAt' = [secretAt EXCEPT ![p] = Idle] /\ UNCHANGED held
     ELSE Proceed(p, "write") /\ held' = [held EXCEPT ![p][n] = NoKey]
  /\ UNCHANGED <<secretFiles, keys, heldKey, fd, rekeyed, mixed>>

\* A fresh key may be set only while there are no entries.
MutMayStartAfresh(entries) == TRUE
MayStartAfresh(entries) == entries = Empty

\* SetMasterKey makes a key, or refuses.
SetMasterKey(p) ==
  /\ secretAt[p] = [call |-> "setkey", at |-> "read"]
  /\ IF MayStartAfresh(held[p])
     THEN /\ keys <= KeyChanges
          /\ keys' = keys + 1 /\ heldKey' = [heldKey EXCEPT ![p] = keys + 1]
          /\ Proceed(p, "writekey")
     ELSE secretAt' = [secretAt EXCEPT ![p] = Idle] /\ UNCHANGED <<keys, heldKey>>
  /\ UNCHANGED <<secretFiles, held, fd, rekeyed, mixed>>

\* ResetMasterKey opens every entry with the present key, fails if one does not
\* open, and seals them all with a new one.
ResetMasterKey(p) ==
  /\ secretAt[p] = [call |-> "resetkey", at |-> "read"]
  /\ IF masterFile # NoKey /\ \A n \in SecretNames : held[p][n] \in {NoKey, masterFile}
     THEN /\ keys <= KeyChanges
          /\ keys' = keys + 1 /\ heldKey' = [heldKey EXCEPT ![p] = keys + 1]
          /\ held' = [held EXCEPT ![p] =
                        [n \in SecretNames |-> IF @[n] = NoKey THEN NoKey ELSE keys + 1]]
          /\ Proceed(p, "writekey")
     ELSE secretAt' = [secretAt EXCEPT ![p] = Idle] /\ UNCHANGED <<keys, heldKey, held>>
  /\ UNCHANGED <<secretFiles, fd, rekeyed, mixed>>

-----------------------------------------------------------------------------
(* os.WriteFile of the temporary files: atomicWrite has one of them,       *)
(* atomicWritePair both.                                                   *)

\* What W leaves of the file it is written over, from the beginning: of the entries
\* that were there before, some may follow W's own, and one may be cut.
Over(before, W) ==
  IF before = Empty THEN {W}
  ELSE {kv \in [SecretNames -> {W[n] : n \in SecretNames} \cup {before[n] : n \in SecretNames} \cup {Torn}] :
          \A n \in SecretNames : kv[n] \in {W[n], before[n], Torn}}

\* The open file has been renamed into place, or what is in place has been replaced;
\* the temporary file has been removed.
FdsPlaced(point) == [q \in SecretProcs |-> IF secretAt[q].at # point THEN fd[q]
                                        ELSE IF fd[q] = "tmp" THEN "placed" ELSE "gone"]
FdsRemoved(point) == [q \in SecretProcs |-> IF secretAt[q].at = point /\ fd[q] = "tmp" THEN "gone" ELSE fd[q]]

OpenKeyTmp(p) ==
  /\ secretAt[p].at = "writekey"
  /\ masterTmp' = BlankKey
  /\ fd' = [fd EXCEPT ![p] = "tmp"]
  /\ Proceed(p, "fillkey")
  /\ UNCHANGED <<masterFile, secretsFile, secretsTmp, keys, held, heldKey, rekeyed, mixed>>
\* All keys are of one length: what is written covers what was there.
FillKeyTmp(p) ==
  /\ secretAt[p].at = "fillkey"
  /\ masterTmp' = IF fd[p] = "tmp" THEN heldKey[p] ELSE masterTmp
  /\ masterFile' = IF fd[p] = "placed" THEN heldKey[p] ELSE masterFile
  /\ fd' = [fd EXCEPT ![p] = "none"]
  /\ Proceed(p, IF secretAt[p].call = "resetkey" THEN "write" ELSE "renamekey")
  /\ UNCHANGED <<secretsFile, secretsTmp, keys, held, heldKey, rekeyed, mixed>>

\* The call has secrets.enc.tmp open, or has filled it and will rename it.
Writing(p) ==
  secretAt[p].at \in {"fill", "rename"} \/ secretAt[p] = [call |-> "resetkey", at |-> "renamekey"]

OpenSecretsTmp(p) ==
  /\ secretAt[p].at = "write"
  /\ secretsTmp' = {Empty}
  /\ fd' = [fd EXCEPT ![p] = "tmp"]
  /\ mixed' = (mixed \/ \E q \in SecretProcs : Writing(q))
  /\ Proceed(p, "fill")
  /\ UNCHANGED <<masterFile, secretsFile, masterTmp, keys, held, heldKey, rekeyed>>
FillSecretsTmp(p) ==
  /\ secretAt[p].at = "fill"
  /\ \/ /\ fd[p] = "tmp"
        /\ \E before \in secretsTmp : \E kv \in Over(before, held[p]) : secretsTmp' = {kv}
        /\ UNCHANGED secretsFile
     \/ fd[p] = "placed" /\ secretsFile' \in Over(secretsFile, held[p]) /\ UNCHANGED secretsTmp
     \/ fd[p] = "gone" /\ UNCHANGED <<secretsFile, secretsTmp>>
  /\ fd' = [fd EXCEPT ![p] = "none"]
  /\ Proceed(p, IF secretAt[p].call = "resetkey" THEN "renamekey" ELSE "rename")
  /\ UNCHANGED <<masterFile, masterTmp, keys, held, heldKey, rekeyed, mixed>>

\* os.Rename puts into place whatever the temporary file holds by now; when
\* another call has renamed it already, the call fails.
RenameKey(p) ==
  /\ secretAt[p].at = "renamekey"
  /\ masterTmp' = NoKey
  /\ IF masterTmp = NoKey
     THEN /\ secretAt' = [secretAt EXCEPT ![p] = Idle]
          /\ IF secretAt[p].call = "resetkey" THEN secretsTmp' = NoTmp /\ fd' = FdsRemoved("fill")
                                              ELSE UNCHANGED <<secretsTmp, fd>>
          /\ UNCHANGED masterFile
     ELSE /\ masterFile' = masterTmp
          /\ fd' = FdsPlaced("fillkey")
          /\ secretAt' = [secretAt EXCEPT ![p] =
               IF @.call = "resetkey" THEN [@ EXCEPT !.at = "rename"] ELSE Idle]
          /\ UNCHANGED secretsTmp
  /\ UNCHANGED <<secretsFile, keys, held, heldKey, rekeyed, mixed>>
RenameSecrets(p) ==
  /\ secretAt[p].at = "rename"
  /\ IF secretsTmp = NoTmp THEN UNCHANGED <<secretsFile, fd>>
                           ELSE secretsFile' \in secretsTmp /\ fd' = FdsPlaced("fill")
  /\ secretsTmp' = NoTmp
  /\ secretAt' = [secretAt EXCEPT ![p] = Idle]
  /\ UNCHANGED <<masterFile, masterTmp, keys, held, heldKey, rekeyed, mixed>>

\* The process is killed; its temporary files stay, empty if they were not yet filled.
KillCall(p) ==
  /\ secretAt[p] # Idle
  /\ secretAt' = [secretAt EXCEPT ![p] = Idle]
  /\ fd' = [fd EXCEPT ![p] = "none"]
  /\ rekeyed' = (rekeyed \/ secretAt[p] = [call |-> "resetkey", at |-> "rename"])
  /\ UNCHANGED <<secretFiles, keys, held, heldKey, mixed>>

SecretNext ==
  \E p \in SecretProcs :
    \/ \E call \in {"set", "rm", "setkey", "resetkey"} : BeginCall(p, call)
    \/ \E n \in SecretNames : SetSecret(p, n) \/ RemoveSecret(p, n)
    \/ SetMasterKey(p) \/ ResetMasterKey(p)
    \/ OpenKeyTmp(p) \/ FillKeyTmp(p) \/ OpenSecretsTmp(p) \/ FillSecretsTmp(p)
    \/ RenameKey(p) \/ RenameSecrets(p) \/ KillCall(p)

SecretSpec == SecretInit /\ [][SecretNext]_secretVars

SecretTypeOK ==
  /\ masterFile \in 1..(KeyChanges + 1) \cup {NoKey, BlankKey}
  /\ \A n \in SecretNames : secretsFile[n] \in 1..(KeyChanges + 1) \cup {NoKey, Torn}
  /\ \A p \in SecretProcs : secretAt[p].call \in {"none", "set", "rm"} \cup MakesKey

(* Every entry opens with the master key, through kills at any point of     *)
(* sets and removals that overlap each other, of setting a key and of       *)
(* resetting it.  Two exceptions: a call that makes a key overlapped        *)
(* another one, or a reset was killed after it had replaced the key and     *)
(* before it had replaced the entries, which leaves every secret unreadable *)
(* (atomicWritePair renames them one by one); and two calls were at         *)
(* secrets.enc.tmp at once, both having emptied it before one had renamed   *)
(* it, which may cut an entry or lose the entries, but leaves none sealed   *)
(* with a key that is not the master key.                                   *)
SecretsOpen ==
  /\ ~mixed => \A n \in SecretNames : secretsFile[n] # Torn
  /\ ~rekeyed =>
       \A n \in SecretNames :
         secretsFile[n] \in {NoKey, Torn, masterFile}
         \/ \E p \in SecretProcs : secretAt[p] = [call |-> "resetkey", at |-> "rename"]
=============================================================================
