----------------------------- MODULE MCCodeIndex -----------------------------
(* Instances of CodeIndex: one project of two files, and two projects that  *)
(* share a path; two versions of a file.                                    *)
EXTENDS CodeIndex

CONSTANTS i1, i2, w1, w2, m, n

OneProject  == [w \in Workspaces |-> {1, 2}]
OneFile     == [w \in Workspaces |-> {1}]

\* No two files differ only in their extension.
Distinct    == [f \in Files |-> f]

\* Version 1 defines m and n, and m calls n; version 2 has dropped n.
TwoVersions == 1..2
MCSymbols   == [v \in Versions |-> IF v = 1 THEN {m, n} ELSE {m}]
MCCalls     == [v \in Versions |-> IF v = 1 THEN {<<m, n>>} ELSE {}]
=============================================================================
