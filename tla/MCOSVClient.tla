------------------------------ MODULE MCOSVClient -----------------------------
(***************************************************************************)
(* Two dependencies, and the two ways to name them: two packages, or two   *)
(* versions of one package, as in a lock file with nested node_modules.    *)
(***************************************************************************)
EXTENDS OSVClient

CONSTANTS n1, n2

TwoNames    == {n1, n2}
TwoPackages == <<n1, n2>>
TwoVersions == <<n1, n1>>

=============================================================================
