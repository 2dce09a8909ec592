---------------------------- MODULE AnalysisTools -----------------------------
(***************************************************************************)
(* One call of one of the seven tools that main registers: of the six that *)
(* Scanners describes, or of cleanarch, whose directory is the tree of     *)
(* ArchAnalysis and which has no other text.                               *)
(***************************************************************************)
EXTENDS Scanners, ArchAnalysis

ASSUME CleanArchAssumption ==
    "cleanarch" \in DOMAIN Inputs => \A i \in Inputs["cleanarch"] : i.lines = {}

\* Only cleanarch has rules other than the default.
ToolsInit ==
    /\ Init /\ ArchInit
    /\ tool # "cleanarch" => rules = DefaultRules

ToolsNext ==
    \/ tool = "cleanarch" /\ ArchNext /\ UNCHANGED vars
    \/ tool # "cleanarch" /\ Next /\ UNCHANGED archVars

ToolsSpec == ToolsInit /\ [][ToolsNext]_<<vars, archVars>>

=============================================================================
