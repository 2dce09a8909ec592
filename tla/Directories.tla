------------------------------ MODULE Directories -----------------------------
(***************************************************************************)
(* What the tools that walk a directory have in common.                    *)
(*                                                                         *)
(* A directory is a sequence of lines, in the order in which it is walked. *)
(* A line of the kind "file" begins a file and has its name and traits.    *)
(***************************************************************************)
EXTENDS Positions, SequencesExt, FiniteSetsExt

Files(tree) == {k \in DOMAIN tree : tree[k].kind = "file"}

\* The file that a line is in.
FileOf(tree, k) == Max({f \in Files(tree) : f <= k})

LinesOf(tree, f) == {k \in DOMAIN tree \ Files(tree) : k > f /\ FileOf(tree, k) = f}

Place(tree, k) == [file |-> tree[FileOf(tree, k)].name, line |-> k - FileOf(tree, k)]

Order == <<"low", "medium", "high", "critical">>

Level(severity) == CHOOSE n \in DOMAIN Order : Order[n] = severity

\* filterBySeverity of piiguard, filterByThreshold of lambdaguard.
FilterBySeverity(findings, threshold) ==
    Selected(findings, {n \in DOMAIN findings : Level(findings[n].severity) >= Level(threshold)})

=============================================================================
