---------------------------- MODULE MCPromptCache -----------------------------
(***************************************************************************)
(* Three prompts that compete for two places.  Callers, entries and texts  *)
(* are interchangeable.                                                    *)
(***************************************************************************)
EXTENDS PromptCache

Symmetry == Permutations(Callers) \cup Permutations(EntryIds) \cup Permutations(Texts)

=============================================================================
