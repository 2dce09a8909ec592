---------------------------- MODULE MCAnalysisTools ---------------------------
(* The requests, texts and directories of both. *)
EXTENDS AnalysisTools, MCScanners, MCArchAnalysis

AllInputs == MCInputs @@ [cleanarch |-> {[lines |-> {}, maxLines |-> 0]}]

=============================================================================
