------------------------------ MODULE DiffScanner -----------------------------
(***************************************************************************)
(* envguard/scan: the secrets in the added lines of a unified diff, each   *)
(* with its file and its line number in the new version of that file.      *)
(*                                                                         *)
(* Every line of a diff has a kind, which is what the tool that wrote the  *)
(* diff meant by it; Scan sees only how the line begins.  An added line    *)
(* whose text begins with "++ b/" looks like the header of a file, and a   *)
(* removed line whose text begins with "--" like that of the old file.     *)
(***************************************************************************)
EXTENDS Positions, SequencesExt, FiniteSetsExt

\* What a line of a diff has: a header and what looks like one a name, the place of a
\* hunk where it begins in the new file, and an added line the secrets in it.
IsDiffLine(line) ==
    /\ line.kind \in {"header", "old header", "hunk", "added", "removed", "context", "marker"}
    /\ line.kind \in {"header", "added"} => line.file \in STRING
    /\ line.kind = "hunk" => line.start \in Nat
    /\ line.kind = "added" => line.secrets \in Seq(STRING)

\* What Scan finds; until it has seen the header of a file the name is "".
FileNames == STRING \cup {""}
Secrets == [line : Nat, file : FileNames, type : STRING]

\* Lines that begin with "+++ b/".
LikeHeader(line) == line.kind = "header" \/ (line.kind = "added" /\ line.text = "++ b/")

\* Lines that begin with "---".
LikeOldHeader(line) == line.kind = "old header" \/ (line.kind = "removed" /\ line.text = "--")

Finding(scan, type) == [line |-> scan.line, file |-> scan.file, type |-> type]

\* A variant that does not count the added lines without a secret.
ScanLine_CountsFindings(scan, line) ==
    CASE LikeHeader(line) -> [scan EXCEPT !.file = line.file]
      [] line.kind = "hunk" -> [scan EXCEPT !.line = line.start]
      [] LikeOldHeader(line) -> scan
      [] line.kind = "added" /\ ~LikeHeader(line) ->
            [scan EXCEPT !.found = @ \o [n \in DOMAIN line.secrets |->
                                            Finding(scan, line.secrets[n])],
                         !.line = @ + Len(line.secrets)]
      [] line.kind = "removed" /\ ~LikeOldHeader(line) -> scan
      [] OTHER -> [scan EXCEPT !.line = @ + 1]

\* The body of the loop of Scan.  What is neither added nor removed counts as a line of
\* the new file: context, and also the marker "\ No newline at end of file".
ScanLine(scan, line) ==
    CASE LikeHeader(line) -> [scan EXCEPT !.file = line.file]
      [] line.kind = "hunk" -> [scan EXCEPT !.line = line.start]
      [] LikeOldHeader(line) -> scan
      [] line.kind = "added" /\ ~LikeHeader(line) ->
            [scan EXCEPT !.found = @ \o [n \in DOMAIN line.secrets |->
                                            Finding(scan, line.secrets[n])],
                         !.line = @ + 1]
      [] line.kind = "removed" /\ ~LikeOldHeader(line) -> scan
      [] OTHER -> [scan EXCEPT !.line = @ + 1]

\* Where Scan is after each line, and what it has found.
Scanned(diff) ==
    LET scan[k \in 0..Len(diff)] == IF k = 0 THEN [file |-> "", line |-> 0, found |-> <<>>]
                                    ELSE ScanLine(scan[k-1], diff[k])
    IN  scan

Scan(diff) == Scanned(diff)[Len(diff)].found

\* IgnoreParser.Filter: a pattern that matches the file or the secret drops a finding.
Filter(findings, ignored) ==
    Selected(findings, {n \in DOMAIN findings : findings[n].file \notin ignored
                                                /\ findings[n].type \notin ignored})

\* Handle without a migrator, as main configures it.
HandleEnvGuard(diff, ignored) ==
    LET findings == Filter(Scan(diff), ignored)
    IN  [blocked |-> findings # <<>>, findings |-> findings]

-----------------------------------------------------------------------------
(* What the diff means.                                                    *)

LastOf(diff, k, kind) == Max({0} \cup {j \in 1..k : diff[j].kind = kind})

\* The number in the new file of the line that the k-th line of the diff adds.
TrueLine(diff, k) ==
    LET hunk == LastOf(diff, k, "hunk")
    IN  diff[hunk].start
        + Cardinality({j \in hunk+1..k-1 : diff[j].kind \in {"context", "added"}})

\* What makes Scan lose its place: in the hunk, a line that is not one of the file but
\* is counted; in the file, an added line that it takes for a header.
Misled(diff, k) ==
    \/ \E j \in LastOf(diff, k, "hunk")+1..k : diff[j].kind = "marker"
    \/ \E j \in LastOf(diff, k, "header")+1..k : diff[j].kind = "added" /\ LikeHeader(diff[j])

=============================================================================
