------------------------------- MODULE PIIScanner -----------------------------
(***************************************************************************)
(* What piiguard makes of a directory: which files it reads, what it finds *)
(* on their lines, and how it attributes the verdicts of the model.        *)
(*                                                                         *)
(* A line of a file has a length in characters, the matches of the regular *)
(* expressions, and string literals: where each begins and ends in bytes,  *)
(* and what the code tells apart.  Its kind is "comment" if it is blank or *)
(* begins with what begins comments in some language, be it one or not:    *)
(* the header of a private key, which begins with "--", is of this kind.   *)
(***************************************************************************)
EXTENDS Directories

CONSTANTS
    BuiltinPatterns,   \* names and severities, in the order of the source
    Around             \* the context of a match, in characters: 50 in the source

ASSUME PatternsAssumption ==
    /\ BuiltinPatterns \in Seq(Range(BuiltinPatterns))
    /\ \A m, n \in DOMAIN BuiltinPatterns :
          BuiltinPatterns[m].name = BuiltinPatterns[n].name => m = n

\* The sum of the digits counts every second one from the right twice, less nine if that
\* is more.
LuhnCheck(digits) ==
    LET twice(d) == IF 2 * d > 9 THEN 2 * d - 9 ELSE 2 * d
        worth(n) == IF (Len(digits) - n) % 2 = 1 THEN twice(digits[n]) ELSE digits[n]
    IN  digits # <<>> /\ MapThenSumSet(worth, DOMAIN digits) % 10 = 0

\* All patterns, or those named, in the order of the source.
GetPatterns(names) ==
    IF names = {} THEN BuiltinPatterns
    ELSE Selected(BuiltinPatterns, {n \in DOMAIN BuiltinPatterns : BuiltinPatterns[n].name \in names})

\* The context of a match takes offsets in bytes for offsets in characters: in a line
\* with longer characters it may begin after its end, and slicing panics.
ContextPanics(line, match) ==
    LET start == IF match.at > Around THEN match.at - Around ELSE 0
        end == Min({match.to + Around, line.runes})
    IN  start > end

\* The first match of each pattern that has one which counts.
Matched(line, patterns) ==
    LET of(p) == {m \in DOMAIN line.matches :
                    /\ line.matches[m].type = p.name
                    /\ p.name = "credit_card" => LuhnCheck(line.matches[m].digits)}
        hits == Selected(patterns, {n \in DOMAIN patterns : of(patterns[n]) # {}})
    IN  [h \in DOMAIN hits |-> [type |-> hits[h].name, severity |-> hits[h].severity,
                                match |-> line.matches[Min(of(hits[h]))]]]

\* The first literal that is long, no address and of high entropy.
Entropic(line) ==
    LET high == {n \in DOMAIN line.literals : line.literals[n].high}
    IN  IF high = {} THEN <<>>
        ELSE <<[type |-> "high_entropy_string", severity |-> "medium",
                match |-> line.literals[Min(high)]]>>

\* A line that begins with "//", "#" or "--" in whatever language, or is empty.
IsCommentOrEmpty(line) == line.kind = "comment"

\* A variant that looks at literals on every line.
ScanText_Both(line, patterns, entropyCheck) ==
    IF IsCommentOrEmpty(line) THEN <<>>
    ELSE Matched(line, patterns) \o (IF entropyCheck THEN Entropic(line) ELSE <<>>)

\* One line of scanFile.  What begins like a comment is passed over with all that is on
\* it.  Literals are looked at only where no pattern matched, and whatever patterns were
\* asked for.
ScanText(line, patterns, entropyCheck) ==
    IF IsCommentOrEmpty(line) THEN <<>>
    ELSE IF Matched(line, patterns) # <<>> \/ ~entropyCheck THEN Matched(line, patterns)
    ELSE Entropic(line)

\* What ScanFiles does with a file: the first of these traits that it has decides.
SkipRules ==
    <<<<"excluded", "ignored">>, <<"archive", "skipped">>, <<"lock", "skipped">>,
      <<"unsupported", "ignored">>, <<"test", "skipped">>, <<"empty", "ignored">>,
      <<"large", "skipped">>, <<"unreadable", "skipped">>, <<"binary", "skipped">>>>

Traits == {SkipRules[n][1] : n \in DOMAIN SkipRules}

\* What a line of a directory has.
IsTreeLine(line) ==
    /\ line.kind \in {"file", "comment", "text", "long"}
    /\ line.kind = "file" => line.traits \subseteq Traits
    /\ line.kind \notin {"file", "long"} => /\ line.matches \in Seq(Range(line.matches))
                                           /\ line.literals \in Seq(Range(line.literals))

Fate(traits) ==
    LET decides(n) == SkipRules[n][1] \in traits
    IN  IF \E n \in DOMAIN SkipRules : decides(n)
        THEN SkipRules[Min({n \in DOMAIN SkipRules : decides(n)})][2]
        ELSE "scanned"

\* The lines of a file that scanFile sees: a line longer than the buffer ends the file.
Seen(tree, k) ==
    /\ tree[k].kind # "file"
    /\ Fate(tree[FileOf(tree, k)].traits) = "scanned"
    /\ \A j \in FileOf(tree, k)..k : tree[j].kind # "long"

\* ScanFiles, unless its deadline passes.
ScanFiles(tree, patterns, entropyCheck) ==
    LET on(k) == IF Seen(tree, k) THEN ScanText(tree[k], patterns, entropyCheck) ELSE <<>>
        finding(k, hit) == [file |-> Place(tree, k).file, line |-> Place(tree, k).line,
                            type |-> hit.type, severity |-> hit.severity]
        found(k) == [h \in DOMAIN on(k) |-> finding(k, on(k)[h])]
        count(fate) == Cardinality({f \in Files(tree) : Fate(tree[f].traits) = fate})
    IN  [findings |-> FlattenSeq([k \in DOMAIN tree |-> found(k)]),
         panics   |-> \E k \in DOMAIN tree : \E h \in DOMAIN on(k) :
                         ContextPanics(tree[k], on(k)[h].match),
         scanned  |-> count("scanned"),
         skipped  |-> count("skipped")]

\* Handle: the answer, an error if the scan panics, and what it counts by severity.
HandlePIIGuard(tree, names, entropyCheck, threshold) ==
    LET scan == ScanFiles(tree, GetPatterns(names), entropyCheck)
        kept == FilterBySeverity(scan.findings, threshold)
        severe(s) == Cardinality({n \in DOMAIN kept : kept[n].severity = s})
    IN  [error |-> scan.panics, findings |-> kept, scanned |-> scan.scanned,
         skipped |-> scan.skipped, bySeverity |-> [n \in DOMAIN Order |-> severe(Order[n])]]

-----------------------------------------------------------------------------
(* The verdicts.                                                           *)

\* What a verdict says of a finding, besides the verdict itself.
Verdict(finding) == [file |-> finding.file, line |-> finding.line, type |-> finding.type]

\* groupByFile, one group at a time: of the findings that are left, given by their
\* numbers, those of the file of the first.
GroupByFile(findings, left) ==
    {n \in left : findings[n].file = findings[Min(left)].file}

\* parseVerdicts: a row of the model's answer is for the first finding of the group
\* with its type of pattern; a row of another type is dropped.  Rows are not told apart
\* by anything else, nor is their order kept.
ParseVerdicts(rows, findings, group) ==
    LET first == {n \in group : \A m \in group : m < n => findings[m].type # findings[n].type}
    IN  {Verdict(findings[n]) : n \in {m \in first : findings[m].type \in Range(rows)}}

=============================================================================
