------------------------------- MODULE VulnScan -------------------------------
(***************************************************************************)
(* vulnscanner/scan apart from its queries and its background work (see    *)
(* OSVClient and Enrichment): the dependencies in a manifest, and the      *)
(* findings made of what the database knows of them.                       *)
(*                                                                         *)
(* A line of go.mod or requirements.txt is its kind and its fields.  A     *)
(* package.json or lock file is a list of members, each of one section.    *)
(* Severities are counted in tenths.                                       *)
(***************************************************************************)
EXTENDS Positions, SequencesExt, FiniteSetsExt

CONSTANT MaxPerRequest   \* maxPerRequest: the findings that are enriched

Dependency(name, version) == [name |-> name, version |-> version]
Dependencies == [name : STRING, version : STRING]

Kinds(ecosystem) ==
    CASE ecosystem = "go"  -> {"note", "verb", "open", "other", "close", "require", "module"}
      [] ecosystem = "pip" -> {"note", "module"}
      [] ecosystem = "npm" -> {"dependencies", "devDependencies", "packages"}

\* What a line or member has.  In the sections of old lock files, and in "packages", the
\* values are objects.
IsManifestLine(ecosystem, line) ==
    /\ ecosystem \in {"go", "pip", "npm"} /\ line.kind \in Kinds(ecosystem)
    /\ line.kind \notin {"note", "verb", "open", "other", "close"} => line.dep \in Dependencies
    /\ ecosystem = "npm" => /\ line.shape \in {"string", "object"} /\ line.installed \in BOOLEAN
                            /\ line.kind = "packages" => line.shape = "object"

\* A variant in which a module on a line of its own also opens a block.
ReadGoMod_OpensAlways(read, line) ==
    CASE line.kind \in {"note", "verb", "other"} -> read
      [] line.kind \in {"open", "require"} -> [read EXCEPT !.inBlock = TRUE]
      [] line.kind = "close" -> [read EXCEPT !.inBlock = FALSE]
      [] line.kind = "module" ->
            IF read.inBlock THEN [read EXCEPT !.deps = Append(@, line.dep)] ELSE read

\* The body of the loop of parseGoMod, for a line that is blank or a comment, another
\* verb, the beginning of the block of another verb or of one of requirements, the end of
\* a block, a requirement of one line, or a module and its version.  There are no verbs
\* in a block of requirements, where they would be read as modules.
ReadGoMod(read, line) ==
    CASE line.kind \in {"note", "verb", "other"} -> read
      [] line.kind = "open"  -> [read EXCEPT !.inBlock = TRUE]
      [] line.kind = "close" -> [read EXCEPT !.inBlock = FALSE]
      [] line.kind = "require" -> [read EXCEPT !.deps = Append(@, line.dep)]
      [] line.kind = "module" ->
            IF read.inBlock THEN [read EXCEPT !.deps = Append(@, line.dep)] ELSE read

\* parseGoMod after each line.
GoModRead(lines) ==
    LET read[k \in 0..Len(lines)] == IF k = 0 THEN [inBlock |-> FALSE, deps |-> <<>>]
                                     ELSE ReadGoMod(read[k-1], lines[k])
    IN  read

ParseGoMod(lines) == GoModRead(lines)[Len(lines)].deps

Deps(lines) == [n \in DOMAIN lines |-> lines[n].dep]

\* parsePip and parsePipLine: comments and flags are skipped; what stands on the two
\* sides of the operator are the name and the version.
ParsePip(lines) ==
    Deps(Selected(lines, {n \in DOMAIN lines : lines[n].kind = "module"}))

\* The places of the entries of a section that have a value of the given shape: all of
\* them are strings, or all are objects with a version, which may be empty.
Section(members, name, shape) ==
    LET all == {n \in DOMAIN members : members[n].kind = name}
        versioned == {n \in all : members[n].dep.version # ""}
    IN  IF \E n \in all : members[n].shape # shape THEN {}
        ELSE IF shape = "string" THEN all ELSE versioned

\* parseNPM.  The names in "packages" are those after the last node_modules of a path;
\* paths without, such as the root, are left out.  The older format is tried only if
\* nothing has been found, and only its outermost level is read.
ParseNPM(members) ==
    LET packages == {n \in Section(members, "packages", "object") : members[n].installed}
        listed == Selected(members, Section(members, "dependencies", "string"))
                  \o Selected(members, Section(members, "devDependencies", "string"))
                  \o Selected(members, packages)
    IN  Deps(IF listed # <<>> THEN listed
             ELSE Selected(members, Section(members, "dependencies", "object")))

ParseManifest(ecosystem, source) ==
    CASE ecosystem = "go"  -> ParseGoMod(source)
      [] ecosystem = "pip" -> ParsePip(source)
      [] ecosystem = "npm" -> ParseNPM(source)

-----------------------------------------------------------------------------
(* Findings.                                                               *)

\* What the database knows of each name: vulnerabilities, each with its own id, and their
\* severities.
IsDatabase(database) ==
    \A name \in DOMAIN database :
        LET vulns == database[name]
        IN  /\ vulns \in Seq(Range(vulns))
            /\ \A v, w \in DOMAIN vulns : vulns[v].id = vulns[w].id => v = w
            /\ \A v \in DOMAIN vulns :
                  LET severities == vulns[v].severities
                  IN  /\ severities \in Seq(Range(severities))
                      /\ \A n \in DOMAIN severities :
                            /\ severities[n].form \in {"number", "vector", "other"}
                            /\ severities[n].form = "number" => severities[n].value \in Nat

\* extractCVSSScore and estimateFromCVSSVector: a number, or the count of the marks for
\* high and medium in a vector; 0 if there is nothing usable.
Score(severity) ==
    CASE severity.form = "number" -> severity.value
      [] severity.form = "vector" ->
            IF severity.high >= 3 THEN 90
            ELSE IF severity.high = 2 THEN 75
            ELSE IF severity.high = 1 \/ severity.medium >= 2 THEN 55
            ELSE IF severity.medium = 1 THEN 35 ELSE 20
      [] severity.form = "other" -> 0

\* parseSeverityScore: the first score that is usable.
SeverityOf(severities) ==
    LET usable == {n \in DOMAIN severities : Score(severities[n]) > 0}
    IN  IF usable = {} THEN 0 ELSE Score(severities[Min(usable)])

\* The last element that is not empty.
LastSet(seq, empty) ==
    LET set == {n \in DOMAIN seq : seq[n] # empty}
    IN  IF set = {} THEN empty ELSE seq[Max(set)]

\* buildRangeInfo: the last event of each kind in a range.
RangeInfo(events) ==
    LET introduced == LastSet([n \in DOMAIN events |-> events[n].introduced], "")
        fixed      == LastSet([n \in DOMAIN events |-> events[n].fixed], "")
    IN  [affected |-> IF introduced = "" THEN <<>> ELSE <<introduced, fixed>>, fixed |-> fixed]

\* mapOSVToFinding: the last range and the last fix, which may be of different ranges.
MapToFinding(name, vuln) ==
    LET info == [n \in DOMAIN vuln.ranges |-> RangeInfo(vuln.ranges[n])]
    IN  [package |-> name, id |-> vuln.id, severity |-> SeverityOf(vuln.severities),
         affected |-> LastSet([n \in DOMAIN info |-> info[n].affected], <<>>),
         fixed    |-> LastSet([n \in DOMAIN info |-> info[n].fixed], "")]

\* A variant that sorts the lowest severity first.
Sorted_Ascending(findings) ==
    LET before(m, n) == \/ findings[m].severity < findings[n].severity
                        \/ findings[m].severity = findings[n].severity /\ m <= n
        place(n) == Cardinality({m \in DOMAIN findings : before(m, n)})
    IN  [k \in DOMAIN findings |-> findings[CHOOSE n \in DOMAIN findings : place(n) = k]]

\* sort.SliceStable, the highest severity first.
Sorted(findings) ==
    LET before(m, n) == \/ findings[m].severity > findings[n].severity
                        \/ findings[m].severity = findings[n].severity /\ m <= n
        place(n) == Cardinality({m \in DOMAIN findings : before(m, n)})
    IN  [k \in DOMAIN findings |-> findings[CHOOSE n \in DOMAIN findings : place(n) = k]]

\* The answer, given what the database knows, as findings in the order in which the map
\* is iterated, and whether it failed to say; and the findings that go to the background.
HandleVulnScan(deps, findings, failed) ==
    LET sorted == Sorted(findings)
    IN  [scanError |-> failed, totalDeps |-> Len(deps), findings |-> sorted,
         enriched |-> SubSeq(sorted, 1, Min({MaxPerRequest, Len(sorted)}))]

=============================================================================
