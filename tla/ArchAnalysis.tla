----------------------------- MODULE ArchAnalysis -----------------------------
(***************************************************************************)
(* cleanarch/analyze up to its answer: the rules are loaded, the dominant  *)
(* language of the directory is detected, the directory is walked again    *)
(* for the imports of that language, and every import is judged by the     *)
(* rules.  A deadline may pass at any moment; the walk for imports then    *)
(* stops and the answer says that it is truncated.                         *)
(*                                                                         *)
(* The directory is the sequence of the entries in the order in which      *)
(* filepath.Walk meets them, and it grows while the first walk reads it.   *)
(* An import path or directory is a sequence of segments, the parts        *)
(* between slashes; a segment is a sequence of its parts between dots,     *)
(* since both separators mean something to the code.  A line of a file is  *)
(* what the regular expressions find in it.                                *)
(***************************************************************************)
EXTENDS Naturals, Sequences, FiniteSets, SequencesExt, FiniteSetsExt

CONSTANTS
    Entries,      \* the files and unreadable directories that there may be
    RuleFiles,    \* the rules that a rules file may hold
    NodeBuiltins, PythonBuiltins, JavaPackages, \* the tables of standard modules
    Names,        \* the names that segments consist of, the empty one among them
    NoPath,       \* no import
    MaxEntries    \* bound: entries of the directory

VARIABLES
    rules,      \* the rules in force
    tree,       \* the entries of the directory, in the order of the walk
    overdue,    \* the context of the scan is done
    phase,      \* what Handle is doing, or how it ended
    lang,       \* the language that was detected
    pos,        \* the entry that the walk for imports is at
    edges,      \* the imports found
    graph,      \* the import graph: for each package, what it imports
    violations, \* the import edges that a rule denies, with the index of the rule
    truncated   \* the answer says that it is truncated

\* An import path, a directory, and likewise a pattern.
Paths == Seq(Seq(Names))

Rules == [from : Paths, to : Paths, allow : BOOLEAN]
SourceLines == [import : Paths \cup {NoPath}, require : Paths \cup {NoPath}, comment : BOOLEAN]

ASSUME EntriesAssumption ==
    /\ MaxEntries \in Nat
    /\ {"", "**", "domain", "infrastructure", "presentation"} \subseteq Names
    /\ RuleFiles \subseteq Seq(Rules)
    /\ \A entry \in Entries :
          /\ entry.dir \in Paths
          /\ entry.lines \in Seq(SourceLines)

archVars == <<rules, tree, overdue, phase, lang, pos, edges, graph, violations, truncated>>

Languages == {"go", "js", "python", "java"}

-----------------------------------------------------------------------------
(* Rules and patterns.                                                     *)

Stars   == <<"**">>
Layer(name) == <<Stars, <<name>>, Stars>>
Deny(from, to) == [from |-> Layer(from), to |-> Layer(to), allow |-> FALSE]

DefaultRules == <<Deny("domain", "infrastructure"), Deny("domain", "presentation"),
                  Deny("infrastructure", "presentation")>>

\* path.Match on one segment.
SegmentMatches(pattern, segment) == pattern = <<"*">> \/ pattern = segment

\* A variant in which ** stands for one segment or more.
Matches_NeedsSegment(pattern, path) ==
    LET end == Len(path) + 1
        from[p \in 1..Len(pattern)+1] ==
            IF p > Len(pattern) THEN {end}
            ELSE IF pattern[p] = Stars THEN {s \in 1..end : \E t \in s+1..end : t \in from[p+1]}
            ELSE {s \in 1..end : s < end /\ SegmentMatches(pattern[p], path[s]) /\ s+1 \in from[p+1]}
    IN  1 \in from[1]

\* matchParts: the segments of the path from which it matches the pattern from its p-th
\* part on.
Matches(pattern, path) ==
    LET end == Len(path) + 1
        from[p \in 1..Len(pattern)+1] ==
            IF p > Len(pattern) THEN {end}
            ELSE IF pattern[p] = Stars
            THEN {s \in 1..end : p = Len(pattern) \/ \E t \in s..end : t \in from[p+1]}
            ELSE {s \in 1..end : s < end /\ SegmentMatches(pattern[p], path[s]) /\ s+1 \in from[p+1]}
    IN  1 \in from[1]

Applies(rule, edge) == Matches(rule.from, edge.pkg) /\ Matches(rule.to, edge.import)

\* The rules that apply to an edge; the loop over the rules stops at the first.
Hits(edge) == {i \in DOMAIN rules : Applies(rules[i], edge)}

Denied(edge) == Hits(edge) # {} /\ ~rules[Min(Hits(edge))].allow

Evaluate(es) ==
    LET upTo[k \in 0..Len(es)] ==
            IF k = 0 THEN <<>>
            ELSE IF Denied(es[k]) THEN Append(upTo[k-1], <<es[k], Min(Hits(es[k]))>>)
            ELSE upTo[k-1]
    IN  upTo[Len(es)]

-----------------------------------------------------------------------------
(* Languages.                                                              *)

\* A file in a directory of one of these names, or below it.  The name of a directory
\* that cannot be listed is never looked at, only those above it.
Below(entry, names) ==
    \E k \in DOMAIN entry.dir :
        /\ entry.state = "unlisted" => k < Len(entry.dir)
        /\ entry.dir[k] \in {<<n>> : n \in names}

\* filepath.SkipDir, returned for a file, skips the rest of the directory of the file.
Skipped(i) ==
    \E j \in 1..i : /\ tree[j].name = "vendored" \/ Below(tree[j], {"vendor", "node_modules"})
                    /\ tree[j].state # "unlisted"
                    /\ IsPrefix(tree[j].dir, tree[i].dir)

Count(language) ==
    Cardinality({i \in DOMAIN tree :
        tree[i].kind = language /\ tree[i].state # "unlisted" /\ ~Skipped(i)})

\* detectLanguage: the first in this order that no other outnumbers.
Dominant ==
    LET order == <<"go", "js", "python", "java">>
        most  == {i \in 1..4 : \A j \in 1..4 : Count(order[j]) <= Count(order[i])}
    IN  order[Min(most)]

\* The directories that the walk for the imports of a language does not enter.
Unvisited(language) ==
    CASE language = "go"     -> {"vendor"}
      [] language = "js"     -> {"vendor", "node_modules", ".git"}
      [] language = "python" -> {"vendor", "node_modules", ".git", "__pycache__"}
      [] language = "java"   -> {"vendor", "node_modules", ".git", "target", "build"}

Relative(path) == Head(Head(path)) = ""

\* Whether an import is of the language's own library, and left out of the graph.
IsStdLibImport(path) == ~Relative(path) /\ Len(Head(path)) = 1

IsJSStdLibImport(path) ==
    \/ Len(path) >= 2 /\ path[1] = <<"@types">> /\ path[2] = <<"node">>
    \/ ~Relative(path) /\ Head(path) \in {<<n>> : n \in NodeBuiltins}

IsPythonStdLibImport(path) == ~Relative(path) /\ Head(Head(path)) \in PythonBuiltins

\* The table also has names of two parts, which are never found: only the first is looked
\* up.
IsJavaStdLibImport(path) == <<Head(Head(path))>> \in JavaPackages

StdLib(language, path) ==
    CASE language = "go"     -> IsStdLibImport(path)
      [] language = "js"     -> IsJSStdLibImport(path)
      [] language = "python" -> IsPythonStdLibImport(path)
      [] language = "java"   -> IsJavaStdLibImport(path)

\* The import paths in a line, in the order in which they are looked for.
Found(language, line) ==
    LET wanted(path) == IF path # NoPath /\ ~StdLib(language, path) THEN <<path>> ELSE <<>>
    IN  IF line.comment THEN <<>>
        ELSE IF language = "js" THEN wanted(line.import) \o wanted(line.require)
        ELSE wanted(line.import)

\* The package of a file in the root of the directory is called ".".
Package(entry) == IF entry.dir = <<>> THEN <<<<"", "">>>> ELSE entry.dir

\* The edges of the i-th entry.
Extract(language, i) ==
    FlattenSeq([k \in DOMAIN tree[i].lines |->
        LET paths == Found(language, tree[i].lines[k])
        IN  [n \in DOMAIN paths |-> [file |-> i, pkg |-> Package(tree[i]),
                                     import |-> paths[n], line |-> k]]])

\* The file is of the language, can be read and parsed, and, in Go, is not a test.
Parsed(language, entry) ==
    /\ entry.kind = language
    /\ entry.state = "ok"
    /\ ~(language = "go" /\ entry.name = "test")

-----------------------------------------------------------------------------
(* Handle.                                                                 *)

ArchTypeOK ==
    /\ rules \in {DefaultRules} \cup RuleFiles
    /\ Range(tree) \subseteq Entries /\ Len(tree) <= MaxEntries
    /\ overdue \in BOOLEAN /\ truncated \in BOOLEAN
    /\ phase \in {"detect", "walk", "walked", "judged", "answered", "failed"}
    /\ lang \in Languages
    /\ pos \in 1..MaxEntries+1
    /\ \A k \in DOMAIN edges : edges[k].file \in DOMAIN tree
    /\ \A p \in DOMAIN graph : \E i \in DOMAIN tree : Package(tree[i]) = p
    /\ \A k \in DOMAIN violations : violations[k][2] \in DOMAIN rules

ArchInit ==
    /\ rules \in {DefaultRules} \cup RuleFiles
    /\ tree = <<>>
    /\ overdue = FALSE
    /\ phase = "detect"
    /\ lang = "go"
    /\ pos = 1
    /\ edges = <<>>
    /\ graph = [p \in {} |-> <<>>]
    /\ violations = <<>>
    /\ truncated = FALSE

\* The rules file cannot be read or parsed.
LoadRulesFails ==
    /\ phase = "detect" /\ tree = <<>>
    /\ phase' = "failed"
    /\ UNCHANGED <<rules, tree, overdue, lang, pos, edges, graph, violations, truncated>>

\* A directory that the walk has left it does not enter again, and one that cannot be
\* listed is met once.
Follows(entry) ==
    \A n \in 1..Len(entry.dir) :
        LET under == {i \in DOMAIN tree : IsPrefix(SubSeq(entry.dir, 1, n), tree[i].dir)}
        IN  under # {} => /\ Len(tree) \in under
                          /\ \A i \in under : tree[i].state # "unlisted"
                          /\ n = Len(entry.dir) => entry.state # "unlisted"

\* The walk of detectLanguage, which knows no deadline, meets the next entry.
Meet(entry) ==
    /\ phase = "detect" /\ Len(tree) < MaxEntries
    /\ Follows(entry)
    /\ tree' = Append(tree, entry)
    /\ UNCHANGED <<rules, overdue, phase, lang, pos, edges, graph, violations, truncated>>

Detect ==
    /\ phase = "detect"
    /\ lang' = Dominant
    /\ phase' = "walk"
    /\ UNCHANGED <<rules, tree, overdue, pos, edges, graph, violations, truncated>>

\* The context is done: filepath.SkipAll.
Cut ==
    /\ phase = "walk" /\ pos <= Len(tree) /\ overdue
    /\ phase' = "walked"
    /\ UNCHANGED <<rules, tree, overdue, lang, pos, edges, graph, violations, truncated>>

Visiting == phase = "walk" /\ pos <= Len(tree) /\ ~overdue

\* A directory that cannot be listed ends the analysis, even if the deadline has passed.
WalkFails ==
    /\ phase = "walk" /\ pos <= Len(tree)
    /\ tree[pos].state = "unlisted" /\ ~Below(tree[pos], Unvisited(lang))
    /\ phase' = "failed"
    /\ UNCHANGED <<rules, tree, overdue, lang, pos, edges, graph, violations, truncated>>

\* A variant that, for a file to pass over, skips the rest of its directory, as
\* detectLanguage does.
Pass_SkipsDirectory ==
    /\ Visiting
    /\ \/ Below(tree[pos], Unvisited(lang))
       \/ tree[pos].state # "unlisted" /\ ~Parsed(lang, tree[pos])
    /\ pos' = Min({i \in pos+1..Len(tree)+1 :
                      i > Len(tree) \/ ~IsPrefix(tree[pos].dir, tree[i].dir)})
    /\ UNCHANGED <<rules, tree, overdue, phase, lang, edges, graph, violations, truncated>>

\* An entry in a directory that is not entered, or a file that is not parsed.
Pass ==
    /\ Visiting
    /\ \/ Below(tree[pos], Unvisited(lang))
       \/ tree[pos].state # "unlisted" /\ ~Parsed(lang, tree[pos])
    /\ pos' = pos + 1
    /\ UNCHANGED <<rules, tree, overdue, phase, lang, edges, graph, violations, truncated>>

\* A list of imports with others behind it, each of them once.
Extended(list, imports) ==
    LET upTo[n \in 0..Len(imports)] ==
            IF n = 0 THEN list
            ELSE IF Contains(upTo[n-1], imports[n]) THEN upTo[n-1]
            ELSE Append(upTo[n-1], imports[n])
    IN  upTo[Len(imports)]

\* A variant that starts the list of a package anew for every file.
AddTo_Restarts(g, pkg, imports) ==
    [p \in DOMAIN g \cup {pkg} |-> IF p = pkg THEN Extended(<<>>, imports) ELSE g[p]]

\* The package is in the graph even if it imports nothing; an import is listed once.
AddTo(g, pkg, imports) ==
    [p \in DOMAIN g \cup {pkg} |->
        IF p # pkg THEN g[p]
        ELSE Extended(IF pkg \in DOMAIN g THEN g[pkg] ELSE <<>>, imports)]

Parse ==
    /\ Visiting
    /\ ~Below(tree[pos], Unvisited(lang)) /\ Parsed(lang, tree[pos])
    /\ LET found == Extract(lang, pos)
       IN  /\ edges' = edges \o found
           /\ graph' = AddTo(graph, Package(tree[pos]),
                             [k \in DOMAIN found |-> found[k].import])
    /\ pos' = pos + 1
    /\ UNCHANGED <<rules, tree, overdue, phase, lang, violations, truncated>>

Walked ==
    /\ phase = "walk" /\ pos > Len(tree)
    /\ phase' = "walked"
    /\ UNCHANGED <<rules, tree, overdue, lang, pos, edges, graph, violations, truncated>>

Judge ==
    /\ phase = "walked"
    /\ violations' = Evaluate(edges)
    /\ phase' = "judged"
    /\ UNCHANGED <<rules, tree, overdue, lang, pos, edges, graph, truncated>>

\* Background enrichment is started in between; see Enrichment.
Answer ==
    /\ phase = "judged"
    /\ truncated' = overdue
    /\ phase' = "answered"
    /\ UNCHANGED <<rules, tree, overdue, lang, pos, edges, graph, violations>>

\* scanTimeout is over, or the caller's context is done.
ArchExpire ==
    /\ phase \notin {"answered", "failed"} /\ ~overdue
    /\ overdue' = TRUE
    /\ UNCHANGED <<rules, tree, phase, lang, pos, edges, graph, violations, truncated>>

ArchNext ==
    \/ LoadRulesFails \/ \E entry \in Entries : Meet(entry)
    \/ Detect \/ Cut \/ WalkFails \/ Pass \/ Parse \/ Walked \/ Judge \/ Answer
    \/ ArchExpire

ArchSpec == ArchInit /\ [][ArchNext]_archVars

-----------------------------------------------------------------------------
(* Properties.                                                             *)

\* What an analysis without a deadline finds: the imports of every file of the
\* language outside the directories that are not entered.
EdgesOf(i) ==
    IF Parsed(lang, tree[i]) /\ ~Below(tree[i], Unvisited(lang)) THEN Extract(lang, i) ELSE <<>>

AllEdges == FlattenSeq([i \in DOMAIN tree |-> EdgesOf(i)])

\* The imports that an answer rests on are those of the whole directory, except that
\* the last ones may be missing if, and only if the answer may say so, the deadline
\* passed: no file in the middle is lost, and nothing is missing without the note
\* "analysis truncated: scan deadline exceeded".
CompleteUnlessTruncated ==
    phase = "answered" => IsPrefix(edges, AllEdges) /\ (edges = AllEdges \/ truncated)

\* The import graph that the walk builds beside the edges agrees with them whenever
\* it stops: every package lists exactly what its files import, and lists it once.
GraphAgreesWithEdges ==
    /\ \A k \in DOMAIN edges : edges[k].pkg \in DOMAIN graph
    /\ \A p \in DOMAIN graph :
          /\ IsInjective(graph[p])
          /\ Range(graph[p]) = {edges[k].import : k \in {j \in DOMAIN edges : edges[j].pkg = p}}

\* The meaning of a pattern: the path can be cut into pieces, one for each part of the
\* pattern, of any length for ** and of one matching segment for the others.
Denotes(pattern, path) ==
    \E cut \in [1..Len(pattern)+1 -> 0..Len(path)] :
        /\ cut[1] = 0 /\ cut[Len(pattern)+1] = Len(path)
        /\ \A p \in DOMAIN pattern :
              IF pattern[p] = Stars THEN cut[p] <= cut[p+1]
              ELSE cut[p+1] = cut[p] + 1 /\ SegmentMatches(pattern[p], path[cut[p+1]])

\* What the property test of Evaluate and the loop over the rules say: an edge is reported
\* exactly if "the first rule matching that edge is a deny rule", whatever the patterns;
\* "once a deny rule matches, record violation and stop", "allow rule matches: skip this
\* edge".  So the order of the rules decides, where the requirements say that it does not;
\* see AllowOverridesDeny.
ViolationsFollowRules ==
    LET speaks(i, edge) == Denotes(rules[i].from, edge.pkg) /\ Denotes(rules[i].to, edge.import)
        due == {q \in (DOMAIN edges) \X (DOMAIN rules) :
                   /\ ~rules[q[2]].allow /\ speaks(q[2], edges[q[1]])
                   /\ \A j \in 1..q[2]-1 : ~speaks(j, edges[q[1]])}
    IN  phase \in {"judged", "answered"} =>
            /\ Range(violations) = {<<edges[q[1]], q[2]>> : q \in due}
            /\ Len(violations) = Cardinality(due)

\* What the requirements say, and the comment on Evaluate: "allow rules override deny
\* rules for the same edge", wherever they stand in the file.  The code does so only for
\* those that stand before the rule that denies.
AllowOverridesDeny ==
    \A k \in DOMAIN violations, i \in DOMAIN rules :
        rules[i].allow => ~(/\ Denotes(rules[i].from, violations[k][1].pkg)
                            /\ Denotes(rules[i].to, violations[k][1].import))

=============================================================================
