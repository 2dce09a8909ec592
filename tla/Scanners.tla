-------------------------------- MODULE Scanners ------------------------------
(***************************************************************************)
(* One call of a tool that reads a text or a directory, from its being     *)
(* written, line by line, to the answer of the handler.                    *)
(*                                                                         *)
(* finops, piiguard, lambdaguard and iamguard answer in one step, unless   *)
(* a deadline passes.  vulnscanner queries a database in between.          *)
(* envguard, if it has a migrator, stores the secrets it has found with    *)
(* AWS in goroutines, whose number is limited, which wait for a limiter,   *)
(* and which end early if the context of the request is done.              *)
(***************************************************************************)
EXTENDS FinOpsDetector, DiffScanner, VulnScan, PIIScanner, LambdaGuard, IAMGuard

CONSTANTS
    Inputs,        \* for each tool, what a request has besides its text, together with
                   \* the lines of the text, and the bound maxLines on their number
    Databases,     \* what the database may know of each name of a package
    WorkerCount,   \* the configured number of goroutines that migrate
    SanitizeName(_, _) \* the name of a secret in AWS, which different files may share

ASSUME ScannersAssumption ==
    /\ WorkerCount \in Nat \ {0}
    /\ MaxPerRequest \in Nat
    /\ \A tool \in DOMAIN Inputs : \A i \in Inputs[tool] : i.maxLines \in Nat
    /\ \A database \in Databases : IsDatabase(database)
    /\ None \notin Seq(Secrets)

\* The names of files stand for their order, in which directories are walked.
ASSUME InputsAssumption ==
    \A tool \in DOMAIN Inputs : \A i \in Inputs[tool] : \A line \in i.lines :
        /\ tool = "finops" => IsCodeLine(Language(i.extension, i.words), line)
        /\ tool = "envguard" => IsDiffLine(line)
        /\ tool = "vulnscanner" => IsManifestLine(i.ecosystem, line)
        /\ tool = "piiguard" => IsTreeLine(line)
        /\ tool = "lambdaguard" /\ line.kind = "file" => line.format \in Formats
        /\ tool \in {"piiguard", "lambdaguard", "iamguard"} /\ line.kind = "file" =>
              line.name \in Nat

VARIABLES
    tool, input, source,   \* the request
    work,                  \* what the handler is at: its findings or dependencies
    stage,                 \* where the migration of each finding is
    stored,                \* the names that AWS has a secret for, and of which finding
    expired,               \* the context of the request is done
    answer

vars == <<tool, input, source, work, stage, stored, expired, answer>>

\* The names of the secrets in AWS, made of the file and the type.
Name(finding) == SanitizeName(finding.file, finding.type)

Working   == {"limiter", "calling"}
Unmigrated == {"failed", "throttled"}
Stages    == {"waiting", "migrated"} \cup Working \cup Unmigrated

InStage(stages) == {n \in DOMAIN stage : stage[n] \in stages}

TypeOK ==
    /\ tool \in DOMAIN Inputs
    /\ input \in Inputs[tool]
    /\ source \in Seq(input.lines) /\ Len(source) <= input.maxLines
    /\ stage # <<>> => tool = "envguard" /\ stage \in [DOMAIN work -> Stages]
    /\ \A name \in DOMAIN stored : stored[name] \in DOMAIN work
    /\ expired \in BOOLEAN

Init ==
    /\ tool \in DOMAIN Inputs
    /\ input \in Inputs[tool]
    /\ source = <<>> /\ work = None /\ stage = <<>> /\ stored = <<>>
    /\ expired = FALSE /\ answer = None

\* The lines that may follow in a text of its kind: those of a file in a diff begin with
\* a header and those of a hunk with its place; the modules in go.mod are in blocks.
MayFollow(line) ==
    LET last == IF source = <<>> THEN "none" ELSE source[Len(source)].kind
        inBlock == LastOf(source, Len(source), "open") > LastOf(source, Len(source), "close")
        inOther == LastOf(source, Len(source), "other") > LastOf(source, Len(source), "close")
    IN  CASE tool = "finops" -> TRUE
          [] tool \in {"piiguard", "lambdaguard", "iamguard"} ->
                IF line.kind = "file"
                THEN \A k \in Files(source) : source[k].name < line.name
                ELSE source # <<>>
          [] tool = "envguard" ->
                CASE line.kind = "header" -> last \in {"none", "old header"}
                  [] line.kind = "hunk"   -> last \notin {"none", "old header"}
                  [] line.kind = "old header" -> last \notin {"none", "header", "old header"}
                  [] line.kind = "marker" -> last \in {"added", "removed", "context"}
                  [] OTHER -> last \notin {"none", "header", "old header"}
          [] tool = "vulnscanner" ->
                CASE line.kind = "module" /\ input.ecosystem = "go" -> inBlock \/ inOther
                  [] line.kind \in {"open", "other", "require", "verb"} -> ~inBlock /\ ~inOther
                  [] line.kind = "close" -> inBlock \/ inOther
                  [] OTHER -> TRUE

Write(line) ==
    /\ work = None /\ answer = None /\ Len(source) < input.maxLines
    /\ MayFollow(line)
    /\ source' = Append(source, line)
    /\ UNCHANGED <<tool, input, work, stage, stored, expired, answer>>

-----------------------------------------------------------------------------
(* The handlers of finops, piiguard, lambdaguard, iamguard, vulnscanner.   *)

AnalyzeCosts ==
    /\ tool = "finops" /\ answer = None
    /\ answer' = HandleFinOps(Language(input.extension, input.words), source, input.requests)
    /\ UNCHANGED <<tool, input, source, work, stage, stored, expired>>

\* The directory is scanned, unless that panics.
ScanDirectory ==
    /\ tool = "piiguard" /\ answer = None
    /\ answer' = HandlePIIGuard(source, input.names, input.entropyCheck, input.threshold)
    /\ UNCHANGED <<tool, input, source, work, stage, stored, expired>>

\* The functions of the directory are analyzed.
AnalyzeFunctions ==
    /\ tool = "lambdaguard" /\ answer = None
    /\ answer' = HandleLambdaGuard(source, input.checks, input.threshold)
    /\ UNCHANGED <<tool, input, source, work, stage, stored, expired>>

AnalyzeAccess ==
    /\ tool = "iamguard" /\ answer = None
    /\ answer' = HandleIAMGuard(source)
    /\ UNCHANGED <<tool, input, source, work, stage, stored, expired>>

\* The deadline of a scan passes: what has been found is lost.
ScanTimesOut ==
    /\ tool \in {"piiguard", "lambdaguard"} /\ answer = None /\ source # <<>>
    /\ answer' = [error |-> TRUE, findings |-> <<>>]
    /\ UNCHANGED <<tool, input, source, work, stage, stored, expired>>

\* The manifest is parsed; an empty one is an error.
ReadManifest ==
    /\ tool = "vulnscanner" /\ work = None /\ source # <<>>
    /\ work' = ParseManifest(input.ecosystem, source)
    /\ UNCHANGED <<tool, input, source, stage, stored, expired, answer>>

\* The query succeeds.  The vulnerabilities of a name that occurs twice are those of
\* one of the two; names are iterated over in any order.
QueryAnswers(database, order) ==
    /\ tool = "vulnscanner" /\ work # None /\ answer = None
    /\ LET found == [n \in DOMAIN order |->
                        [v \in DOMAIN database[order[n]] |->
                            MapToFinding(order[n], database[order[n]][v])]]
       IN  answer' = HandleVulnScan(work, FlattenSeq(found), FALSE)
    /\ UNCHANGED <<tool, input, source, work, stage, stored, expired>>

\* The query fails: an answer without findings.
QueryFails ==
    /\ tool = "vulnscanner" /\ work # None /\ work # <<>> /\ answer = None
    /\ answer' = HandleVulnScan(work, <<>>, TRUE)
    /\ UNCHANGED <<tool, input, source, work, stage, stored, expired>>

Affected(database) == {work[d].name : d \in DOMAIN work} \cap
                      {name \in DOMAIN database : database[name] # <<>>}

-----------------------------------------------------------------------------
(* The handler of envguard, with migrateAll and Migrate.                   *)

\* The diff is scanned; without a migrator, or findings, that is the answer.
ScanDiff ==
    /\ tool = "envguard" /\ work = None /\ source # <<>>
    /\ LET scanned == HandleEnvGuard(source, input.ignored)
       IN  /\ work' = scanned.findings
           /\ IF input.migrates /\ scanned.blocked
              THEN /\ stage' = [n \in DOMAIN scanned.findings |-> "waiting"]
                   /\ UNCHANGED answer
              ELSE /\ answer' = scanned
                   /\ UNCHANGED stage
    /\ UNCHANGED <<tool, input, source, stored, expired>>

\* errgroup.Go, for one finding after the other, waits while the group is at its limit.
Go(n) ==
    /\ n \in InStage({"waiting"}) /\ \A o \in InStage({"waiting"}) : n <= o
    /\ Cardinality(InStage(Working)) < WorkerCount
    /\ stage' = [stage EXCEPT ![n] = "limiter"]
    /\ UNCHANGED <<tool, input, source, work, stored, expired, answer>>

Admit(n) ==
    /\ n \in InStage({"limiter"})
    /\ stage' = [stage EXCEPT ![n] = "calling"]
    /\ UNCHANGED <<tool, input, source, work, stored, expired, answer>>

\* The limiter's Wait fails: this is the only failure that no counter counts.
Throttle(n) ==
    /\ n \in InStage({"limiter"}) /\ expired
    /\ stage' = [stage EXCEPT ![n] = "throttled"]
    /\ UNCHANGED <<tool, input, source, work, stored, expired, answer>>

\* What AWS has when the secret of a finding is stored.
Store(n) == [name \in DOMAIN stored \cup {Name(work[n])} |->
                IF name = Name(work[n]) THEN n ELSE stored[name]]

\* A variant that overwrites a secret which has the name already.
Create_Overwrites(n) ==
    /\ n \in InStage({"calling"})
    /\ stored' = Store(n)
    /\ stage' = [stage EXCEPT ![n] = "migrated"]
    /\ UNCHANGED <<tool, input, source, work, expired, answer>>

\* AWS creates a secret under a name that it does not have.
Create(n) ==
    /\ n \in InStage({"calling"}) /\ Name(work[n]) \notin DOMAIN stored
    /\ stored' = Store(n)
    /\ stage' = [stage EXCEPT ![n] = "migrated"]
    /\ UNCHANGED <<tool, input, source, work, expired, answer>>

\* It fails, because it has the name, because of an error, or because the time is up;
\* then it may have created the secret nevertheless.
CreateFails(n) ==
    /\ n \in InStage({"calling"})
    /\ \/ UNCHANGED stored
       \/ /\ Name(work[n]) \notin DOMAIN stored
          /\ stored' = Store(n)
    /\ stage' = [stage EXCEPT ![n] = "failed"]
    /\ UNCHANGED <<tool, input, source, work, expired, answer>>

\* The client of the request goes, or the program ends.
Expire ==
    /\ stage # <<>> /\ answer = None /\ ~expired
    /\ expired' = TRUE
    /\ UNCHANGED <<tool, input, source, work, stage, stored, answer>>

\* The group is done.
Migrated ==
    /\ stage # <<>> /\ answer = None
    /\ InStage({"waiting"} \cup Working) = {}
    /\ answer' = [blocked |-> TRUE, findings |-> work]
    /\ UNCHANGED <<tool, input, source, work, stage, stored, expired>>

Next ==
    \/ \E line \in input.lines : Write(line)
    \/ AnalyzeCosts
    \/ ScanDirectory
    \/ AnalyzeFunctions
    \/ AnalyzeAccess
    \/ ScanTimesOut
    \/ ReadManifest
    \/ \E database \in Databases :
          /\ tool = "vulnscanner" /\ work # None
          /\ \E order \in SetToSeqs(Affected(database)) : QueryAnswers(database, order)
    \/ QueryFails
    \/ ScanDiff
    \/ \E n \in DOMAIN stage : Go(n) \/ Admit(n) \/ Throttle(n) \/ Create(n) \/ CreateFails(n)
    \/ Expire
    \/ Migrated

Spec == Init /\ [][Next]_vars

-----------------------------------------------------------------------------
(* Properties.                                                             *)

\* The detectors, which do not keep the blocks they are in (but for Go), report a
\* database call as often as it is in a loop of the text, unless they have been led astray
\* before in one of the ways that Mistaken names, and every scan of a text that has no
\* limit anywhere.
LoopCallsReported ==
    tool = "finops" /\ answer # None /\ ~answer.error =>
        LET language == Language(input.extension, input.words)
            reported(type, k) ==
                Cardinality({n \in DOMAIN answer.findings :
                    answer.findings[n].type = type /\ answer.findings[n].line = k})
        IN  /\ \A k \in DOMAIN source :
                ~Mistaken(language, source, k) =>
                    reported("n_plus_1_query", k) =
                        (IF "db" \in source[k].marks THEN LoopReports(language, source, k) ELSE 0)
            /\ Marked(source, 1, Len(source), "limit") = {} =>
                \A k \in Marked(source, 1, Len(source), "scan") :
                    reported("unpaginated_scan", k) = 1

\* What a diff adds to a file is reported with the number its line has there, however
\* many hunks, files, removed lines and lines of context come before, unless Scan has
\* been misled; if nothing misleads it then nothing else is reported.
SecretsLocated ==
    tool = "envguard" /\ answer # None =>
        LET fileOf(k) == source[LastOf(source, k, "header")].file
            secrets == {k \in DOMAIN source : source[k].kind = "added" /\ source[k].secrets # <<>>}
            places(k) == {[line |-> TrueLine(source, k), file |-> fileOf(k),
                           type |-> source[k].secrets[n]] : n \in DOMAIN source[k].secrets}
            wanted == {f \in UNION {places(k) : k \in {j \in secrets : ~Misled(source, j)}} :
                          f.file \notin input.ignored /\ f.type \notin input.ignored}
        IN  /\ wanted \subseteq Range(answer.findings)
            /\ (\A k \in secrets : ~Misled(source, k)) => Range(answer.findings) = wanted

\* The leaks, one for each line and type: those of the patterns that were asked for, or
\* else a literal of high entropy.  Not among them are those on a line that begins like a
\* comment, whether it is one or not, and on what follows a line that is too long.
VisibleLeaks ==
    LET asked == {p \in Range(BuiltinPatterns) : input.names = {} \/ p.name \in input.names}
        plain(k) == /\ source[k].kind = "text"
                    /\ source[FileOf(source, k)].traits = {}
                    /\ \A j \in FileOf(source, k)..k : source[j].kind # "long"
        real(m) == m.type = "credit_card" => LuhnCheck(m.digits)
        matched(k) == {p \in asked : \E m \in Range(source[k].matches) : m.type = p.name /\ real(m)}
        literal(k) == matched(k) = {} /\ input.entropyCheck
                      /\ \E l \in Range(source[k].literals) : l.high
        leaks(k) == IF literal(k) THEN {[name |-> "high_entropy_string", severity |-> "medium"]}
                    ELSE matched(k)
        place(k, p) == [file |-> source[FileOf(source, k)].name, line |-> k - FileOf(source, k),
                        type |-> p.name, severity |-> p.severity]
        wanted == UNION {{place(k, p) : p \in leaks(k)} :
                            k \in {j \in DOMAIN source \ Files(source) : plain(j)}}
    IN  {f \in wanted : Level(f.severity) >= Level(input.threshold)}

\* The findings are, each once, the leaks on the lines that do not begin like a comment,
\* up to one that is too long, whatever else is on the line and in the directory; so a line
\* with a leak does not go unreported because fewer patterns were asked for.  A line that
\* begins like a comment has no finding at all: the header of a private key is not found if
\* its line begins with it, nor is an address in a comment.
LeaksReported ==
    tool = "piiguard" /\ answer # None /\ ~answer.error =>
        /\ Range(answer.findings) = VisibleLeaks
        /\ Len(answer.findings) = Cardinality(VisibleLeaks)

\* What a tool attributes to a name is what the name stands for.  In Terraform a function
\* has its own attributes, the timeout 0 standing for the default, unless it has nested
\* blocks, attributes with longer names, or namesakes.  In Go the action of a call is
\* that of the service whose client is in the variable, unless the file has a variable of
\* this name for another service; every call is listed once, and counted in its action.
NamesResolved ==
    tool \in {"lambdaguard", "iamguard"} /\ answer # None /\ ~answer.error =>
        /\ tool = "lambdaguard" =>
            \A f \in Files(source), n \in DOMAIN answer.functions :
                source[f].format = "terraform" /\ answer.functions[n].file = source[f].name =>
                    LET resources == {k \in LinesOf(source, f) : source[k].kind = "resource"}
                        own == {k \in resources : answer.functions[n].name \in source[k].endings}
                        after(k) == {j \in LinesOf(source, f) : j > k}
                        end(k) == Min({j \in after(k) : source[j].kind \in {"close", "open"}}
                                      \cup {Len(source) + 1})
                        given(k) == {j \in after(k) : j < end(k) /\ source[j].kind = "attribute"}
                        simple(k) == /\ end(k) \in DOMAIN source => source[end(k)].kind = "close"
                                     /\ \A j \in given(k) : source[j].exact
                        timeouts(k) == {j \in given(k) : Gives(source[j], "timeout")
                                                      /\ source[j].gives.timeout # None}
                        timeout(k) == IF timeouts(k) = {} \/ source[Max(timeouts(k))].gives.timeout = 0
                                      THEN 3 ELSE source[Max(timeouts(k))].gives.timeout
                    IN  \A k \in own : own = {k} /\ simple(k) =>
                            answer.functions[n].timeout = timeout(k)
        /\ tool = "iamguard" =>
            LET imported(f) == {k \in LinesOf(source, f) : source[k].kind = "import" /\ source[k].aws}
                serviceOf(f, package) ==
                    {source[k].service : k \in {j \in imported(f) : source[j].name = package}}
                services(k) ==
                    UNION {serviceOf(FileOf(source, k), source[c].package) :
                        c \in {j \in LinesOf(source, FileOf(source, k)) :
                                  source[j].kind = "client" /\ source[j].name = source[k].name}}
                calls == {k \in DOMAIN source : source[k].kind = "call"}
                listed(k) == {n \in DOMAIN answer.usages :
                                answer.usages[n].file = source[FileOf(source, k)].name
                                /\ answer.usages[n].line = k - FileOf(source, k)}
                read(f) == source[f].format = "go" /\ source[f].traits = {}
            IN  /\ \A k \in calls : read(FileOf(source, k)) =>
                      /\ Cardinality(listed(k)) = (IF services(k) = {} THEN 0 ELSE 1)
                      /\ Cardinality(services(k)) = 1 =>
                            \A n \in listed(k), s \in services(k) :
                                answer.usages[n].action = <<s, source[k].method>>
                /\ \A n \in DOMAIN answer.actions :
                      answer.actions[n].count =
                          Cardinality({u \in DOMAIN answer.usages :
                                          answer.usages[u].action = answer.actions[n].action})
                /\ {answer.actions[n].action : n \in DOMAIN answer.actions}
                      = {answer.usages[u].action : u \in DOMAIN answer.usages}

\* The dependencies of a manifest are read out of whatever else is in it: in go.mod what
\* is required, on a line of its own or in a block, in that order; in requirements.txt
\* every package; in a lock file every package that is installed.
RequirementsRead ==
    tool = "vulnscanner" /\ work # None =>
        LET blockOf(k) == Max({0} \cup {j \in 1..k : source[j].kind \in {"open", "other", "close"}})
            required(k) == \/ source[k].kind = "require"
                           \/ /\ source[k].kind = "module"
                              /\ input.ecosystem = "go" => source[blockOf(k)].kind = "open"
                           \/ source[k].kind = "packages" /\ source[k].installed
            wanted == {k \in DOMAIN source : required(k)}
        IN  /\ input.ecosystem # "npm" =>
                /\ Len(work) = Cardinality(wanted)
                /\ \A k \in wanted : work[Rank(wanted, k)] = source[k].dep
            /\ input.ecosystem = "npm" =>
                \A k \in wanted : source[k].dep.version # "" => source[k].dep \in Range(work)

\* The parts of an answer agree whatever the order in which the map of vulnerabilities
\* was iterated over: every vulnerability that the database knows of a dependency is a
\* finding once, and none that goes to the background is less severe than one that
\* does not.
WorstEnriched ==
    tool = "vulnscanner" /\ answer # None =>
        LET all == Range(answer.findings)
            top == Range(answer.enriched)
            known(database) == UNION {{<<name, vuln.id>> : vuln \in Range(database[name])} :
                                         name \in Affected(database)}
        IN  /\ answer.scanError => answer.findings = <<>>
            /\ Cardinality(all) = Len(answer.findings)
            /\ answer.scanError \/ \E database \in Databases :
                  known(database) = {<<f.package, f.id>> : f \in all}
            /\ \A f \in top, g \in all \ top : f.severity >= g.severity

\* A finding that is answered as migrated names the place of its own secret: of the
\* findings with one name at most one is migrated, and AWS has its secret.
MigratedSecretIsItsOwn ==
    \A n \in InStage({"migrated"}) :
        Name(work[n]) \in DOMAIN stored /\ stored[Name(work[n])] = n

=============================================================================
