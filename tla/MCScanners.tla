------------------------------ MODULE MCScanners ------------------------------
(* Requests of the tools, with texts and directories of a few lines. *)
EXTENDS Scanners

Mark(marks) == [marks |-> marks, indent |-> 0, kind |-> "code"]
Indented(indent, marks) == [marks |-> marks, indent |-> indent, kind |-> "code"]

LoopHead == {"loop", "body"}
Brace == {"close", "ends"}

JSLines == {Mark(m) : m \in {LoopHead, {"open"}, Brace, Brace \cup {"open"}, {"db"},
                             {"loop", "single", "db"}, Brace \cup {"loop"},
                             {"scan"}, {"limit"}, {"end"}}}
\* Among others a loop that is no statement, do, and a block that ends behind something.
JavaLines == {Mark(m) : m \in {LoopHead, {"open"}, Brace, Brace \cup {"open"}, {"db"},
                               {"loop", "single"}, {"single", "db"}, {"body"}, {"ends"}}}
\* Among others a comment or a string that looks like a loop, and async for.
PyLines == {Indented(i, m) : i \in {0, 1, 2}, m \in {LoopHead, {"db"}}}
           \cup {Indented(0, {"idle"}), Indented(2, {"idle"}), Indented(1, {"scan"}),
                 Indented(1, {"loop", "idle"}), Indented(1, {"body"})}
GoLines == {Mark(m) : m \in {{"loop"}, {"close"}, {"db"}, {"db", "scan"}, {"scan", "limit"},
                             {"lambda"}, {"lambda", "memory"}}}

CostInput(extension, words, requests, lines) ==
    [extension |-> extension, words |-> words, requests |-> requests, lines |-> lines,
     maxLines |-> 5]

CostInputs ==
    {CostInput("js", {}, 0, JSLines),
     CostInput("go", {}, 2, GoLines),
     CostInput("none", {"package", "func"}, 0, GoLines \ {Mark({"db", "scan"})}),
     CostInput("none", {"def", "from"}, 0, PyLines),
     CostInput("none", {"public class"}, 2, JavaLines)}

Diff(kind) == [kind |-> kind]
Header(file) == [kind |-> "header", file |-> file]
Hunk(start) == [kind |-> "hunk", start |-> start]
Added(text, secrets) == [kind |-> "added", file |-> "none", text |-> text, secrets |-> secrets]
Removed(text) == [kind |-> "removed", text |-> text]

FileLines == {Header("a"), Header("b"), Diff("old header"), Hunk(5),
              Added("", <<>>), Added("", <<"key">>), Removed(""), Diff("context")}

Tricky == {Added("++ b/", <<>>), Removed("--"), Diff("marker")}

DiffInput(ignored, migrates, maxLines, lines) ==
    [lines |-> lines, maxLines |-> maxLines, ignored |-> ignored,
     migrates |-> migrates]

DiffInputs ==
    {DiffInput({}, FALSE, 7, FileLines \cup Tricky),
     DiffInput({"b", "url"}, FALSE, 7, (FileLines \ {Added("", <<"key">>)})
                                       \cup {Hunk(1), Added("", <<"key", "url">>)}),
     DiffInput({}, TRUE, 4, {Header("a"), Hunk(1), Added("", <<"key">>), Added("", <<"key", "url">>)}),
     DiffInput({}, TRUE, 7, {Header("a.b"), Header("a-b"), Diff("old header"), Hunk(1),
                             Added("", <<"key">>)})}

\* Every character but letters, digits and hyphens becomes a hyphen.
MCSanitizeName(file, type) == <<IF file = "a.b" THEN "a-b" ELSE file, type>>

Line(kind) == [kind |-> kind]
Dep(kind, name, version) == [kind |-> kind, dep |-> Dependency(name, version)]
Member(section, shape, name, version, installed) ==
    [kind |-> section, dep |-> Dependency(name, version), shape |-> shape, installed |-> installed]

ManifestInput(ecosystem, lines) == [lines |-> lines, maxLines |-> 4, ecosystem |-> ecosystem]

ManifestInputs ==
    {ManifestInput("go", {Line("note"), Line("verb"), Line("open"), Line("other"), Line("close"),
                          Dep("require", "p", "1"), Dep("module", "q", "1")}),
     ManifestInput("pip", {Line("note"), Dep("module", "p", ""), Dep("module", "q", "2")}),
     ManifestInput("npm", {Member("dependencies", "string", "p", "1", FALSE),
                           Member("dependencies", "object", "q", "1", FALSE),
                           Member("devDependencies", "string", "q", "2", FALSE),
                           Member("packages", "object", "root", "1", FALSE),
                           Member("packages", "object", "p", "2", TRUE),
                           Member("packages", "object", "q", "", TRUE)})}

File(name, traits) == [kind |-> "file", name |-> name, traits |-> traits]
TextOf(kind, runes, matches, literals) ==
    [kind |-> kind, runes |-> runes, matches |-> matches, literals |-> literals]
Text(runes, matches, literals) == TextOf("text", runes, matches, literals)
Match(type, at, digits) == [type |-> type, at |-> at, digits |-> digits, to |-> at + 2]
Literal(high) == [at |-> 1, to |-> 4, high |-> high]

TreeLines ==
    {File(1, {}), File(2, {}), File(2, {"test", "large"}), File(2, {"empty", "unsupported"}),
     TextOf("comment", 9, <<Match("key", 1, <<>>), Match("email", 5, <<>>)>>, <<Literal(TRUE)>>),
     Line("long"),
     Text(9, <<Match("credit_card", 1, <<1, 7>>), Match("email", 5, <<>>),
               Match("credit_card", 6, <<4, 9, 7>>), Match("email", 7, <<>>)>>, <<>>),
     Text(9, <<Match("credit_card", 1, <<7, 1>>)>>, <<Literal(FALSE), Literal(TRUE)>>),
     Text(9, <<Match("email", 5, <<>>)>>, <<Literal(TRUE), Literal(TRUE)>>),
     Text(3, <<Match("email", 6, <<>>)>>, <<>>)}

TreeInput(names, entropyCheck, threshold) ==
    [lines |-> TreeLines, maxLines |-> 4, names |-> names, entropyCheck |-> entropyCheck,
     threshold |-> threshold]

TreeInputs ==
    {TreeInput({}, TRUE, "low"), TreeInput({"credit_card"}, TRUE, "medium"),
     TreeInput({"credit_card", "email"}, FALSE, "high")}

MCPatterns == <<[name |-> "email", severity |-> "low"],
                [name |-> "credit_card", severity |-> "critical"],
                [name |-> "key", severity |-> "critical"]>>

Formatted(name, format, traits) ==
    [kind |-> "file", name |-> name, traits |-> traits, format |-> format]
Resource(name, lambda, endings) ==
    [kind |-> "resource", name |-> name, lambda |-> lambda, endings |-> endings]
Function(id, serverless) == [kind |-> "function", name |-> id, id |-> id, serverless |-> serverless]
Attribute(gives, exact) == [kind |-> "attribute", gives |-> gives, exact |-> exact]
Timeout(value, exact) == Attribute([timeout |-> value], exact)

LambdaInput(checks, threshold, maxLines, lines) ==
    [lines |-> lines, maxLines |-> maxLines, threshold |-> threshold, checks |-> checks]

LambdaInputs ==
    {LambdaInput({}, "low", 6,
        {Formatted(1, "terraform", {}), Resource("a", TRUE, {"a"}), Resource("xa", TRUE, {"a", "xa"}),
         Resource("a", FALSE, {"a"}), Timeout(901, TRUE), Timeout(0, TRUE), Timeout(61, FALSE), Timeout(None, TRUE),
         Line("open"), Line("close")}),
     LambdaInput({"LG-4", "LG-6"}, "medium", 5,
        {Formatted(1, "sam", {}), Formatted(2, "serverless", {}), Formatted(3, "other", {"large"}),
         Function("p", TRUE), Function("q", FALSE), Line("mistyped"),
         Attribute([memory |-> 128], TRUE), Attribute([vpc |-> TRUE], TRUE),
         Attribute([statements |-> <<[actions |-> {"*", "rds"}, resources |-> {"*"}]>>], TRUE),
         Attribute([environment |-> <<{"reference", "PASSWORD"}, {"HIGH_ENTROPY", "API_KEY"}, {}>>],
                   TRUE)}),
     LambdaInput({}, "high", 4,
        {Formatted(1, "cdk", {}), Formatted(2, "other", {}), Line("new"),
         Attribute([handler |-> "h"], TRUE), Attribute([runtime |-> "old"], TRUE)})}

Import(name, service, aws) == [kind |-> "import", name |-> name, service |-> service, aws |-> aws]
Client(name, package) == [kind |-> "client", name |-> name, package |-> package]
Call(name, method) == [kind |-> "call", name |-> name, method |-> method]

AccessInput(maxLines, lines) == [lines |-> lines, maxLines |-> maxLines]

AccessInputs ==
    {AccessInput(6, {Formatted(1, "go", {}), Formatted(2, "go", {}),
                     Import("s3", "s3", TRUE), Import("q", "sqs", TRUE),
                     Client("c", "s3"), Client("c", "q"), Client("s3", "s3"),
                     Call("c", "Get")}),
     AccessInput(4, {Formatted(1, "go", {"test"}), Formatted(1, "iac", {}), Formatted(2, "iac", {"large"}),
                     Import("s3", "s3", FALSE), Client("c", "s3"), Call("c", "Get"),
                     [kind |-> "statement", wild |-> {"Resource", "Action"}],
                     [kind |-> "statement", wild |-> {"Resource"}]})}

MCInputs == [finops |-> CostInputs, envguard |-> DiffInputs, vulnscanner |-> ManifestInputs,
             piiguard |-> TreeInputs,
             lambdaguard |-> LambdaInputs, iamguard |-> AccessInputs]

Number(value) == [value |-> value, form |-> "number"]
Vector(high, medium) == [high |-> high, form |-> "vector", medium |-> medium]
Unusable == [form |-> "other"]
Event(introduced, fixed) == [introduced |-> introduced, fixed |-> fixed]
Vuln(id, severities, ranges) == [id |-> id, severities |-> severities, ranges |-> ranges]

MCDatabases ==
    {[p |-> <<Vuln("v1", <<Vector(1, 0)>>, <<<<Event("0", ""), Event("", "3")>>>>),
              Vuln("v2", <<Unusable, Number(98)>>, <<>>)>>,
      q |-> <<Vuln("v1", <<Vector(3, 1), Number(20)>>, <<<<Event("1", "2")>>, <<Event("4", "")>>>>)>>],
     [p |-> <<>>, q |-> <<Vuln("v3", <<>>, <<>>), Vuln("v4", <<Vector(0, 1)>>, <<>>)>>]}

MCRate == [n_plus_1_query |-> 3, unpaginated_scan |-> 5, lambda_no_memory |-> 2,
           lambda_no_timeout |-> 1]

=============================================================================
