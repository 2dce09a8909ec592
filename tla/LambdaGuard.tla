------------------------------- MODULE LambdaGuard ----------------------------
(***************************************************************************)
(* lambdaguard/analyze: what it reads of functions in four formats, and    *)
(* what it has to say about each.                                          *)
(*                                                                         *)
(* A file has a format.  Of its lines, "attribute" gives one a value, or   *)
(* None if it is an expression.  In YAML "function" begins a function, and *)
(* "mistyped" has a value of another type than the parser's; in Terraform  *)
(* "resource" and "open" begin a block, at the top or a nested one, and    *)
(* "close" ends it; "new" creates a function with the CDK.                 *)
(***************************************************************************)
EXTENDS Integers, Directories

CONSTANT None

\* A function of which nothing is known.
Unset ==
    [timeout |-> 0, memory |-> 0, reserved |-> 0, runtime |-> "", handler |-> "",
     description |-> "", tracing |-> "", dlq |-> "", vpc |-> FALSE, architectures |-> 0,
     statements |-> <<>>, environment |-> <<>>]

Formats == {"sam", "serverless", "terraform", "cdk", "other"}

\* The attributes that the parser of a format reads.
Keys(format) ==
    CASE format = "sam" -> DOMAIN Unset
      [] format = "serverless" ->
            {"handler", "runtime", "timeout", "memory", "statements", "environment",
             "description", "architectures"}
      [] format = "terraform" ->
            {"timeout", "memory", "runtime", "handler", "description", "tracing"}
      [] format = "cdk" -> {"handler", "runtime"}

\* A configuration with what a parser found, given where the value of each key is, or 0.
\* In Terraform a literal 0 is taken for no value.
Config(tree, k, name, at) ==
    LET format == tree[FileOf(tree, k)].format
        given(key) == IF key \in Keys(format) /\ at[key] # 0 THEN tree[at[key]].gives[key]
                      ELSE Unset[key]
        value(key) ==
            CASE format = "terraform" /\ key = "timeout" /\ given(key) = 0 -> 3
              [] format = "terraform" /\ key = "memory" /\ given(key) = 0 -> 128
              [] format # "sam" /\ key = "reserved" -> -1
              [] OTHER -> given(key)
    IN  [key \in DOMAIN Unset \cup {"name", "file"} |->
            CASE key = "name" -> name
              [] key = "file" -> tree[FileOf(tree, k)].name
              [] OTHER -> value(key)]

Gives(line, key) == line.kind = "attribute" /\ key \in DOMAIN line.gives

\* parseSAM and parseServerless: a document that does not decode, or repeats a key, yields
\* nothing.  A function has its name from an attribute, or else its key.
ParseYAML(tree, f) ==
    LET functions == {k \in LinesOf(tree, f) : tree[k].kind = "function"}
        end(k) == Min({j \in functions : j > k} \cup {Max(LinesOf(tree, f)) + 1})
        at(k, key) == Max({0} \cup {j \in k+1..end(k)-1 : Gives(tree[j], key)})
        typed == {k \in functions : tree[f].format = "serverless" \/ tree[k].serverless}
        decodes ==
            /\ \A k \in LinesOf(tree, f) : tree[k].kind # "mistyped"
            /\ \A j, k \in functions : tree[j].id = tree[k].id => j = k
            /\ \A k \in functions, key \in DOMAIN Unset :
                    Cardinality({j \in k+1..end(k)-1 : Gives(tree[j], key)}) <= 1
        order == InOrder(typed)
        config(k) == Config(tree, k, tree[k].name, [key \in DOMAIN Unset |-> at(k, key)])
    IN  IF decodes THEN [n \in DOMAIN order |-> config(order[n])] ELSE <<>>

\* A variant that reads on after the brace.
Block_Unbounded(tree, k) == {j \in LinesOf(tree, FileOf(tree, k)) : j > k}

\* The lines from the beginning of a block to the first brace that closes anything.
Block(tree, k) ==
    {j \in LinesOf(tree, FileOf(tree, k)) :
        j > k /\ \A i \in k..j : tree[i].kind # "close"}

\* extractIntAttr and extractStrAttr: the first block of any type whose name ends with
\* that of the function, and which has an attribute with a literal value whose name ends
\* with the key; of several such attributes the last.
ExtractAttr(tree, f, name, key) ==
    LET here(k) == {j \in Block(tree, k) : Gives(tree[j], key) /\ tree[j].gives[key] # None}
        blocks == {k \in LinesOf(tree, f) :
                     tree[k].kind = "resource" /\ name \in tree[k].endings /\ here(k) # {}}
    IN  IF blocks = {} THEN 0 ELSE Max(here(Min(blocks)))

ParseTerraform(tree, f) ==
    LET functions == {k \in LinesOf(tree, f) : tree[k].kind = "resource" /\ tree[k].lambda}
        order == InOrder(functions)
        config(k) == Config(tree, k, tree[k].name,
                            [key \in DOMAIN Unset |-> ExtractAttr(tree, f, tree[k].name, key)])
    IN  [n \in DOMAIN order |-> config(order[n])]

\* parseCDK: a function for every handler, all with the first runtime; their name is that
\* of the file.
ParseCDK(tree, f) ==
    LET given(key) == {k \in LinesOf(tree, f) : Gives(tree[k], key)}
        handlers == InOrder(given("handler"))
        at(h, key) == CASE key = "handler" -> h
                        [] key = "runtime" /\ h # 0 /\ given(key) # {} -> Min(given(key))
                        [] OTHER -> 0
        config(h) == Config(tree, f, tree[f].name, [key \in DOMAIN Unset |-> at(h, key)])
    IN  IF \A k \in LinesOf(tree, f) : tree[k].kind # "new" THEN <<>>
        ELSE IF handlers = <<>> THEN <<config(0)>>
        ELSE [h \in DOMAIN handlers |-> config(handlers[h])]

\* ParseLambdaConfigs, unless its deadline passes.
ParseLambdaConfigs(tree) ==
    LET parsed(f) == CASE tree[f].format \in {"sam", "serverless"} -> ParseYAML(tree, f)
                       [] tree[f].format = "terraform" -> ParseTerraform(tree, f)
                       [] tree[f].format = "cdk" -> ParseCDK(tree, f)
                       [] tree[f].format = "other" -> <<>>
        read(f) == tree[f].traits \cap {"excluded", "large", "unreadable"} = {}
        files == InOrder({f \in Files(tree) : read(f)})
    IN  FlattenSeq([n \in DOMAIN files |-> parsed(files[n])])

-----------------------------------------------------------------------------

Supported == {"go1.x"}

\* BestPracticeChecks, in their order, and what each looks for.
Checks(c) ==
    <<[id |-> "LG-1", severity |-> "high", holds |-> c.timeout > 900],
      [id |-> "LG-2", severity |-> "medium", holds |-> c.timeout = 3],
      [id |-> "LG-3", severity |-> "low", holds |-> c.memory > 3008],
      [id |-> "LG-4", severity |-> "high", holds |-> c.memory < 128],
      [id |-> "LG-5", severity |-> "medium", holds |-> c.dlq = "" /\ c.timeout > 60],
      [id |-> "LG-6", severity |-> "high",
       holds |-> ~c.vpc /\ \E s \in Range(c.statements) : "rds" \in s.actions],
      [id |-> "LG-7", severity |-> "low", holds |-> c.reserved \in {-1, 0}],
      [id |-> "LG-8", severity |-> "medium", holds |-> c.runtime \notin Supported \cup {""}],
      [id |-> "LG-9", severity |-> "low", holds |-> c.tracing \notin {"", "Active"}],
      [id |-> "LG-10", severity |-> "low", holds |-> c.description = ""],
      [id |-> "LG-11", severity |-> "medium", holds |-> c.handler = "$LATEST"],
      [id |-> "LG-12", severity |-> "low", holds |-> c.architectures > 1]>>

Issue(id, severity) == [id |-> id, severity |-> severity]

ApplyBestPractices(c, ids) ==
    LET found(check) == check.holds /\ (ids = {} \/ check.id \in ids)
        hits == Selected(Checks(c), {n \in DOMAIN Checks(c) : found(Checks(c)[n])})
    IN  [n \in DOMAIN hits |-> Issue(hits[n].id, hits[n].severity)]

\* AnalyzeIAM; the managed policies that it also looks at are read by no parser.
AnalyzeIAM(c) ==
    LET wild(set) == IF "*" \in set THEN <<Issue("IAM_WILDCARD", "critical")>> ELSE <<>>
    IN  FlattenSeq([n \in DOMAIN c.statements |->
                        wild(c.statements[n].actions) \o wild(c.statements[n].resources)])

\* ScanEnvVars: the first of these that a value is decides, and a reference is no secret.
Values ==
    <<Issue("reference", None), Issue("AWS_ACCESS_KEY", "critical"), Issue("PASSWORD", "critical"),
      Issue("API_KEY", "high"), Issue("EMAIL", "low"), Issue("HIGH_ENTROPY", "medium")>>

ScanEnvVars(c) ==
    LET is(value) == {n \in DOMAIN Values : Values[n].id \in value}
        secret(value) == is(value) # {} /\ Min(is(value)) # 1
        secrets == Selected(c.environment, {n \in DOMAIN c.environment : secret(c.environment[n])})
    IN  [n \in DOMAIN secrets |-> Values[Min(is(secrets[n]))]]

AnalyzeFunction(c, ids, threshold) ==
    LET issues == FilterBySeverity(AnalyzeIAM(c) \o ScanEnvVars(c) \o ApplyBestPractices(c, ids),
                                   threshold)
    IN  [n \in DOMAIN issues |-> [id |-> issues[n].id, severity |-> issues[n].severity,
                                  function |-> c.name, file |-> c.file]]

\* Handle.  The order of functions in YAML, and of variables, is that of a map, which is
\* any; here it is that of the document.
HandleLambdaGuard(tree, ids, threshold) ==
    LET configs == ParseLambdaConfigs(tree)
    IN  [error     |-> FALSE,
         functions |-> configs,
         findings  |-> FlattenSeq([n \in DOMAIN configs |->
                                    AnalyzeFunction(configs[n], ids, threshold)])]

=============================================================================
