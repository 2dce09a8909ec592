-------------------------------- MODULE IAMGuard ------------------------------
(***************************************************************************)
(* iamguard/analyze: the actions that the calls of AWS clients in Go need, *)
(* and wildcards in infrastructure code.                                   *)
(*                                                                         *)
(* A file is Go, infrastructure code, or other.  Of its lines, "import" is *)
(* one of a service's package under a name; "client" assigns a client of a *)
(* package to a variable; "call" calls a method of a variable; and         *)
(* "statement" holds wildcards.                                            *)
(***************************************************************************)
EXTENDS Directories

\* The names that imports have given to packages of services, or variables to clients:
\* the last one counts.
Named(tree, lines, name) == {k \in lines : tree[k].name = name}

SVCImportMap(tree, f) ==
    LET imports == {k \in LinesOf(tree, f) : tree[k].kind = "import" /\ tree[k].aws}
    IN  [name \in {tree[k].name : k \in imports} |->
            tree[Max(Named(tree, imports, name))].service]

\* clientVars: names only, so that variables of different functions are one.
ClientVars(tree, f) ==
    LET packages == SVCImportMap(tree, f)
        clients == {k \in LinesOf(tree, f) :
                      tree[k].kind = "client" /\ tree[k].package \in DOMAIN packages}
    IN  [name \in {tree[k].name : k \in clients} |->
            packages[tree[Max(Named(tree, clients, name))].package]]

\* The calls in a file.  To create a client is to call its package.
Calls(tree, f) == {k \in LinesOf(tree, f) : tree[k].kind \in {"call", "client"}}
Receiver(line) == IF line.kind = "client" THEN line.package ELSE line.name
Method(line) == IF line.kind = "client" THEN "NewFromConfig" ELSE line.method

\* A variant that counts what is new only.
DeduplicateActions_First(usages) ==
    LET firsts == {n \in DOMAIN usages : \A m \in 1..n-1 : usages[m].action # usages[n].action}
        order == InOrder(firsts)
    IN  [n \in DOMAIN order |-> [action |-> usages[order[n]].action, count |-> 1]]

\* deduplicateActions.
DeduplicateActions(usages) ==
    LET firsts == {n \in DOMAIN usages : \A m \in 1..n-1 : usages[m].action # usages[n].action}
        order == InOrder(firsts)
        of(action) == {n \in DOMAIN usages : usages[n].action = action}
    IN  [n \in DOMAIN order |-> [action |-> usages[order[n]].action,
                                 count |-> Cardinality(of(usages[order[n]].action))]]

\* A file that cannot be parsed has no usages, and one without clients neither.
GoFile(tree, f) ==
    tree[f].format = "go" /\ tree[f].traits \cap {"vendor", "test", "unparsable"} = {}

\* AnalyzeGoSDKCalls.
Usages(tree) ==
    LET files == InOrder({f \in Files(tree) : GoFile(tree, f)})
        known(f) == {k \in Calls(tree, f) : Receiver(tree[k]) \in DOMAIN ClientVars(tree, f)}
        order(f) == InOrder(known(f))
        usage(f, k) == [file |-> Place(tree, k).file, line |-> Place(tree, k).line,
                        action |-> <<ClientVars(tree, f)[Receiver(tree[k])], Method(tree[k])>>]
        usages(f) == [n \in DOMAIN order(f) |-> usage(f, order(f)[n])]
    IN  FlattenSeq([n \in DOMAIN files |-> usages(files[n])])

\* ScanIACForWildcards: of each line up to one wildcard of either sort.
ScanIACForWildcards(tree) ==
    LET isIAC(f) == /\ tree[f].format = "iac"
                    /\ tree[f].traits \cap {"vendor", "node_modules", "large", "unreadable"} = {}
        files == InOrder({f \in Files(tree) : isIAC(f)})
        wild(k, sort) ==
            IF tree[k].kind = "statement" /\ sort \in tree[k].wild
            THEN <<[file |-> Place(tree, k).file, line |-> Place(tree, k).line, wild |-> sort]>>
            ELSE <<>>
        on(k) == wild(k, "Action") \o wild(k, "Resource")
        found(f) == LET lines == InOrder(LinesOf(tree, f))
                    IN  FlattenSeq([n \in DOMAIN lines |-> on(lines[n])])
    IN  FlattenSeq([n \in DOMAIN files |-> found(files[n])])

\* Handle.  It has no deadline.
HandleIAMGuard(tree) ==
    [error     |-> FALSE,
     usages    |-> Usages(tree),
     actions   |-> DeduplicateActions(Usages(tree)),
     wildcards |-> ScanIACForWildcards(tree)]

=============================================================================
