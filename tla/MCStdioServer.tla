----------------------------- MODULE MCStdioServer ----------------------------
(* A few lines of each kind, and directories of up to two files. *)
EXTENDS StdioServer

Line(kind) == [kind |-> kind]
Request(id, method, name, nested) ==
    [kind |-> "request", id |-> id, method |-> method, name |-> name, nested |-> nested]

MCLines ==
    {Line("blank"), Line("garbage"), Line("long"),
     Request("a", "piiguard/scan", "", 0),
     Request("b", "tools/call", "piiguard/scan", 1),
     Request("c", "tools/call", "none", 0),
     Request(None, "notifications/initialized", "", 0)}

File(name) == [kind |-> "file", name |-> name, traits |-> {}]
Text(runes, type) ==
    [kind |-> "text", runes |-> runes, literals |-> <<>>,
     matches |-> <<[type |-> type, at |-> 5, to |-> 7, digits |-> <<1, 8>>]>>]

MCTrees ==
    {<<File("f"), Text(9, "email")>>,
     <<File("f"), Text(9, "credit_card"), Text(9, "email"), Text(9, "credit_card"),
       File("g"), Text(9, "key")>>,
     <<File("f"), Text(2, "email")>>}

MCPatterns == <<[name |-> "email", severity |-> "low"],
                [name |-> "credit_card", severity |-> "critical"],
                [name |-> "key", severity |-> "high"]>>

MCRows == {<<"credit_card", "credit_card", "other">>}
MCTools == {"piiguard/scan"}

=============================================================================
