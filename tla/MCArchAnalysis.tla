---------------------------- MODULE MCArchAnalysis ----------------------------
(***************************************************************************)
(* Directories of up to three entries, among which each reason not to      *)
(* enter a directory or not to parse a file occurs, and rules files in     *)
(* which a rule allows what another one denies, before and after it.       *)
(***************************************************************************)
EXTENDS ArchAnalysis

ImportLine(import, require) == [import |-> import, require |-> require, comment |-> FALSE]
Dotted(last) == <<<<"example", "com">>, <<last>>, <<"db">>>>

Source(dir, kind, name, state, lines) ==
    [dir |-> dir, kind |-> kind, name |-> name, state |-> state, lines |-> lines]

Domain == <<<<"domain">>>>

Uses(path) == <<ImportLine(path, NoPath)>>
Both == <<ImportLine(Dotted("infrastructure"), Dotted("infrastructure")),
          ImportLine(<<<<"fs">>, <<"promises">>>>, NoPath)>>
InJava == <<ImportLine(<<<<"org", "xml">>>>, NoPath), ImportLine(<<<<"java", "util">>>>, NoPath)>>
Commented == <<[import |-> Dotted("infrastructure"), require |-> NoPath, comment |-> TRUE]>>

SomeEntries == {
    Source(Domain, "go", "plain", "ok", Uses(Dotted("infrastructure"))),
    Source(Domain, "go", "test", "ok", Uses(Dotted("infrastructure"))),
    Source(Domain, "go", "plain", "broken", Uses(Dotted("presentation"))),
    Source(Domain, "go", "plain", "ok", Uses(Dotted("presentation"))),
    Source(Domain \o <<<<"vendor">>>>, "go", "plain", "ok", Uses(Dotted("presentation"))),
    Source(<<>>, "go", "vendored", "ok", Uses(<<<<"fmt">>>>)),
    Source(Domain, "js", "plain", "ok", Both),
    Source(<<>>, "js", "plain", "ok", Commented),
    Source(<<<<"target">>>>, "java", "plain", "ok", InJava),
    Source(Domain, "java", "plain", "ok", InJava),
    Source(Domain, "python", "test", "ok", Uses(<<<<"", "", "infrastructure">>>>)),
    Source(<<<<"target">>>>, "other", "plain", "unlisted", <<>>)}

AllNames == STRING

JavaTable == {<<"java">>, <<"org", "xml">>}

Allow(from, to) == [from |-> from, to |-> to, allow |-> TRUE]

Exact == <<<<"example", "com">>, <<"*">>, <<"db">>>>

SomeRules == {
    <<Allow(Layer("domain"), Exact)>> \o DefaultRules,
    <<Deny("domain", "db"), Allow(<<Stars>>, Layer("infrastructure"))>>}

=============================================================================
