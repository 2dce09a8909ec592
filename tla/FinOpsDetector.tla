---------------------------- MODULE FinOpsDetector ----------------------------
(***************************************************************************)
(* finops/analyze: the detection of expensive patterns in one source text, *)
(* in which languages other than Go are read line by line, and the costs.  *)
(*                                                                         *)
(* A line is what the code asks of it: its indentation, and the marks that *)
(* its patterns find, of which "loop" and "close" say that it looks like   *)
(* the head of a loop or begins with a brace.  It has marks besides that   *)
(* say what it is, which no pattern looks at.  In Go, where there is a     *)
(* syntax tree, an element of the source is a loop that begins or ends, a  *)
(* call, or a literal.                                                     *)
(***************************************************************************)
EXTENDS Integers, Positions, SequencesExt, FiniteSetsExt

CONSTANTS
    Lookahead,   \* maxLookahead: the lines around a scan that may hold its limit
    Rate,        \* the cost of each type of pattern for one request per hour
    DefaultRPH   \* the configured number of requests per hour

ASSUME LookaheadAssumption == Lookahead \in Nat

Pattern(type, line) == [type |-> type, line |-> line]

\* hasLimitInNearbyLines: some lines back, and ahead as far as the end of the object.
LimitNear(lines, k) ==
    LET from == IF k > Lookahead THEN k - Lookahead ELSE 1
        to   == Min({k + Lookahead, Len(lines)})
        ends == {i \in k..to : "end" \in lines[i].marks}
    IN  \E i \in from..(IF ends = {} THEN to ELSE Min(ends)) : "limit" \in lines[i].marks

\* The findings of one line, given whether the detector believes it is in a loop.
FoundIn(lines, k, inLoop) ==
    (IF inLoop /\ "db" \in lines[k].marks THEN <<Pattern("n_plus_1_query", k)>> ELSE <<>>)
    \o (IF "scan" \in lines[k].marks /\ ~LimitNear(lines, k)
        THEN <<Pattern("unpaginated_scan", k)>> ELSE <<>>)

\* A variant in which the depth may go below 0.
DepthAfter_NoFloor(depth, line) ==
    LET begun == IF "loop" \in line.marks THEN depth + 1 ELSE depth
    IN  IF "close" \in line.marks THEN begun - 1 ELSE begun

\* loopDepth of the detectors for JavaScript and Java after a line; inLoop is TRUE
\* exactly if it is not 0.  Every line that begins with a brace counts down, whatever
\* it closes, and the depth never goes below 0.
DepthAfter(depth, line) ==
    LET begun == IF "loop" \in line.marks THEN depth + 1 ELSE depth
    IN  IF "close" \in line.marks /\ begun > 0 THEN begun - 1 ELSE begun

LoopDepth(lines) ==
    LET depth[k \in 0..Len(lines)] == IF k = 0 THEN 0 ELSE DepthAfter(depth[k-1], lines[k])
    IN  depth

DetectFromSourceJS(lines) ==
    FlattenSeq([k \in DOMAIN lines |-> FoundIn(lines, k, LoopDepth(lines)[k] > 0)])

\* loopStack of the detector for Python after a line: the indentations of the loops.
\* A blank line has an indentation like any other, and so has a comment.
StackAfter(stack, line) ==
    LET open == Max({n \in 0..Len(stack) : n = 0 \/ stack[n] < line.indent})
        left == SubSeq(stack, 1, open)
    IN  IF "loop" \in line.marks THEN Append(left, line.indent) ELSE left

LoopStack(lines) ==
    LET stack[k \in 0..Len(lines)] == IF k = 0 THEN <<>> ELSE StackAfter(stack[k-1], lines[k])
    IN  stack

DetectFromSourcePython(lines) ==
    FlattenSeq([k \in DOMAIN lines |-> FoundIn(lines, k, LoopStack(lines)[k] # <<>>)])

-----------------------------------------------------------------------------
(* Go.                                                                     *)

Marked(source, from, to, mark) == {k \in from..to : mark \in source[k].marks}

\* The loops that have begun and not ended in a stretch of the source.
Balance(source, from, to) ==
    Cardinality(Marked(source, from, to, "loop")) - Cardinality(Marked(source, from, to, "close"))

\* A line has an indentation; an element in Go begins a loop, ends one or is a call.
IsCodeLine(language, line) ==
    /\ line.indent \in Nat
    /\ language = "go" => \A m, n \in line.marks \cap {"loop", "close", "db"} : m = n

\* The source parses: every loop that begins ends.
Parses(source) ==
    /\ \A k \in DOMAIN source : Balance(source, 1, k) >= 0
    /\ Balance(source, 1, Len(source)) = 0

\* The statement that begins at k ends at its closing brace.
Body(source, k) == k..Min({j \in k..Len(source) : Balance(source, k, j) = 0})

\* The settings without which a literal that creates a Lambda function is reported.
Missing(marks) ==
    (IF "lambda" \in marks /\ "memory" \notin marks THEN <<"lambda_no_memory">> ELSE <<>>)
    \o (IF "lambda" \in marks /\ "timeout" \notin marks THEN <<"lambda_no_timeout">> ELSE <<>>)

\* What ast.Inspect reports at one element: at a loop, all database calls in its body.
Inspect(source, k) ==
    LET marks == source[k].marks
        calls == IF "loop" \in marks THEN {j \in Body(source, k) : "db" \in source[j].marks} ELSE {}
        lacks == Missing(marks)
    IN  [n \in 1..Cardinality(calls) |->
            Pattern("n_plus_1_query", InOrder(calls)[n])]
        \o (IF "scan" \in marks /\ "limit" \notin marks
            THEN <<Pattern("unpaginated_scan", k)>> ELSE <<>>)
        \o [n \in DOMAIN lacks |-> Pattern(lacks[n], k)]

\* A variant that looks for loops only as far as the first one.
DetectFromSource_OuterOnly(source) ==
    FlattenSeq([k \in DOMAIN source |->
        IF "loop" \in source[k].marks /\ Balance(source, 1, k) > 1 THEN <<>>
        ELSE Inspect(source, k)])

DetectFromSource(source) == FlattenSeq([k \in DOMAIN source |-> Inspect(source, k)])

-----------------------------------------------------------------------------
(* Handle.                                                                 *)

Known == {"go", "js", "py", "java"}

\* detectPatterns by the extension, or else detectByContent by the words that occur.
Language(extension, words) ==
    IF extension \in Known THEN extension
    ELSE IF "package" \in words /\ words \cap {"func", "import quote"} # {} THEN "go"
    ELSE IF "def" \in words /\ words \cap {"import", "from"} # {} THEN "py"
    ELSE IF words \cap {"public class", "import java"} # {} THEN "java"
    ELSE "js"

Detected(language, source) ==
    CASE language = "go"           -> DetectFromSource(source)
      [] language = "py"           -> DetectFromSourcePython(source)
      [] language \in {"js", "java"} -> DetectFromSourceJS(source)

\* The number of requests per hour that the text of a finding names, which is not the
\* configured default that the estimate assumes.
Quoted(requests) == IF requests = 0 THEN 1000 ELSE requests

CostFinding(pattern, requests) ==
    [type |-> pattern.type, line |-> pattern.line,
     cost |-> Rate[pattern.type] * (IF requests = 0 THEN DefaultRPH ELSE requests),
     quoted |-> Quoted(requests)]

Total(findings) == FoldLeft(LAMBDA sum, f : sum + f.cost, 0, findings)

\* The answer, or an error if the source is empty or does not parse.
HandleFinOps(language, source, requests) ==
    IF source = <<>> \/ (language = "go" /\ ~Parses(source)) THEN [error |-> TRUE]
    ELSE LET patterns == Detected(language, source)
             findings == [n \in DOMAIN patterns |-> CostFinding(patterns[n], requests)]
         IN  [error |-> FALSE, findings |-> findings,
              total |-> Total(findings)]

-----------------------------------------------------------------------------
(* The loops that a line is in, by the text and not by the patterns.       *)
(*                                                                         *)
(* In a language with braces "body" is on a line that begins the block of  *)
(* a loop, "open" on one that begins another block, "ends" on one that     *)
(* ends a block, and "single" on one that is in a loop without a block.    *)
(* In Python "body" is on the head of a loop, and "idle" on a line that is *)
(* blank, a comment, or within a string or brackets.                       *)

\* The blocks that are open after line k.
OpenBlocks(lines, k) ==
    {i \in Marked(lines, 1, k, "body") \cup Marked(lines, 1, k, "open") :
        \A j \in i+1..k :
            Cardinality(Marked(lines, i+1, j, "ends"))
            <= Cardinality(Marked(lines, i+1, j-1, "body") \cup Marked(lines, i+1, j-1, "open"))}

OpenLoops(lines, k) == {i \in OpenBlocks(lines, k) : "body" \in lines[i].marks}

\* The lines before line k, or there, that are indented less than all that follows them.
Enclosing(lines, k) ==
    {i \in 1..k : \A j \in i+1..k : "idle" \in lines[j].marks \/ lines[j].indent > lines[i].indent}

LoopsByIndent(lines, k) == {i \in Enclosing(lines, k) : "body" \in lines[i].marks}

\* The patterns miss a loop, or the end of a block, or find one where there is none: a
\* loop without a block, for instance, which no brace will end.
Misread(marks) ==
    \/ ("loop" \in marks) # ("body" \in marks)
    \/ ("close" \in marks) # ("ends" \in marks)

\* What makes the detector lose the loops it is in, or believe in one that is over.  With
\* braces it is any line that it misreads, for the rest of the text; the end of another
\* block in a loop, which it takes for the end of the loop; and a line that closes a block
\* and has the head of a loop, as at the end of do.  In Python it is a loop that it
\* misreads, until that is over, or an idle line that is indented no more than a loop.
Mistaken(language, lines, k) ==
    CASE language = "go" -> FALSE
      [] language \in {"js", "java"} ->
            \/ \E j \in 1..k-1 : Misread(lines[j].marks)
            \/ IF "single" \in lines[k].marks THEN "loop" \notin lines[k].marks
               ELSE Misread(lines[k].marks)
            \/ \E j \in 1..k : {"loop", "close"} \subseteq lines[j].marks
            \/ \E j \in Marked(lines, 1, k, "ends") :
                  /\ OpenLoops(lines, j-1) # {}
                  /\ Max(OpenBlocks(lines, j-1)) \notin OpenLoops(lines, j-1)
      [] language = "py" ->
            \/ \E i \in Enclosing(lines, k) : Misread(lines[i].marks)
            \/ \E i \in LoopsByIndent(lines, k), j \in Marked(lines, 1, k, "idle") :
                  i < j /\ lines[j].indent <= lines[i].indent

\* How often a call in line k should be reported: once for each loop around it in Go.
LoopReports(language, lines, k) ==
    CASE language = "go" -> Balance(lines, 1, k)
      [] language = "py" -> IF LoopsByIndent(lines, k) = {} THEN 0 ELSE 1
      [] language \in {"js", "java"} ->
            IF OpenLoops(lines, k) = {} /\ "single" \notin lines[k].marks THEN 0 ELSE 1

=============================================================================
