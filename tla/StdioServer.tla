------------------------------ MODULE StdioServer -----------------------------
(***************************************************************************)
(* The program with the stdio transport: its loop, which reads a line,     *)
(* handles the request and writes the response; the verifications that the *)
(* handler of piiguard starts, which write notifications to the same       *)
(* output; and the end of main, which waits for them.                      *)
(*                                                                         *)
(* A write is not atomic: a line comes in two halves.  The client writes   *)
(* lines and closes its end; the program may get a signal; and output may  *)
(* fail for good, as with a full disk, even between two halves.            *)
(***************************************************************************)
EXTENDS Dispatcher, PIIScanner

CONSTANTS
    Lines,          \* the lines that the client may write
    Trees,          \* the directories that piiguard may scan
    Threshold,      \* severity_threshold
    Rows,           \* answers of the model to a verification: types of patterns
    MaxConcurrent,  \* maxConcurrent, the verifications that run at a time
    MaxLines        \* bound: the lines that the client writes

ASSUME StdioAssumption ==
    /\ MaxConcurrent \in Nat \ {0}
    /\ MaxLines \in Nat
    /\ "piiguard/scan" \in Tools

\* The id that a response to a line has.
IdOf(line) == IF line.kind = "request" THEN line.id ELSE None

Replies == [id : {IdOf(line) : line \in Lines} \cup {None}, status : Statuses]

ASSUME LinesAssumption ==
    \A line \in Lines :
        /\ line.kind \in {"blank", "long", "garbage", "invalid", "request"}
        /\ line.kind = "request" => line.nested \in Nat /\ line.name # "tools/call"
ASSUME NoneAssumption == None \notin Nat \cup Statuses \cup Replies

VARIABLES
    lines, next,   \* all that the client writes, and the line to be read next
    eof,           \* the client has closed its end
    stopped,       \* the context of main is cancelled by a signal
    loop, reply,   \* Start: what it is at, and the response it has
    mu,            \* who holds the mutex of the transport: a job, or 0 for the loop
    stdout,        \* the halves of lines that have been written
    broken,        \* writes fail
    jobs,          \* verifications: what they are at, the groups left, the verdicts
    ok, failed,    \* verificationsOK, verificationsFailed
    main           \* whether main serves, drains, has cancelled baseCtx, or has ended

client == <<lines, eof, stopped, broken>>
vars == <<lines, next, eof, stopped, loop, reply, mu, stdout, broken, jobs, ok, failed, main>>

Jobs == DOMAIN jobs
Done == {"dropped", "done"}
Holding == {"verify", "lock", "first half", "second half", "sent", "unsent"}

\* What a scan of each directory comes to.
Scanned == [tree \in Trees |-> HandlePIIGuard(tree, {}, TRUE, Threshold)]

Scans == {Scanned[tree].findings : tree \in Trees}
AllVerdicts == UNION {{Verdict(scan[n]) : n \in DOMAIN scan} : scan \in Scans}

JobRecords ==
    [at : {"slot"} \cup Holding \cup Done, scan : Scans,
     left : SUBSET UNION {DOMAIN scan : scan \in Scans},
     verdicts : SUBSET AllVerdicts, errors : Nat]

Notifications == [job : Nat, verdicts : SUBSET AllVerdicts]

TypeOK ==
    /\ lines \in Seq(Lines) /\ Len(lines) <= MaxLines /\ next \in 1..Len(lines)+1
    /\ eof \in BOOLEAN /\ stopped \in BOOLEAN /\ broken \in BOOLEAN
    /\ loop \in {"scan", "handle", "lock", "first half", "second half", "returned"}
    /\ reply \in Replies \cup {None}
    /\ mu \in {None, 0} \cup Jobs
    /\ stdout \in Seq([message : Replies \cup Notifications, part : {1, 2}])
    /\ jobs \in Seq(JobRecords)
    /\ ok \in Nat /\ failed \in Nat
    /\ main \in {"serving", "draining", "cancelled", "ended"}

Init ==
    /\ lines = <<>> /\ next = 1 /\ eof = FALSE /\ stopped = FALSE /\ broken = FALSE
    /\ loop = "scan" /\ reply = None /\ mu = None /\ stdout = <<>>
    /\ jobs = <<>> /\ ok = 0 /\ failed = 0 /\ main = "serving"

-----------------------------------------------------------------------------
(* The environment.                                                        *)

Write(line) ==
    /\ ~eof /\ Len(lines) < MaxLines
    /\ lines' = Append(lines, line)
    /\ UNCHANGED <<next, eof, stopped, loop, reply, mu, stdout, broken, jobs, ok, failed, main>>

CloseInput ==
    /\ ~eof /\ eof' = TRUE
    /\ UNCHANGED <<lines, next, stopped, loop, reply, mu, stdout, broken, jobs, ok, failed, main>>

Signal ==
    /\ ~stopped /\ stopped' = TRUE
    /\ UNCHANGED <<lines, next, eof, loop, reply, mu, stdout, broken, jobs, ok, failed, main>>

Break ==
    /\ ~broken /\ broken' = TRUE
    /\ UNCHANGED <<lines, next, eof, stopped, loop, reply, mu, stdout, jobs, ok, failed, main>>

-----------------------------------------------------------------------------
(* Start.                                                                  *)

Reply(response) ==
    /\ reply' = response
    /\ loop' = IF response = None THEN "scan" ELSE "lock"

\* A line has been read.  The context is looked at only now.  A line that is longer than
\* the scanner's buffer makes it stop.
Scan ==
    /\ loop = "scan" /\ next <= Len(lines)
    /\ LET line == lines[next]
       IN  IF line.kind = "long" THEN loop' = "returned" /\ UNCHANGED <<next, reply>>
           ELSE /\ next' = next + 1
                /\ CASE stopped -> loop' = "returned" /\ UNCHANGED reply
                     [] ~stopped /\ line.kind = "blank" -> UNCHANGED <<loop, reply>>
                     [] ~stopped /\ line.kind # "blank" ->
                           IF ParseError(line) # None
                           THEN Reply(Response(None, ParseError(line)))
                           ELSE loop' = "handle" /\ UNCHANGED reply
    /\ UNCHANGED <<client, mu, stdout, jobs, ok, failed, main>>

\* The end of the input.
ScanEnds ==
    /\ loop = "scan" /\ next > Len(lines) /\ eof
    /\ loop' = "returned"
    /\ UNCHANGED <<client, next, reply, mu, stdout, jobs, ok, failed, main>>

\* The findings that a verification is started for: every client of stdio has the session
\* of stdio, so that it is started whenever there is one that is severe.
Verifies(findings) ==
    \E n \in DOMAIN findings : findings[n].severity \in {"high", "critical"}

\* How the handler of a request may end: that of piiguard panics if its scan does.  All
\* results can be marshalled, which tools/call relies on.
MayEnd(request, scan) ==
    CASE Target(request) = "piiguard/scan" ->
            {"validation error", "error", IF scan.error THEN "panic" ELSE "result"}
      [] Target(request) \in Tools \ {"piiguard/scan"} -> Outcomes
      [] OTHER -> {"result"}

Handle(outcome, tree) ==
    /\ loop = "handle"
    /\ LET request == lines[next-1]
           scan == Scanned[tree]
       IN  /\ outcome \in MayEnd(request, scan)
           /\ Reply(Dispatch(request, outcome))
           /\ jobs' = IF Target(request) = "piiguard/scan" /\ outcome = "result"
                         /\ Verifies(scan.findings)
                      THEN Append(jobs, [at |-> "slot", scan |-> scan.findings,
                                         left |-> DOMAIN scan.findings,
                                         verdicts |-> {}, errors |-> 0])
                      ELSE jobs
    /\ UNCHANGED <<client, next, mu, stdout, ok, failed, main>>

-----------------------------------------------------------------------------
(* Send, for the loop and for a verification.                              *)

\* A variant without the mutex.
Lock_Never(who) == UNCHANGED mu

Lock(who) == mu = None /\ mu' = who

Unlock == mu' = None

Half(message, part) == [message |-> message, part |-> part]

\* The half of a line that is written, unless that fails.
Put(half) == stdout' = IF broken THEN stdout ELSE Append(stdout, half)

LoopLocks ==
    /\ loop = "lock" /\ Lock(0)
    /\ loop' = "first half"
    /\ UNCHANGED <<client, next, reply, stdout, jobs, ok, failed, main>>

LoopWrites ==
    /\ loop = "first half"
    /\ Put(Half(reply, 1))
    /\ IF broken THEN loop' = "returned" /\ Unlock ELSE loop' = "second half" /\ UNCHANGED mu
    /\ UNCHANGED <<client, next, reply, jobs, ok, failed, main>>

LoopSent ==
    /\ loop = "second half"
    /\ Put(Half(reply, 2)) /\ Unlock
    /\ loop' = IF broken THEN "returned" ELSE "scan"
    /\ UNCHANGED <<client, next, reply, jobs, ok, failed, main>>

-----------------------------------------------------------------------------
(* The goroutine of startBackgroundVerification.                           *)

To(j, at) == jobs' = [jobs EXCEPT ![j].at = at]
Quiet == UNCHANGED <<client, next, loop, reply, main>>

\* The context of the handler is done.
Cancelled == main \in {"cancelled", "ended"}

Acquire(j) ==
    /\ jobs[j].at = "slot"
    /\ Cardinality({i \in Jobs : jobs[i].at \in Holding}) < MaxConcurrent
    /\ To(j, "verify")
    /\ Quiet /\ UNCHANGED <<mu, stdout, ok, failed>>

Drop(j) ==
    /\ jobs[j].at = "slot" /\ Cancelled
    /\ To(j, "dropped")
    /\ Quiet /\ UNCHANGED <<mu, stdout, ok, failed>>

\* verifyGroup, in runVerification, with an answer that can be read.
VerifyGroup(j, rows) ==
    /\ jobs[j].at = "verify" /\ jobs[j].left # {} /\ ~Cancelled
    /\ LET group == GroupByFile(jobs[j].scan, jobs[j].left)
       IN  jobs' = [jobs EXCEPT ![j].left = @ \ group,
                                ![j].verdicts = @ \cup ParseVerdicts(rows, jobs[j].scan, group)]
    /\ Quiet /\ UNCHANGED <<mu, stdout, ok, failed>>

\* The call fails, or is cut off, or its answer cannot be read: the next group follows.
VerifyGroupFails(j) ==
    /\ jobs[j].at = "verify" /\ jobs[j].left # {}
    /\ jobs' = [jobs EXCEPT ![j].left = @ \ GroupByFile(jobs[j].scan, @), ![j].errors = @ + 1]
    /\ failed' = failed + 1
    /\ Quiet /\ UNCHANGED <<mu, stdout, ok>>

\* All groups are done, or the context is; whatever there is is sent, even if it is empty.
Emit(j) ==
    /\ jobs[j].at = "verify" /\ (jobs[j].left = {} \/ Cancelled)
    /\ To(j, "lock")
    /\ Quiet /\ UNCHANGED <<mu, stdout, ok, failed>>

Notification(j) == [job |-> j, verdicts |-> jobs[j].verdicts]

JobLocks(j) ==
    /\ jobs[j].at = "lock" /\ Lock(j)
    /\ To(j, "first half")
    /\ Quiet /\ UNCHANGED <<stdout, ok, failed>>

JobWrites(j) ==
    /\ jobs[j].at = "first half"
    /\ Put(Half(Notification(j), 1))
    /\ IF broken THEN To(j, "unsent") /\ Unlock ELSE To(j, "second half") /\ UNCHANGED mu
    /\ Quiet /\ UNCHANGED <<ok, failed>>

JobSent(j) ==
    /\ jobs[j].at = "second half"
    /\ Put(Half(Notification(j), 2)) /\ Unlock
    /\ To(j, IF broken THEN "unsent" ELSE "sent")
    /\ Quiet /\ UNCHANGED <<ok, failed>>

\* A variant that returns without its deferred calls when the notification is lost.
Count_KeepsSlot(j) ==
    /\ jobs[j].at = "sent"
    /\ To(j, "done")
    /\ ok' = ok + 1
    /\ Quiet /\ UNCHANGED <<mu, stdout, failed>>

\* A variant that counts what could not be sent as if it had been.
Count_IgnoresError(j) ==
    /\ jobs[j].at \in {"sent", "unsent"}
    /\ To(j, "done")
    /\ ok' = ok + 1
    /\ Quiet /\ UNCHANGED <<mu, stdout, failed>>

\* The counters, and the deferred calls.
Count(j) ==
    /\ jobs[j].at \in {"sent", "unsent"}
    /\ To(j, "done")
    /\ IF jobs[j].at = "sent" THEN ok' = ok + 1 /\ UNCHANGED failed
       ELSE failed' = failed + 1 /\ UNCHANGED ok
    /\ Quiet /\ UNCHANGED <<mu, stdout>>

JobStep(j) ==
    \/ Acquire(j) \/ Drop(j) \/ Emit(j) \/ JobLocks(j) \/ JobWrites(j) \/ JobSent(j) \/ Count(j)
    \/ VerifyGroupFails(j)
    \/ \E rows \in Rows : VerifyGroup(j, rows)

-----------------------------------------------------------------------------
(* The end of main.                                                        *)

Ending(from, to) ==
    /\ main \in from /\ main' = to
    /\ UNCHANGED <<client, next, loop, reply, mu, stdout, jobs, ok, failed>>

Return == loop = "returned" /\ Ending({"serving"}, "draining")

\* drainCtx is done before the verifications are: Shutdown cancels them.
DrainTimeout == (\E j \in Jobs : jobs[j].at \notin Done) /\ Ending({"draining"}, "cancelled")

End == (\A j \in Jobs : jobs[j].at \in Done) /\ Ending({"draining", "cancelled"}, "ended")

Loop ==
    \/ Scan \/ ScanEnds \/ LoopLocks \/ LoopWrites \/ LoopSent
    \/ \E outcome \in Outcomes, tree \in Trees : Handle(outcome, tree)

Next ==
    \/ \E line \in Lines : Write(line)
    \/ CloseInput \/ Signal \/ Break
    \/ Loop
    \/ \E j \in Jobs : JobStep(j)
    \/ Return \/ DrainTimeout \/ End

\* The goroutines run; calls of the model return, since they have a timeout; the client
\* reads on, so that writes return; and drainCtx expires.
Spec ==
    /\ Init /\ [][Next]_vars
    /\ WF_vars(Loop)
    /\ \A j \in 1..MaxLines : WF_vars(j \in Jobs /\ JobStep(j))
    /\ WF_vars(Return) /\ WF_vars(DrainTimeout) /\ WF_vars(End)

-----------------------------------------------------------------------------
(* Properties.                                                             *)

Complete(n) == stdout[n].part = 2
IsReply(n) == "status" \in DOMAIN stdout[n].message

\* What one goroutine writes is never cut by what another does.
WholeLines ==
    \A n \in DOMAIN stdout :
        IF n % 2 = 1 THEN stdout[n].part = 1
        ELSE Complete(n) /\ stdout[n].message = stdout[n-1].message

\* The lines that ask for a response, by their numbers, and the responses.
Asked == {n \in 1..next-1 : lines[n].kind # "blank"}
Answers == {n \in DOMAIN stdout : IsReply(n) /\ Complete(n)}

\* The output consists of whole lines, though the loop and verifications share it.  Every
\* line of input that is not blank gets one response, in the order of the lines and with
\* the id of its request, however its handler ends and whatever is written in between;
\* only the last may be missing, as long as it is on its way or if output is broken, or
\* if the program stops.
RepliesInOrder ==
    /\ WholeLines
    /\ Cardinality(Asked) - Cardinality(Answers) \in (IF loop = "scan" THEN {0} ELSE {0, 1})
    /\ \A i \in Asked, n \in Answers :
          Rank(Asked, i) = Rank(Answers, n) => stdout[n].message.id = IdOf(lines[i])

\* The notifications, and the jobs that they are from.
Notified == {n \in DOMAIN stdout : ~IsReply(n) /\ Complete(n)}
Told == {stdout[n].message.job : n \in Notified}

\* The groups whose verification failed, each by its job and its number.
FailedGroups == UNION {{j} \X (1..jobs[j].errors) : j \in Jobs}

\* When the program ends: each verification that got a place has sent its notification,
\* and counted it, or counted that it failed, besides the groups that failed; and what
\* it has sent is about findings of its scan.
VerificationCounted ==
    main = "ended" =>
        /\ ok = Cardinality(Notified)
        /\ failed = Cardinality({j \in Jobs \ Told : jobs[j].at = "done"})
                    + Cardinality(FailedGroups)
        /\ \A n \in Notified : \A v \in stdout[n].message.verdicts :
              \E f \in Range(jobs[stdout[n].message.job].scan) : v = Verdict(f)

\* Once the client has closed its end, every request has been handled, every response
\* written, every verification has ended, and the program too, unless it stopped before.
EndsAfterInput == eof ~> main = "ended"

=============================================================================
