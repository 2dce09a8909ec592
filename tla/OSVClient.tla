------------------------------- MODULE OSVClient ------------------------------
(***************************************************************************)
(* QueryBatch, the query of the OSV database for the dependencies of a     *)
(* manifest: one batch request, whose answer is mapped to the names of the *)
(* dependencies, and then one request for the details of every             *)
(* vulnerability that came without, in goroutines bounded by a semaphore.  *)
(* Every request goes through doRequest, which retries what is transient   *)
(* with a backoff in between; one deadline covers all of them.             *)
(*                                                                         *)
(* A dependency is its index in the manifest.  Vulnerabilities are ids;    *)
(* the length of a backoff and the text of errors are left out.  A request *)
(* that finds its context done gives up: between two attempts, in an       *)
(* attempt, or after it.                                                   *)
(***************************************************************************)
EXTENDS Naturals, Sequences, FiniteSets

CONSTANTS
    Batch,              \* the batch request; the others fetch the details of one entry
    Names,              \* names of packages
    DepName,            \* the names of the dependencies, a sequence
    Vulns,              \* ids of vulnerabilities
    Detailed,           \* those the batch endpoint returns with their details
    MaxAttempts,        \* maxAttempts
    HydrateConcurrency  \* hydrateConcurrency

Deps    == DOMAIN DepName
Fetches == Names \X Vulns
Requests == {Batch} \cup Fetches

ASSUME OSVAssumption ==
    /\ Batch \notin Fetches
    /\ IsFiniteSet(Names) /\ IsFiniteSet(Vulns)
    /\ DepName \in Seq(Names)
    /\ Detailed \subseteq Vulns
    /\ MaxAttempts \in Nat \ {0}
    /\ HydrateConcurrency \in Nat \ {0}

VARIABLES
    request,    \* what each request is doing, or how it ended
    attempts,   \* the attempts each request has begun
    expired,    \* the context is done: deadline, or cancelled by the caller
    sem,        \* the number of places taken in the semaphore of hydrate
    wg,         \* the counter of its wait group
    results,    \* the map from names to vulnerabilities, with or without details
    phase,      \* QueryBatch: the batch, the details, or how it returned
    affected    \* history: what the service knows of each dependency

vars == <<request, attempts, expired, sem, wg, results, phase, affected>>

Ended == {"answered", "refused", "failed"}

TypeOK ==
    /\ request \in [Requests -> {"none", "queued", "trying", "backoff"} \cup Ended]
    /\ attempts \in [Requests -> 0..MaxAttempts]
    /\ expired \in BOOLEAN
    /\ sem \in 0..HydrateConcurrency
    /\ wg \in 0..Cardinality(Fetches)
    /\ results \in [Names -> [Vulns -> {"absent", "minimal", "full"}]]
    /\ phase \in {"batch", "hydrate", "results", "error"}
    /\ affected \in [Deps -> SUBSET Vulns]

\* The call with at least one dependency; without any it returns an empty map.
Init ==
    /\ request = [q \in Requests |-> IF q = Batch THEN "trying" ELSE "none"]
    /\ attempts = [q \in Requests |-> IF q = Batch THEN 1 ELSE 0]
    /\ expired = FALSE
    /\ sem = 0
    /\ wg = 0
    /\ results = [n \in Names |-> [v \in Vulns |-> "absent"]]
    /\ phase = "batch"
    /\ affected = [d \in Deps |-> {}]

-----------------------------------------------------------------------------
(* doRequest.                                                              *)

\* A variant whose goroutines give the place back only when they have the details.
Finish_LeaksOnFailure(q, how) ==
    /\ request' = [request EXCEPT ![q] = how]
    /\ sem' = IF q # Batch /\ how = "answered" THEN sem - 1 ELSE sem
    /\ wg' = IF q # Batch THEN wg - 1 ELSE wg

\* A request ends; the goroutine of a fetch runs its deferred calls, which give back
\* its place in the semaphore and count down the wait group.
Finish(q, how) ==
    /\ request' = [request EXCEPT ![q] = how]
    /\ sem' = IF q # Batch THEN sem - 1 ELSE sem
    /\ wg' = IF q # Batch THEN wg - 1 ELSE wg

\* The service, or the network, fails in a way that is worth a retry.
Transient(q) ==
    /\ request[q] = "trying"
    /\ IF expired \/ attempts[q] = MaxAttempts
       THEN Finish(q, "failed")
       ELSE /\ request' = [request EXCEPT ![q] = "backoff"]
            /\ UNCHANGED <<sem, wg>>
    /\ UNCHANGED <<attempts, expired, results, phase, affected>>

\* The backoff is over: the next attempt.
Retry(q) ==
    /\ request[q] = "backoff"
    /\ request' = [request EXCEPT ![q] = "trying"]
    /\ attempts' = [attempts EXCEPT ![q] = @ + 1]
    /\ UNCHANGED <<expired, sem, wg, results, phase, affected>>

\* The context ends an attempt or a backoff.
GiveUp(q) ==
    /\ expired
    /\ request[q] \in {"trying", "backoff"}
    /\ Finish(q, "failed")
    /\ UNCHANGED <<attempts, expired, results, phase, affected>>

\* A variant that decodes into the entry itself, and loses it when that fails.
Refuse_DropsEntry(q) ==
    /\ request[q] = "trying"
    /\ Finish(q, "refused")
    /\ results' = [n \in Names |-> [v \in Vulns |->
                     IF q = <<n, v>> THEN "absent" ELSE results[n][v]]]
    /\ UNCHANGED <<attempts, expired, phase, affected>>

\* A status that is neither OK nor transient, or a body that does not decode.
Refuse(q) ==
    /\ request[q] = "trying"
    /\ Finish(q, "refused")
    /\ UNCHANGED <<attempts, expired, results, phase, affected>>

-----------------------------------------------------------------------------
(* QueryBatch.                                                             *)

\* A result is stored under the name of its dependency, if it is not empty; of two
\* dependencies with one name the later one overwrites what the earlier one had.
Mapped(found) ==
    [n \in Names |->
        LET hits == {d \in Deps : DepName[d] = n /\ found[d] # {}}
            last == CHOOSE d \in hits : \A e \in hits : e <= d
        IN  [v \in Vulns |-> IF hits = {} \/ v \notin found[last] THEN "absent"
                             ELSE IF v \in Detailed THEN "full" ELSE "minimal"]]

Minimal(r) == {q \in Fetches : r[q[1]][q[2]] = "minimal"}

\* The batch is answered: map the results and start to fetch the missing details.
AnswerBatch ==
    /\ request[Batch] = "trying"
    /\ \E found \in [Deps -> SUBSET Vulns] :
          /\ affected' = found
          /\ results' = Mapped(found)
    /\ request' = [q \in Requests |->
                     IF q = Batch THEN "answered"
                     ELSE IF q \in Minimal(results') THEN "queued" ELSE "none"]
    /\ wg' = Cardinality(Minimal(results'))
    /\ phase' = "hydrate"
    /\ UNCHANGED <<attempts, expired, sem>>

\* The batch has failed, and so has the scan.
FailBatch ==
    /\ phase = "batch"
    /\ request[Batch] \in {"refused", "failed"}
    /\ phase' = "error"
    /\ UNCHANGED <<request, attempts, expired, sem, wg, results, affected>>

\* A goroutine of hydrate gets a place in the semaphore and begins its fetch.
StartFetch(q) ==
    /\ request[q] = "queued"
    /\ sem < HydrateConcurrency
    /\ sem' = sem + 1
    /\ request' = [request EXCEPT ![q] = "trying"]
    /\ attempts' = [attempts EXCEPT ![q] = 1]
    /\ UNCHANGED <<expired, wg, results, phase, affected>>

\* The details arrive and replace the minimal entry; if they do not, it stays.
AnswerFetch(q) ==
    /\ request[q] = "trying"
    /\ Finish(q, "answered")
    /\ results' = [results EXCEPT ![q[1]][q[2]] = "full"]
    /\ UNCHANGED <<attempts, expired, phase, affected>>

\* A variant that awaits the places in the semaphore, not the goroutines.
Return_AwaitsPlaces ==
    /\ phase = "hydrate"
    /\ sem = 0
    /\ phase' = "results"
    /\ UNCHANGED <<request, attempts, expired, sem, wg, results, affected>>

\* wg.Wait() returns.
Return ==
    /\ phase = "hydrate"
    /\ wg = 0
    /\ phase' = "results"
    /\ UNCHANGED <<request, attempts, expired, sem, wg, results, affected>>

\* Thirty seconds are over, or the caller's context is done.
Expire ==
    /\ phase \in {"batch", "hydrate"}
    /\ ~expired
    /\ expired' = TRUE
    /\ UNCHANGED <<request, attempts, sem, wg, results, phase, affected>>

Returned ==
    /\ phase \in {"results", "error"}
    /\ UNCHANGED vars

Next ==
    \/ \E q \in Requests : Transient(q) \/ Retry(q) \/ GiveUp(q) \/ Refuse(q)
    \/ \E q \in Fetches : StartFetch(q) \/ AnswerFetch(q)
    \/ AnswerBatch \/ FailBatch \/ Return \/ Expire
    \/ Returned

\* The goroutines run and the timers fire.  The service need not answer.
Fairness ==
    /\ \A q \in Requests : WF_vars(Retry(q)) /\ WF_vars(GiveUp(q))
    /\ \A q \in Fetches : WF_vars(StartFetch(q))
    /\ WF_vars(FailBatch) /\ WF_vars(Return) /\ WF_vars(Expire)

Spec == Init /\ [][Next]_vars /\ Fairness

-----------------------------------------------------------------------------
(* Properties.                                                             *)

\* The fetches in an attempt or between two of them.
Fetching == {q \in Fetches : request[q] \in {"trying", "backoff"}}

\* hydrateConcurrency bounds the fetches in an attempt or in a backoff, so that "a
\* vulnerable manifest with many CVEs does not open an unbounded fan-out".
FanOutBounded == Cardinality(Fetching) <= HydrateConcurrency

\* Every vulnerability that the service knows for a dependency is reported under its
\* name, whether the fetches of details fail, are refused or run out of time.
NothingLost ==
    phase = "results" =>
        \A d \in Deps : \A v \in affected[d] : results[DepName[d]][v] # "absent"

\* When the results are returned, no goroutine is left that could still write to
\* them, and an entry lacks its details only if its own fetch was tried and ended
\* without them.
NoWriterLeft ==
    phase = "results" =>
        \A q \in Fetches :
            /\ request[q] \in {"none"} \cup Ended
            /\ results[q[1]][q[2]] = "minimal" => request[q] \in {"refused", "failed"}

\* QueryBatch returns, although the service may never answer, every fetch may be in
\* a retry and the semaphore full when the deadline passes.
QueryReturns == <>(phase \in {"results", "error"})

=============================================================================
