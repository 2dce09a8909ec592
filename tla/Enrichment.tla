------------------------------ MODULE Enrichment ------------------------------
(***************************************************************************)
(* The asynchronous LLM enrichment of the analysis handlers and the way    *)
(* main.go shuts it down.  A handler answers its request at once and       *)
(* leaves one goroutine per finding behind (cleanarch, vulnscanner), or    *)
(* one goroutine for the whole answer (iamguard).  A goroutine takes a     *)
(* slot of its handler's global semaphore, calls the LLM, pushes the       *)
(* result to the client as a notification and counts what became of it.    *)
(* When the transport has stopped, main shuts the handlers down one after  *)
(* the other with one drain deadline for all of them; then the process     *)
(* exits and takes every goroutine that is left with it.                   *)
(*                                                                         *)
(* Abstractions: a finding is its index; an LLM answer is usable or not    *)
(* (an error, a deadline, an empty text or one that does not parse); a     *)
(* goroutine's last counter update and its deferred release of the slot    *)
(* and of the wait group are one step, since nothing blocks between them.  *)
(***************************************************************************)
EXTENDS Naturals, Sequences, FiniteSets

CONSTANTS
    ArchRequests,    \* requests of cleanarch/analyze
    VulnRequests,    \* requests of vulnscanner/scan
    PolicyRequests,  \* requests of iamguard/analyze
    MaxFindings,     \* bound of the model: findings of one analysis
    MaxArch,         \* cleanarch's maxPerRequest: enrichments started for one request
    MaxVuln,         \* vulnscanner's maxPerRequest
    MaxConcurrent    \* maxConcurrent: the capacity of each handler's semaphore

Requests == ArchRequests \cup VulnRequests \cup PolicyRequests

ASSUME RequestsAssumption ==
    /\ IsFiniteSet(ArchRequests) /\ IsFiniteSet(VulnRequests) /\ IsFiniteSet(PolicyRequests)
    /\ ArchRequests \cap VulnRequests = {}
    /\ PolicyRequests \cap (ArchRequests \cup VulnRequests) = {}
ASSUME LimitsAssumption ==
    /\ MaxFindings \in Nat
    /\ MaxArch \in Nat \ {0}
    /\ MaxVuln \in Nat \ {0}
    /\ MaxConcurrent \in Nat \ {0}

VARIABLES
    req,        \* what each request is doing
    todo,       \* the goroutines the handler has still to start for a request
    task,       \* what each enrichment goroutine is doing, or how it ended
    sem,        \* tokens in each handler's globalSem
    inflight,   \* each handler's WaitGroup counter
    ok,         \* each handler's EnrichmentsOK (PoliciesOK) counter
    failed,     \* each handler's EnrichmentsFailed (PoliciesFailed) counter
    cancelled,  \* has the handler's baseCtx been cancelled?
    conn,       \* environment: the client that is to receive the notifications
    at,         \* main: 0 while serving, else the handler being shut down
    drainOver,  \* main: drainCtx has expired
    ended,      \* history: how each handler's Shutdown returned
    late        \* history: requests still being handled when the transport stopped

counters == <<ok, failed>>
shutdown == <<cancelled, at, drainOver, ended, late>>
vars == <<req, todo, task, sem, inflight, ok, failed, conn, cancelled, at,
          drainOver, ended, late>>

\* main shuts the handlers down in this order.
ShutdownOrder == <<"cleanarch", "vulnscanner", "iamguard">>
Handlers == {"cleanarch", "vulnscanner", "iamguard"}
Exited == Len(ShutdownOrder) + 1

HandlerOf(r) ==
    IF r \in ArchRequests THEN "cleanarch"
    ELSE IF r \in VulnRequests THEN "vulnscanner" ELSE "iamguard"

\* The cap on the goroutines of one request; iamguard always starts one.
Limit(r) ==
    CASE HandlerOf(r) = "cleanarch" -> MaxArch
      [] HandlerOf(r) = "vulnscanner" -> MaxVuln
      [] OTHER -> 1
MaxPerRequest == IF MaxArch > MaxVuln THEN MaxArch ELSE MaxVuln

Tasks == Requests \X (1..MaxPerRequest)
Owner(t) == HandlerOf(t[1])

Holding == {"calling", "sending"}
Running == {"waiting"} \cup Holding
Over    == {"delivered", "lost", "cut", "failed", "dropped"}
Stages  == {"none"} \cup Running \cup Over

\* The goroutines of handler h that are in one of the given stages.
In(h, stages) == {t \in Tasks : Owner(t) = h /\ task[t] \in stages}

TypeOK ==
    /\ req \in [Requests -> {"new", "spawning", "answered"}]
    /\ todo \in [Requests -> 0..MaxPerRequest]
    /\ task \in [Tasks -> Stages]
    /\ sem \in [Handlers -> Nat]
    /\ inflight \in [Handlers -> Nat]
    /\ ok \in [Handlers -> Nat]
    /\ failed \in [Handlers -> Nat]
    /\ cancelled \in [Handlers -> BOOLEAN]
    /\ conn \in [Requests -> {"reading", "stalled", "gone"}]
    /\ at \in 0..Exited
    /\ drainOver \in BOOLEAN
    /\ ended \in [Handlers -> {"none", "drained", "cancelled"}]
    /\ late \subseteq Requests

Init ==
    /\ req = [r \in Requests |-> "new"]
    /\ todo = [r \in Requests |-> 0]
    /\ task = [t \in Tasks |-> "none"]
    /\ sem = [h \in Handlers |-> 0]
    /\ inflight = [h \in Handlers |-> 0]
    /\ ok = [h \in Handlers |-> 0]
    /\ failed = [h \in Handlers |-> 0]
    /\ cancelled = [h \in Handlers |-> FALSE]
    /\ conn = [r \in Requests |-> "reading"]
    /\ at = 0
    /\ drainOver = FALSE
    /\ ended = [h \in Handlers |-> "none"]
    /\ late = {}

-----------------------------------------------------------------------------
(* Handling a request.                                                     *)

\* A variant without the cap.
Wanted_Uncapped(r, findings) == findings

\* How many goroutines an analysis with this many findings starts.
Wanted(r, findings) == IF findings > Limit(r) THEN Limit(r) ELSE findings

\* The handler has analysed the request and decides whether to enrich: only with
\* findings, and with a client session to deliver to.
Analyze(r) ==
    /\ at = 0
    /\ req[r] = "new"
    /\ \E findings \in 0..MaxFindings, session \in BOOLEAN :
          todo' = [todo EXCEPT ![r] = IF session THEN Wanted(r, findings) ELSE 0]
    /\ req' = [req EXCEPT ![r] = "spawning"]
    /\ UNCHANGED <<task, sem, inflight, counters, conn, shutdown>>

\* One turn of the loop of startBackgroundEnrichment: inflight.Add(1); go ...
Spawn(r) ==
    /\ at # Exited
    /\ todo[r] > 0
    /\ LET h == HandlerOf(r)
       IN  /\ task' = [task EXCEPT ![<<r, todo[r]>>] = "waiting"]
           /\ inflight' = [inflight EXCEPT ![h] = @ + 1]
    /\ todo' = [todo EXCEPT ![r] = @ - 1]
    /\ UNCHANGED <<req, sem, counters, conn, shutdown>>

\* Handle returns and the transport writes the response.
Answer(r) ==
    /\ at # Exited
    /\ req[r] = "spawning"
    /\ todo[r] = 0
    /\ req' = [req EXCEPT ![r] = "answered"]
    /\ UNCHANGED <<todo, task, sem, inflight, counters, conn, shutdown>>

-----------------------------------------------------------------------------
(* An enrichment goroutine.                                                *)

\* select { case h.globalSem <- struct{}{}: ...
Acquire(t) ==
    /\ at # Exited
    /\ task[t] = "waiting"
    /\ sem[Owner(t)] < MaxConcurrent
    /\ task' = [task EXCEPT ![t] = "calling"]
    /\ sem' = [sem EXCEPT ![Owner(t)] = @ + 1]
    /\ UNCHANGED <<req, todo, inflight, counters, conn, shutdown>>

\* A variant that returns without inflight.Done().
Abandon_SkipsDone(t) ==
    /\ at # Exited
    /\ task[t] = "waiting"
    /\ cancelled[Owner(t)]
    /\ task' = [task EXCEPT ![t] = "dropped"]
    /\ UNCHANGED <<req, todo, sem, inflight, counters, conn, shutdown>>

\* ... case <-h.baseCtx.Done(): return }
Abandon(t) ==
    /\ at # Exited
    /\ task[t] = "waiting"
    /\ cancelled[Owner(t)]
    /\ task' = [task EXCEPT ![t] = "dropped"]
    /\ inflight' = [inflight EXCEPT ![Owner(t)] = @ - 1]
    /\ UNCHANGED <<req, todo, sem, counters, conn, shutdown>>

\* The LLM answered with something usable, perhaps from the cache and perhaps
\* after the context was cancelled.
CallSucceeds(t) ==
    /\ at # Exited
    /\ task[t] = "calling"
    /\ task' = [task EXCEPT ![t] = "sending"]
    /\ UNCHANGED <<req, todo, sem, inflight, counters, conn, shutdown>>

\* A variant that gives the slot back only after a successful call.
Leave_LeaksOnFailure(t, outcome) ==
    /\ task' = [task EXCEPT ![t] = outcome]
    /\ sem' = [sem EXCEPT ![Owner(t)] = IF outcome = "failed" THEN @ ELSE @ - 1]
    /\ inflight' = [inflight EXCEPT ![Owner(t)] = @ - 1]
    /\ UNCHANGED <<req, todo, conn, shutdown>>

\* The deferred calls of a goroutine that holds a slot.
Leave(t, outcome) ==
    /\ task' = [task EXCEPT ![t] = outcome]
    /\ sem' = [sem EXCEPT ![Owner(t)] = @ - 1]
    /\ inflight' = [inflight EXCEPT ![Owner(t)] = @ - 1]
    /\ UNCHANGED <<req, todo, conn, shutdown>>

CountOK(t)     == ok' = [ok EXCEPT ![Owner(t)] = @ + 1] /\ failed' = failed
CountFailed(t) == failed' = [failed EXCEPT ![Owner(t)] = @ + 1] /\ ok' = ok

CallFails(t) ==
    /\ at # Exited
    /\ task[t] = "calling"
    /\ CountFailed(t)
    /\ Leave(t, "failed")

CallReturns(t) == CallSucceeds(t) \/ CallFails(t)

\* notifier.Send found the session and room in its channel.
Deliver(t) ==
    /\ at # Exited
    /\ task[t] = "sending"
    /\ conn[t[1]] = "reading"
    /\ CountOK(t)
    /\ Leave(t, "delivered")

\* The session is gone: Send has no target, or finds it done, and returns nil.
Lose(t) ==
    /\ at # Exited
    /\ task[t] = "sending"
    /\ conn[t[1]] = "gone"
    /\ CountOK(t)
    /\ Leave(t, "lost")

\* A variant in which no handler looks at the error of Send.
CutOff_CountsOK(t) ==
    /\ at # Exited
    /\ task[t] = "sending"
    /\ cancelled[Owner(t)]
    /\ CountOK(t)
    /\ Leave(t, "cut")

\* A variant whose Send does not select on its context.
CutOff_IgnoresContext(t) ==
    /\ at # Exited
    /\ task[t] = "sending"
    /\ cancelled[Owner(t)]
    /\ conn[t[1]] # "stalled"
    /\ CountFailed(t)
    /\ Leave(t, "cut")

\* The cancelled baseCtx ends Send.  vulnscanner ignores the error of Send.
CutOff(t) ==
    /\ at # Exited
    /\ task[t] = "sending"
    /\ cancelled[Owner(t)]
    /\ IF Owner(t) = "vulnscanner" THEN CountOK(t) ELSE CountFailed(t)
    /\ Leave(t, "cut")

SendReturns(t) == Deliver(t) \/ Lose(t) \/ CutOff(t)

-----------------------------------------------------------------------------
(* The clients.  What a client does is seen only by a Send to it, so its     *)
(* moves may wait until there is one.                                      *)

Awaited(r) == at # Exited /\ \E i \in 1..MaxPerRequest : task[<<r, i>>] = "sending"

\* The client stops reading, and its event channel is full.
Stall(r) ==
    /\ Awaited(r)
    /\ conn[r] = "reading"
    /\ conn' = [conn EXCEPT ![r] = "stalled"]
    /\ UNCHANGED <<req, todo, task, sem, inflight, counters, shutdown>>

Resume(r) ==
    /\ Awaited(r)
    /\ conn[r] = "stalled"
    /\ conn' = [conn EXCEPT ![r] = "reading"]
    /\ UNCHANGED <<req, todo, task, sem, inflight, counters, shutdown>>

Disconnect(r) ==
    /\ Awaited(r)
    /\ conn[r] # "gone"
    /\ conn' = [conn EXCEPT ![r] = "gone"]
    /\ UNCHANGED <<req, todo, task, sem, inflight, counters, shutdown>>

-----------------------------------------------------------------------------
(* Shutdown.                                                               *)

\* The handler that main is shutting down.
Current == ShutdownOrder[at]
ShuttingDown == at \in 1..Len(ShutdownOrder)

\* Transport.Start returns.  Its own grace period may have run out, so requests
\* may still be being handled.
Stop ==
    /\ at = 0
    /\ at' = 1
    /\ late' = {r \in Requests : req[r] = "spawning"}
    /\ UNCHANGED <<req, todo, task, sem, inflight, counters, conn, cancelled,
                   drainOver, ended>>

\* context.WithTimeout(context.Background(), 5*time.Second) expires.
DrainTimeout ==
    /\ ShuttingDown
    /\ ~drainOver
    /\ drainOver' = TRUE
    /\ UNCHANGED <<req, todo, task, sem, inflight, counters, conn, cancelled, at,
                   ended, late>>

\* Shutdown of the current handler returns, and main goes on to the next one.
Return(how) ==
    /\ ended' = [ended EXCEPT ![Current] = how]
    /\ at' = at + 1
    /\ UNCHANGED <<req, todo, task, sem, inflight, counters, conn, drainOver, late>>

\* A variant that waits for the semaphore to be free, not for the wait group.
Drained_AwaitsSlotsOnly ==
    /\ ShuttingDown
    /\ Current # "vulnscanner"
    /\ ~cancelled[Current]
    /\ sem[Current] = 0
    /\ cancelled' = [cancelled EXCEPT ![Current] = TRUE]
    /\ Return("drained")

\* case <-done: every goroutine had finished before anything was cancelled.
Drained ==
    /\ ShuttingDown
    /\ Current # "vulnscanner"
    /\ ~cancelled[Current]
    /\ inflight[Current] = 0
    /\ cancelled' = [cancelled EXCEPT ![Current] = TRUE]
    /\ Return("drained")

\* baseCancel(): at once in vulnscanner, once drainCtx has expired elsewhere.
Cancel ==
    /\ ShuttingDown
    /\ ~cancelled[Current]
    /\ Current = "vulnscanner" \/ drainOver
    /\ cancelled' = [cancelled EXCEPT ![Current] = TRUE]
    /\ UNCHANGED <<req, todo, task, sem, inflight, counters, conn, at, drainOver,
                   ended, late>>

\* A variant that returns at once after cancelling.
Unwound_AtOnce ==
    /\ ShuttingDown
    /\ cancelled[Current]
    /\ UNCHANGED cancelled
    /\ Return("cancelled")

\* Then wait for the goroutines to unwind.
Unwound ==
    /\ ShuttingDown
    /\ cancelled[Current]
    /\ inflight[Current] = 0
    /\ UNCHANGED cancelled
    /\ Return("cancelled")

\* The process has exited: nothing runs any more.
Gone ==
    /\ at = Exited
    /\ UNCHANGED vars

Next ==
    \/ \E r \in Requests :
          Analyze(r) \/ Spawn(r) \/ Answer(r) \/ Stall(r) \/ Resume(r) \/ Disconnect(r)
    \/ \E t \in Tasks :
          \/ Acquire(t) \/ Abandon(t)
          \/ CallSucceeds(t) \/ CallFails(t)
          \/ Deliver(t) \/ Lose(t) \/ CutOff(t)
    \/ Stop \/ DrainTimeout \/ Drained \/ Cancel \/ Unwound
    \/ Gone

\* Every goroutine that can run does run, every LLM call ends (enrichTimeout, and
\* the backends honour their context), the handlers finish what they started, and
\* main and its timer go on.  Nothing is assumed of the clients, nor that anyone
\* ever sends a request or stops the server.
Fairness ==
    /\ \A t \in Tasks :
          /\ WF_vars(Acquire(t)) /\ WF_vars(Abandon(t))
          /\ WF_vars(CallReturns(t)) /\ WF_vars(SendReturns(t))
    /\ \A r \in Requests : WF_vars(Spawn(r))
    /\ WF_vars(DrainTimeout) /\ WF_vars(Drained) /\ WF_vars(Cancel) /\ WF_vars(Unwound)

Spec == Init /\ [][Next]_vars /\ Fairness

-----------------------------------------------------------------------------
(* Safety.                                                                 *)

\* Whichever way its goroutines leave - no slot taken, failed call, failed or cut
\* off Send, shutdown - a handler's semaphore holds exactly the tokens of the
\* goroutines between the select and the deferred release, never more than its
\* capacity: no exit path leaks a slot or releases one twice.
SlotsConserved ==
    \A h \in Handlers :
        /\ sem[h] = Cardinality(In(h, Holding))
        /\ sem[h] <= MaxConcurrent

\* The wait group counts exactly the goroutines that were started and have not
\* returned, so that Shutdown's Wait means what it says.
InflightExact == \A h \in Handlers : inflight[h] = Cardinality(In(h, Running))

CountedOK(h) == {"delivered", "lost"} \cup (IF h = "vulnscanner" THEN {"cut"} ELSE {})
CountedFailed(h) == {"failed"} \cup (IF h = "vulnscanner" THEN {} ELSE {"cut"})

\* Every enrichment that took a slot is counted once when it ends.  In cleanarch
\* and iamguard, OK means that Send returned no error; in vulnscanner, which
\* ignores that error, it also counts those the shutdown cut off.  Those that
\* never got a slot are counted nowhere.
CountersExact ==
    \A h \in Handlers :
        /\ ok[h] = Cardinality(In(h, CountedOK(h)))
        /\ failed[h] = Cardinality(In(h, CountedFailed(h)))

\* The goroutines of the requests of h that were answered before the transport
\* stopped.
Punctual(h) == {t \in Tasks : Owner(t) = h /\ t[1] \notin late}

\* When Shutdown of a handler has returned, by draining or after cancelling, no
\* goroutine of a request answered before the transport stopped is still running:
\* none can use the LLM or the notifier that main goes on to tear down.
ShutdownJoins ==
    \A h \in Handlers :
        ended[h] # "none" => \A t \in Punctual(h) : task[t] \notin Running

\* "Drain ... so async LLM work isn't cut off mid-flight on shutdown": a Shutdown
\* that returns nil has dropped and cut off none of those goroutines.
CleanDrainDropsNothing ==
    \A h \in Handlers :
        ended[h] = "drained" => \A t \in Punctual(h) : task[t] \notin {"dropped", "cut"}

-----------------------------------------------------------------------------
(* Liveness.                                                               *)

\* Once the transport has stopped, the process exits, although clients have
\* stopped reading, goroutines wait for slots and late requests start new ones.
ShutdownTerminates == at > 0 ~> at = Exited

\* As long as no client stops reading for ever, no goroutine waits for a slot for
\* ever, and none holds one for ever.
EnrichmentsEnd ==
    (\A r \in Requests : <>[](conn[r] # "stalled"))
        => \A t \in Tasks : task[t] = "waiting" ~> (task[t] \in Over \/ at = Exited)

=============================================================================
