# KiroGuard: TLA+ specifications, model checking and proofs

KiroGuard is an MCP server in Go. Clients call its tools over JSON-RPC (stdio
or HTTP with server-sent events); the tools scan diffs, dependencies, source
trees and infrastructure code, answer at once, and push what an LLM has to say
about the findings later, as notifications. Two things are hard to get right in
it. One is concurrency: goroutines that outlive the requests that started them,
semaphores and wait groups, an LLM that may be slow or down, clients that stop
reading or vanish, a configuration file that is edited while it is reloaded,
deadlines and retries, and a shutdown that has to bring all of it to an end. The
other is analysis by pattern: tools that read code line by line, without a
parser, and have to keep track of blocks, line numbers, names and order.

This directory holds the specifications of those parts (`*.tla`), the TLC
configurations that check them (`*.cfg`), proofs that TLAPS checks
(`*Proofs.tla`) and the manifest `PROJECT.json`, which relates every definition to
the lines of the source it models.

## Inventory of the system

Sources are below `src/`. "Hard" names the behaviour that tests hardly reach.

| Part | State | Operations | Hard | What makes it correct |
|---|---|---|---|---|
| Circuit breaker `internal/llm/circuit_breaker.go` | state, failure count, time of the last change, under a mutex | `Complete`, in it `currentState`, `onSuccess`, `onFailure`, `invokeFallback` | calls run without the mutex and record their outcome after the state has moved on | state and count agree; opens on a streak only; fails fast for the cooldown only; recovers |
| Prompt cache `internal/llm/cache.go` | map, LRU list, entries | `Complete`, `Clear`, `removeOldest` | unlocked between miss and store, and between finding a hit and reading it | map and list coherent; a hit is atomic; it is an LRU map |
| Background enrichment `cleanarch/`, `vulnscanner/`, `iamguard/handler.go` | semaphore, wait group, base context, counters per handler | `Handle`, `startBackground...`, `Shutdown` | every exit path must give back what it took; stalled clients; late requests | slots and wait groups exact; Shutdown joins; nothing waits for ever |
| Shutdown `main.go` | position in the sequence, one shared drain deadline | `Shutdown` of five handlers in turn | one slow drain uses up the deadline of the others | the process ends; a clean drain cuts nothing off |
| SSE transport `internal/transport/sse.go` | clients by session, one channel each | GET `/sse`, `Send`, POST `/message` and `/` | sends over a snapshot of clients that come and go; full channels; a POST that waits in `Send` | isolation of sessions, order, no stuck sender, a 202 means delivered |
| Stdio transport `internal/transport/stdio.go` | a writer under a mutex | `Start`, `Send` | reading blocks, so cancellation is noticed late; background writes to the same output | one response per request, in order, lines not interleaved |
| RPC dispatcher `internal/rpc` | handler table under a read-write mutex | `Register`, `Dispatch`, `handleToolsCall` | panics in handlers | every request gets one response with its id |
| Configuration watcher `internal/config/watcher.go` | current configuration, debounce timer | `loop`, `reload`, `Stop` | reloads overlap; events during a reload | no edit is missed; memory settles on the file |
| OSV client `internal/vulnscanner/osv.go` | results, semaphore, wait group, deadline | `QueryBatch`, `hydrate`, `GetVuln`, `doRequest` | retries, fan-out and one deadline together | nothing known is lost; bounded fan-out; it returns |
| Architecture analysis `cleanarch/rules.go`, `ast.go` | rules, edges, import graph | `Evaluate`, `detectLanguage`, the walks for imports | a deadline anywhere in a walk over files that fail in many ways; order of rules | complete or marked as truncated; violations follow the rules |
| Env guard `internal/envguard` | counters, rate limiter | `Handle`, `Scan`, `migrateAll`, `Migrate` | position in a diff; a worker pool with a limiter and timeouts | a secret has its line and file; a migrated secret is the one in AWS |
| PII guard `internal/piiguard` | as the enrichment handlers | `Handle`, `ScanFiles`, `startBackgroundVerification` | partial failure of groups; masked findings | every leak once; verdicts belong to their scan; metrics are exact |
| Lambda guard `internal/lambdaguard` | counters, a wait group | `Handle`, four parsers, the checks, `Shutdown` | attributes found by regular expression | a function has its own attributes |
| IAM guard `internal/iamguard` | as the enrichment handlers | `Handle`, `AnalyzeGoSDKCalls`, `ScanIACForWildcards` | variables resolved by name | a call's action is that of its client's service |
| FinOps guardrail `internal/finops` | none across calls | `DetectFromSource` and its siblings, `Estimate` | nesting without a parser | what is in a loop is reported, and nothing twice |
| Manifest parsers and findings `vulnscanner/parser.go`, `handler.go` | none across calls | `ParseManifest`, `mapToFinding`, `Handle` | blocks, sections; a map's order | what is required is read; the worst goes to the background |

How they interact: the transport parses a request and calls the dispatcher,
which calls a handler; handlers call the LLM through the cache, which calls the
breaker, which calls Bedrock or the heuristic fallback; enrichment goroutines
hand notifications to the transport's `Send`, tagged with the session of the
request; `main` wires all of it, waits for the transport to return and shuts the
handlers down; the configuration watcher runs beside them.

The manifest lists every part under "components", with what is left out, and
every hazard found while reading, at its line, under "hazards".

## Modules

| Module | Models | Run as | Proofs |
|---|---|---|---|
| `CircuitBreaker` | `CircuitBreakerLLM` | `CircuitBreaker.cfg`, `CircuitProbes.cfg` | `LLMProofs` |
| `Enrichment` | enrichment of three handlers, their `Shutdown`, main's sequence | `Enrichment.cfg` | `EnrichmentProofs` |
| `PromptCache` | `CachedLLM` | `MCPromptCache` | `LLMProofs` |
| `BoundedCache` | what `CachedLLM` promises: an atomic LRU map | as a property of `PromptCache` | `LLMProofs` |
| `RecencyList` | moving and dropping elements of a recency list, for both | through them | |
| `SSETransport` | streams, `Send`, and the POSTs that call it | `MCSSETransport` | `SSETransportProofs` |
| `ConfigWatcher` | `ConfigWatcher` | `ConfigWatcher.cfg`, `ConfigStale.cfg` | |
| `OSVClient` | `QueryBatch` and below | `MCOSVClient.cfg`, `OSVNested.cfg` | `OSVClientProofs` |
| `ArchAnalysis` | cleanarch from the rules file to the answer | through `AnalysisTools`, `ArchAllow.cfg` | `ArchAnalysisProofs` |
| `FinOpsDetector`, `DiffScanner`, `VulnScan`, `PIIScanner`, `LambdaGuard`, `IAMGuard` | what finops, envguard, vulnscanner, piiguard, lambdaguard and iamguard make of a text or a directory, as operators | through `Scanners` | `ScannersProofs` |
| `Directories` | what the tools that walk a directory share | through `Scanners` | `ScannersProofs` |
| `Positions` | taking elements in their order, as the tools do with findings, lines and names | through `Scanners` | `SequenceLemmas` |
| `Scanners` | one call of any of those six tools, with the steps between which something may happen | through `AnalysisTools` | `ScannersProofs` |
| `AnalysisTools` | one call of any of the seven tools that main registers | `MCAnalysisTools` | |
| `Dispatcher` | `ParseRequest`, `dispatchSafe`, `tools/call`, as operators | through `StdioServer` | `StdioServerProofs` |
| `StdioServer` | stdio transport, dispatcher, piiguard and the end of main, together | `MCStdioServer` | `StdioServerProofs` |
| `SequenceLemmas` | nothing: what several proofs need about sequences, places, brackets, induction and recursion | | itself |

`Scanners` extends the six tool modules; `StdioServer` extends `Dispatcher` and
`PIIScanner`, `AnalysisTools` extends `Scanners` and `ArchAnalysis`, and the tools use
`Positions`. The names in `ArchAnalysis` that `Scanners` has too begin with `Arch`. The names in `CircuitBreaker` that
`PromptCache` has too begin with `Breaker`, so that `LLMProofs` can extend both. No
module declares a RECURSIVE operator, so that all of them are open to proof.

Operators named `X_Something` beside an action `X` are variants of it with a
plausible mistake. No specification uses them; the manifest pairs each with
the property that must reject it.

### CircuitBreaker

Each caller of `Complete` goes through `Begin` (the critical section of
`currentState` and the branch on its result), one of `PrimarySucceeds` and
`PrimaryFails` (the outcome together with `onSuccess` or `onFailure`), and
`FallbackReturns` if it was sent to the fallback. Calls overlap freely: between
`Begin` and the outcome the circuit may open, cool down and close again. Time is
counted in ticks and saturates at the cooldown. `primaryUp` is the environment:
`Outage` and `Recover` switch it, `Expire` lets a call fail because its own
context is done, and `exposed` remembers which calls in flight may still fail
for reasons of the past. `streak` and `openFor` are history variables that count
what the documentation speaks of (consecutive failures, time since the trip)
independently of the fields of the breaker.

What the checks show: the state is CLOSED exactly while the count is below the
threshold (not obvious, since `onSuccess` resets the count in two of three
states and `onFailure` counts in all of them); HALF_OPEN always has a call in
flight that will decide it; the circuit trips in the step that records the
threshold-th failure in a row and in no other; a call is rejected exactly while
the cooldown runs. `RecoversWhenHealthy`: if the primary stays healthy and calls
keep arriving, the circuit closes for good. Fairness: ticks, and the return of
calls that have begun; the handlers give each call a deadline and the fallback
is local. That calls keep arriving is a premise of the property and not assumed
of the system.

`CircuitProbes.cfg` shows that the comment on HALF_OPEN, "probing primary with 1
test request", does not describe the code: all callers are let through.

### Enrichment

A task is a goroutine: `waiting` for a slot, `calling` the LLM, `sending` the
notification, and then how it ended. `Leave` is the deferred release of slot and
wait group, which every exit goes through. The handlers differ where the code
differs: cleanarch and vulnscanner start up to `maxPerRequest` goroutines,
iamguard one; vulnscanner cancels first when it shuts down and ignores the error
of `Send`. `conn` is the client behind a session: it reads, stalls with its
channel full, or is gone. main's `Stop` starts the sequence; requests that are
still being handled then are recorded in `late`, since the properties of the
drain cannot hold for goroutines started after it.

Fairness: goroutines run, LLM calls end (each has `enrichTimeout`), main goes
on, the drain timer fires. Nothing is assumed of the clients. Under it,
`ShutdownTerminates` holds although clients stall for ever, and `EnrichmentsEnd`
holds if no client stalls for ever: without that premise one stalled client per
slot stops enrichment for all sessions, because `Send` has no deadline of its
own. `CountersExact` states what the metrics mean, which is not what their names
say: a notification to a vanished client counts as OK everywhere, and one cut
off by the shutdown counts as OK in vulnscanner.

### PromptCache and BoundedCache

An entry is an object with an identity, because callers keep a pointer to it
after they have let go of the mutex; ids nobody refers to may be reused. A hit
is two steps, `Lookup` under the lock and `ReturnHit` without it. `HitIsAtomic` says
that what it returns was the cached response of its prompt at some moment since
its lookup, which is true because an entry is never given to another key while
somebody can hold it. The read of `entry.response` is treated as the read of one
word; in Go's memory model it is a data race with line 97, and the model covers
the old and the new value.

`BoundedCache` is the promise: reads, writes and flushes of a map that keeps the
`Capacity` keys used last. `PromptCache` implements it (`ImplementsLRU`). The
refinement mapping takes the abstract recency from the calls (`used`), not from
the concrete list, so that a list kept in the wrong order refutes it.

### SSETransport

A message is one call of `Send`: `Begin` takes the snapshot under the mutex,
`Enqueue`, `Skip` and `Abort` are the three cases of the select for the next
client, in any order of clients. A session is one GET `/sse`: it registers, takes
events and writes them, notices that its client hung up, closes `done` (`Leave`)
and only then unregisters. Some messages are sent by the handler of a POST that
has no id (`Post`, `Abandon`, `Answer`): its context is that of its own client, not
of the session, and it answers 202 whatever `Send` returned. Isolation, order and
reachability are stated over what has been received, is being written or is
queued; `ReachesLiveClients` says that the ignored error hides nothing from a
client that got its 202. `SendsReturn` assumes that the handlers run and that a
connected client goes on reading or hangs up (`Written`); without that a `Send`
whose context is never cancelled may wait for ever, as `Enrichment` models with
stalled clients. The end of `Start` ends no handler and is one of the behaviours
in which nobody connects any more.

### ConfigWatcher

The loop, the timer and every `reload` are processes of their own. `EveryEditIsRead`:
whatever the timer and the reloads are doing when an edit arrives, some reload
reads that content or a newer one. `SettlesUnlessOverlapping` adds what memory and
the subscriber end up with if reloads do not overlap; `ConfigStale.cfg` shows that
without that premise the older of two configurations can stay in memory for
good. Deadlock is not checked, since nobody has to edit the file for ever.

### OSVClient

One request for the batch and one per minimal vulnerability, each retried up to
`maxAttempts` times. `Expire` is the deadline of 30 seconds or the caller's
cancellation, and may strike in an attempt, in a backoff or while fetches wait
for the semaphore. `Finish` is what the deferred calls of a fetch do. `NothingLost`
compares the result with what the service said (`affected`); it holds for
distinct names, and `OSVNested.cfg` shows that it fails for two versions of one
package, whose results overwrite each other. `QueryReturns` assumes nothing of
the service: it may never answer.

### ArchAnalysis

A directory is the sequence of entries in the order of `filepath.Walk`; it grows
while `detectLanguage` reads it (`Meet`), which keeps the instance small without
fixing it. An entry is a file of some language, perhaps a test, unreadable or
broken, or a directory that cannot be listed. The walks of the four languages are
one walk with parameters: which directories are not entered, which files are
parsed, which imports count. An import path is a sequence of segments and a
segment a sequence of its parts between dots, because the code splits at one or
the other. What the parts are made of does not matter (`Names`). `ArchExpire` may strike
anywhere; `Cut` is the check of the context in the walk and `Answer` the later one
that sets `truncated`, so that the race between them is in the model.

`CompleteUnlessTruncated`: the answer has every import of every file of the
language, or says that it is truncated, and then it has a prefix.
`GraphAgreesWithEdges`: the two results of the walk agree at every moment.
`ViolationsFollowRules` compares `Evaluate` and the recursive `matchParts` (a
recursive function here) with a definition of what a pattern denotes as the
existence of a cut of the path, under the rule "the first that matches decides",
which is what the tests of `rules.go` say. The documents say another, that an allow
rule overrides a deny rule wherever it stands (`AllowOverridesDeny`);
`ArchAllow.cfg` shows that the code does not follow it.
The loops that the proofs speak of (`Matches`, `Extended`, `Evaluate`) are
recursive functions here and not folds of the library.

### Scanners and the tools

One behaviour is one call; `AnalysisTools` puts those of cleanarch beside those of the
other six tools, so that one run checks all seven. `Write` adds lines to the text one by one, so that TLC
explores all texts of the given lines up to a bound and every state is a text the
tool may be given; then the handler runs. A line is what the code asks of it
(which patterns match it, where it is indented, which attribute it gives), and the
tool modules are the loops of the code over such lines. What a loop carries from
line to line is a recursive function of the lines read so far (`DepthAfter` and
`StackAfter` in finops, `ScanLine` in envguard, the sections of go.mod in
vulnscanner), and what it collects is taken in the order of the lines. finops, piiguard,
lambdaguard and iamguard answer in one step, or fail at their deadline (where they
have one). vulnscanner reads the manifest and then queries; the order in which a
map is ranged over is a choice. envguard, with a migrator, goes on with one
goroutine for each finding (`Go`, `Admit`, `Throttle`, `Create`, `CreateFails`),
among which the group's limit, the limiter, the cancelled request, AWS's names and
answers that are lost after the secret was created interfere. main passes no
migrator (main.go:100), so that these paths run only when the handler is built
with one, as in the tests.

The properties are references that see the whole text and do not fold over it:

* `LoopCallsReported`: a database call in a loop is reported, and how often
  (`LoopReports`), unless the detector has been led astray. What is in a loop is said by
  the text and not by the patterns: a line is marked with the blocks that begin and
  end on it (`body`, `open`, `ends`), with `single` if it is in a loop without a block,
  and, apart from that, with what the patterns match on it (`loop`, `close`). A call in
  the head of a loop counts as in it, and a line begins and ends at most one block.
  `Mistaken` names how the detectors lose the text. In JavaScript and Java it is any
  line before that the patterns take for something else than it is (`Misread`: a loop in
  one line or without braces, a loop that they do not know, the end of a block behind
  something), a line that ends another block in a loop, or one that closes a block and
  has the head of a loop. In Python it is a loop that they misread, or a line that is
  blank, a comment or a continuation and indented no more than the loop. In Go, which
  is parsed, it is nothing.
* `SecretsLocated`: line and file of a secret in a diff are those that counting
  hunks, additions and context gives, unless `Misled`: an added line that
  looks like a header, or a "No newline" marker, which the scanner takes for
  context. The header of a new file is "+++ b/" and its name; other headers, like that
  of a deleted file, which the code takes for added lines, are left out.
* `LeaksReported`: the findings are the leaks on the lines that do not begin like a
  comment, each exactly once, whatever else is on the line; asking for fewer patterns
  hides none, since then entropy is checked. Lines that begin with `//`, `#` or `--`
  are skipped in every language, and have no findings, be they comments or not; and
  what follows a line that is too long is not read.
* `NamesResolved`: attributes belong to their function and actions to the service
  of their client, where the name has one meaning in its file. A timeout of 0 in
  Terraform is the default.
* `RequirementsRead`: what go.mod, requirements.txt or a lock file requires is
  read, whatever else is in the file.
* `WorstEnriched`: whatever the order of the map, findings are those of the
  database, each once, and none left out of the background work is worse than one
  in it.
* `MigratedSecretIsItsOwn`: two findings with one name never both count as
  migrated. The name is made of file and type by `SanitizeName`, of which nothing is
  assumed: files with different names may have the same one in AWS.

The premises in them (`Mistaken`, `Misled`, namesakes, lines that begin like comments or
are too long)
are where the code's results are not those of the reference; they are the
limits of the tools, listed below, stated as exactly as the checks allow.

### Dispatcher and StdioServer

The client writes lines, closes its end, and may send a signal; output may break.
The loop scans a line, handles it and writes the response; a write takes the
mutex, writes two halves and gives the mutex back, so that interleaved output is
possible in the model and has to be excluded by the code. A tool ends with a
result, an error, a validation error or a panic. A call of piiguard scans one of
a few directories with `PIIScanner`'s operators (and panics where the code does; a
`tools/call` that names `tools/call` is handled as the one in it)
and leaves a verification behind, which takes a slot, asks the model about each
group, and writes a notification to the same output. Results are assumed to marshal,
as all that the handlers return do. When the loop has returned,
main drains, cancels and ends.

A verification keeps the numbers of the findings it has still to ask about and the
verdicts it has got, as sets; its groups come by the first finding that is left, and
no property depends on the order of the rows in one notification.

`RepliesInOrder` covers what the transport, the dispatcher and the recovery from
panics promise together. `VerificationCounted` compares the two counters with what
has been written. `EndsAfterInput` assumes that goroutines run, that calls of the
model return (they have `enrichTimeout`), that the client reads on, and that the
drain timer fires. It does not assume that the client writes or closes anything.

## Runs, bounds and why they are enough

| Run | Bounds | Distinct states | Why enough |
|---|---|---|---|
| breaker | 3 callers, threshold 2, cooldown 2, at most 4 counted failures | 215,932 | a stale caller, a probe and a third that trips; threshold above 1 makes a streak interruptible; the bound on the count exceeds the threshold by 2, beyond which no guard reads it |
| breaker_probes | the same | violated | |
| enrichment | one request each of two handlers with 3 findings, caps 2 and 1, one slot | 176,976 | contention for the slot, a cap below the findings, both kinds of Shutdown; the third handler adds nothing new in kind and is covered by the proofs |
| cache | 3 callers, 3 keys, 2 texts, capacity 2, 1 flush, 5 entries | 39,286 (with symmetry) | 3 keys in 2 places evict; two callers miss one key while the third evicts it; 5 entries are as many as can be referred to at once |
| sse | 2 sessions; to one of them a message of a tool and one of a POST, 1 to everyone; channels of 1 | 429,527 | full channels, order within a session, broadcast, departure of either client during each of the steps; three messages are one being written, one in the channel and one that waits |
| config | 4 edits, one of them invalid | 34,195 | bursts, two overlapping reloads, an edit during each step |
| config_stale | 2 edits | violated | |
| osv | 2 packages, 3 vulnerabilities of which 1 comes with details, 2 attempts, 2 places | 209,588 | more fetches than places, exhaustion of retries, expiry in every phase |
| osv_nested | 2 versions of one package, 2 vulnerabilities | violated | |
| tools | for cleanarch 3 entries of 12 sorts, default rules and rules that allow before and after a deny; for the others texts of 4 to 7 lines of 4 to 17 sorts; 2 workers | 1,465,132 | each reason not to enter or not to parse occurs before and after a file that counts; a pattern with two `**` meets paths of 1 to 5 segments; two nested blocks and something after them; two hunks or two files of a diff; two findings with one name in AWS, of one file and of two; a namesake before or after; 2 packages, one limit of 2 |
| arch_allow | 1 entry, the same rules | violated | |
| server | 2 lines of input of 7 sorts, 3 directories, 1 verification at a time | 406,540 | a request whose verification is still waiting, running or writing when the next response is written; a directory that makes the scan panic |

The caches, thresholds, limits and sets are CONSTANTS with named assumptions; only
`MaxFailures`, `MaxFindings`, `EntryIds`, `MaxFlushes`, `MaxEdits`, `MaxEntries`,
`MaxLines` and the `maxLines` of an input are bounds of the model and not
parameters of the program. The bounds on texts do not limit what is claimed of the
tools: `ScannersProofs` proves their properties for texts of any length, and the run
shows that the premises are met and that each mistake is caught.

Deadlock is checked where a process has to go on (`breaker`, `enrichment`, `cache`,
`sse`, `osv`) and not where one call or the program simply ends.

The type invariants of `CircuitBreaker` (`BreakerTypeOK`) and `Enrichment`, where they say that no
counter goes below zero, are checked in their runs. The others (`TypeOK` in each
module) hold in the same instances, and are proved as part of the inductive
invariants.

## Proofs

`LLMProofs` has two parts. Of the cache it proves `Coherent`, `HitIsAtomic` and the
refinement of `BoundedCache`, for any callers, prompts and texts and any capacity. `Consistent`
relates map, list and contents of the entries: each entry in the list has a key that
the map takes back to it, and the map leads nowhere else; it is stated of any three
such values, so that the lemmas about `touch`, insertion and eviction do not speak
of callers. `Readable` is what makes a hit without the mutex right: the entry it
still has to read has its key and a response that was cached for that key since the
lookup. `Aligned` says that the concrete list is in the order of the abstract
recency; without it an eviction cannot be shown to drop the key that
`BoundedCache` drops. `Implements` then has one case per action: a hit is a read, a
stored answer a write, a flush a flush, everything else a stutter.

Of the breaker it proves, for all sets of clients, thresholds and cooldowns,
type correctness, `ClosedIffBelowThreshold`, `ProbeInFlight`, and the two action
properties `OpensExactlyOnStreak` and `FailFastExactlyForCooldown`. The inductive
invariant is the conjunction of the first three and `HistoryAgrees`, which relates
the history of outcomes to the fields: while the circuit is CLOSED the count *is*
the streak; while it is OPEN the clock *is* the time since the trip. Without
that conjunct the action properties do not follow, because they speak of the
history and the code of its fields.

`EnrichmentProofs` proves the six safety properties of `Enrichment` for all
finite sets of requests and all limits. The counters are compared with
cardinalities of sets of goroutines; `Recount` says how such a cardinality
changes when one goroutine moves to another stage, and every action is an
application of it. `Counting` is the first inductive invariant (types, slots,
wait groups, metrics, and two facts about which goroutines can have started);
`Shutting` extends it with what main's progress implies: handlers end in order
(`EndedAfterStop`), only late requests start goroutines after the transport has
stopped (`LateOnes`), and nothing is dropped or cut before its handler is
cancelled (`UncutUntilCancelled`). Type correctness includes that no semaphore
or wait group goes below zero, which in Go would block or panic.

`SSETransportProofs` proves `Isolation`, `OrderKept` and `ReachesLiveClients`, for any
sessions, messages and capacity of the channels. `Outbox(r)`, what a client has,
is getting or will get, only grows at its end or loses what was queued when the
client has gone (`OutboxStep`), and the three properties are three consequences of
that. `Delivered` excludes that a call comes back to a client it has served (that
is what order needs), `Returned` that a call which another one waited for is still
running; `Reaching` says that a client that a call has to reach is still to be
served or has been; `Answering` ties the answer of a POST to its call.

`OSVClientProofs` proves that the fan-out is bounded, that no fetch is left writing
when `QueryBatch` returns, and `NothingLost`, for any query and limits. Semaphore
and wait group are counted as in `EnrichmentProofs` (`Counting`). `NothingLost` is
stated under `DistinctNames`: without it the property is false, which is what
`osv_nested` shows. What holds without any premise is `LastReported`, which is
inductive: what the service says of a dependency is in the result unless a later
dependency of the same name has results too. `NothingIsLost` is a corollary of it.

`StdioServerProofs` proves `RepliesInOrder` and `VerificationCounted`, for any lines,
directories, answers of the model and limits. Ten parts are needed because loop,
jobs and main meet in the output. `Exclusive` and `HalfWritten` (who holds the mutex,
and whose half line the output ends with) give whole lines. `Answering` and
`Matching` compare the lines that ask for a response with the responses by rank: when
the loop has one in hand, there is one such line more than there are responses,
and the one in hand is that of the last; from this it follows that the n-th
answers the n-th whatever the jobs write in between. `AboutItsScan`, `FromJobs`,
`Counted` and `Waiting` follow a verification from its scan to its notification, the
counters, which lag behind the output by the jobs that have sent and not counted
yet, and the end of main.

`ArchAnalysisProofs` proves `GraphAgreesWithEdges`, `CompleteUnlessTruncated` and
`ViolationsFollowRules`, for all directories, rules files, rules and deadlines.
`Gathered` says that the edges are those of the entries before the one the walk is
at, so that stopping anywhere leaves a prefix; `Stopped` says that it stops early
only with the deadline behind it and the answer saying so. About the operators:
`MatchesIsDenotes` (the recursive matcher accepts the paths that can be cut as the
pattern says, for all patterns and paths), `ExtendedList` (adding to a list without
duplicates adds once), `EvaluateReports` (the loop over edges and rules reports
each denied edge once, in order, with the first rule that speaks of it).

`ScannersProofs` proves the seven properties of `Scanners`, for texts and directories
of any length, any databases, patterns and settings, and any number of workers. The
invariant `IInv` was checked in the run before it was proved. `WellFormed` says which
texts there are (those in which each line `MayFollow` what is before it);
`DirectoryAnswered`, `ManifestAnswered` and `DiffAnswered` that an answer is what the
handler makes of the whole text, whatever the clock, the range over a map or the
goroutines did in between; `Owned` that nothing is migrated before there are findings,
and that AWS has a secret of its own for each finding that counts as migrated, which is
`MigratedSecretIsItsOwn` and inductive with the types. The rest is about what handlers
make of a text, one section for each, going along the text line by line:

* `SecretsLocated`: after n lines `Scan` is in the file of the last header and at the
  line that the hunk has come to, unless it has been misled (`ScanKeepsPlace`), and has
  found what was on each of the lines.
* `RequirementsRead`: after n lines of go.mod the parser is in a block of requirements
  if the manifest is, and has what is required so far, in its order (`ReadSoFar`).
* `WorstEnriched`: whatever the order of the map, a vulnerability of a package is a
  finding once (`FoundOnce`); sorting keeps the findings (`SortedIsSorted`), and
  none of those in front of the limit is less severe than one behind it (`WorstFirst`).
* `LeaksReported`: the leaks are those of the lines that do not begin like a comment
  (`VisibleLeaks`), and the theorem says of the other lines only that they have no
  finding. A file is scanned if nothing speaks against it (`FateOf`); the
  reports of a directory are those of its lines one after the other, so that a leak is
  reported as often as its line reports it.
* `NamesResolved`: in a block without nested ones, what is before the first brace is
  what is in the block (`BlockOfResource`); a variable is known if it is assigned a
  client, and stands for a service of one such client (`ClientKnown`); every action is
  counted as often as it is listed (`ActionsCounted`).
* `LoopCallsReported`: what is open after a line is counted with `Brackets`: where
  each end closes what was opened last, as many are open as were opened since any line
  that nothing from before was closed after, and not closed. `DepthIsOpenLoops` and `StackIsLoops`
  show that the depth of JavaScript and Java and the stack of Python are the loops that
  are open in the text, as long as every line has been read for what it is and no other
  block has ended in a loop (`Astray`; `Mistaken` adds how the line itself is read); `LoopsAround`
  that in Go the loops whose body has a line are as many as `Balance` says, so that a call is
  reported that often.

`SequenceLemmas` has what these share: the places of elements (`Rank`, `InOrder`,
`Selected` of `Positions`), brackets, what occurs in a flattened sequence and how
often, and recursion. The recursive definitions are functions, and TLA+ gives
`f[n \in S] == e` its meaning by a choice: some function that satisfies
the equation, if there is one. `Recursion` proves that there is one; then the choice
satisfies the equation, and `UpTo`, induction for the numbers up to a bound and a
set instead of a predicate, gives what it computes. `FlattenFunction` does this for
the `FlattenSeq` of the library.

The proofs rest on the assumptions on the constants named in the modules, which
TLC evaluates in the runs, and on nothing else. They are: sets that are counted are
finite; limits and capacities are positive, bounds of the model natural numbers;
values that stand for "none", "everyone" or "the batch" are not among the others;
inputs (lines, entries, rules, messages, patterns, what a database knows) have the
fields and kinds the code reads; names of files stand for their order.

The invariants that hold in the runs, the action properties and the refinement are all
stated by theorems. Only model-checked, not proved:

* All liveness: `RecoversWhenHealthy`, `ShutdownTerminates`, `EnrichmentsEnd`,
  `SendsReturn`, `QueryReturns`, `EndsAfterInput`, and what is stated of
  `ConfigWatcher`, which is liveness throughout. It rests on fairness, hence on
  ENABLED, which the prover does not handle.
* The findings: each is a counterexample of its run.

## What the checks found

Four runs are expected to be violated, and listed as findings:

* `circuit_breaker.go:16`: HALF_OPEN probes with every caller, not with one
  request (`breaker_probes`).
* `watcher.go:131`: overlapping reloads may leave the older configuration in
  memory (`config_stale`).
* `osv.go:255`: the results of two versions of one package overwrite each other
  (`osv_nested`).
* `rules.go:83`: a deny rule before an allow rule for the same edge decides, although the
  requirements (`clean-arch/requirements.md:33`), the design (`clean-arch/design.md:326`)
  and the comment above it let the allow rule override (`arch_allow`).

The models follow the code in the following, where a document or a reader may
expect something else; none of it has a run of its own.

Architecture: dotted names of Java and Python are one segment, which the
default rules never match; the two-part entries of the table of Java packages are
never found. A path with "vendor" in it makes `detectLanguage` skip the rest of
the directory it is in.

PII guard: lines that begin with `//`, `#` or `--` are skipped in every language, and with
them what is no comment: a private key whose header, `-----BEGIN ... PRIVATE KEY-----`,
begins its line is never found, although there is a pattern for it. A leak in a comment
is not found either, as one requirement has it (`pii-guard/requirements.md:50`) and an
acceptance criterion has not (PCA-5, line 92). `extractContext` takes byte offsets for offsets in characters and may
panic, which fails the whole scan; the option `entropyThreshold` is not used; a
deadline loses all that has been found; a line above 64 KB silently ends its file;
entropy is checked also when other patterns are named; when the LLM fails,
the notification is sent nevertheless (its requirements, line 70, drop it), and on
stdio one that is cut off by the shutdown counts as OK.

Stdio: a line above 64 KB ends the program; requests without id are answered; the
loop notices a signal only after another line, and then returns an error.

Vulnerability scanner: findings of equal severity come in any order, against the
comment at `handler.go:269`; the vector heuristic counts the ":H" of every metric;
a fixed version may be of another range than the affected one; nested dependencies
of an old lock file are not read.

Env guard: markers and lines that look like headers mislead the line counter; two
secrets of one type in one file share a name in AWS, and so do those of files whose
names differ in other characters than letters, digits and hyphens; a finding that the limiter
refuses is counted nowhere; an error of the ignore file is ignored by main.

FinOps: the explanation speaks of 1000 requests per hour while the cost uses the
configured number; a call in nested Go loops is reported once for each; blank
lines, comments and braces mislead the other detectors: after a loop without a block, like
`items.forEach(x => use(x));` or a for with one statement, those for JavaScript and Java
believe that they are in a loop for the rest of the file, and report every database call
as one in a loop (`Mistaken` excludes it); do-while loops are not seen.

Lambda guard: nothing is ever added to the wait group that `Shutdown` waits for;
what is not set is 0 in YAML and has defaults in Terraform, where a timeout of 0 has it
too; an expression counts as
not set; one value of another type loses the whole document; a Terraform
attribute may come from a namesake or stop at a nested block; CDK functions of a
file share a name.

IAM guard: variables are resolved by name in the whole file; clients in struct
fields are not seen; the option for a scan timeout is not used.

## Not modelled

* Bedrock is the environment of the breaker; the heuristic is a pure function
  of its prompt; the router is not used by main.
* Logging, metrics as they are exported, the timeout helpers: they keep no state
  of their own, or state that only they read.
* The Terraform code and other files of the deployment.
* POSTs that are answered in their own response, refused requests, health and
  metrics endpoints: they leave the state of the transport alone.
* The text of prompts, messages, policies and logs; regular expressions are
  represented by where they match.
* piiguard's place in main's sequence of shutdowns (its own `Shutdown` is in
  `StdioServer`); lambdaguard's `Shutdown`, which always returns at once.
* The cache in front of the breaker as one system: degraded answers are cached
  and served after the recovery, which nothing in the repository forbids.

## Plan

Done: all components of the table above are modelled and checked. Every invariant that a
run checks is proved, and so are the action properties and the refinement of
`BoundedCache`.

What is left, in this order:

1. `ConfigWatcher`: the safety core of `SettlesUnlessOverlapping`: while no two reloads
   have overlapped, memory never holds an older configuration than the one that
   was read last; stated, checked and proved.
2. The cache in front of the breaker as one system, to state for how long a degraded
   answer is served after the recovery; `LLMProofs` already extends both modules.
3. piiguard's place in main's sequence of shutdowns, by composing `Enrichment` with the
   verification of `StdioServer`.
