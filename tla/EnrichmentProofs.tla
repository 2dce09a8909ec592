-------------------------- MODULE EnrichmentProofs --------------------------
(***************************************************************************)
(* The safety properties of Enrichment, for any finite sets of requests    *)
(* and any limits.  The counting invariants say what the semaphore, the    *)
(* wait group and the two metrics of a handler are worth; the shutdown     *)
(* invariant builds on them.                                               *)
(***************************************************************************)
EXTENDS Enrichment, FiniteSetTheorems, TLAPS

-----------------------------------------------------------------------------
(* Counting goroutines.                                                    *)

\* A handler may start only finitely many goroutines: requests and indices are bounded.
LEMMA TasksFinite == IsFiniteSet(Tasks)
<1>1. IsFiniteSet(Requests)
  BY RequestsAssumption, FS_Union DEF Requests
<1>2. MaxPerRequest \in Nat
  BY LimitsAssumption DEF MaxPerRequest
<1>3. IsFiniteSet(1..MaxPerRequest)
  BY <1>2, FS_Interval
<1> QED
  BY <1>1, <1>3, FS_Product DEF Tasks

\* The number of goroutines in a set of stages is a natural number.
LEMMA CountType ==
  \A h, S : IsFiniteSet(In(h, S)) /\ Cardinality(In(h, S)) \in Nat
<1> SUFFICES ASSUME NEW h, NEW S
             PROVE  IsFiniteSet(In(h, S)) /\ Cardinality(In(h, S)) \in Nat
  OBVIOUS
<1>1. In(h, S) \in SUBSET Tasks
  BY DEF In
<1> QED
  BY <1>1, TasksFinite, FS_Subset, FS_CardinalityType

\* ... and so it is in the next state.
LEMMA NextCountType == \A h, S : Cardinality(In(h, S))' \in Nat
<1> SUFFICES ASSUME NEW h, NEW S
             PROVE  Cardinality(In(h, S))' \in Nat
  OBVIOUS
<1>1. In(h, S)' \in SUBSET Tasks
  BY DEF In
<1> QED
  BY <1>1, TasksFinite, FS_Subset, FS_CardinalityType

\* A count of goroutines changes by one when one goroutine crosses its border,
\* and not at all otherwise.
Moves(t, from, to) ==
    \A h, S : Cardinality(In(h, S))' =
        IF Owner(t) = h /\ from \in S /\ to \notin S THEN Cardinality(In(h, S)) - 1
        ELSE IF Owner(t) = h /\ from \notin S /\ to \in S THEN Cardinality(In(h, S)) + 1
        ELSE Cardinality(In(h, S))

\* When one goroutine changes its stage, every count of goroutines changes by that one
\* goroutine at most: the arithmetic every counter of the handlers relies on.
LEMMA Recount ==
  ASSUME NEW t \in Tasks, NEW from, NEW to,
         task \in [Tasks -> Stages],
         task[t] = from,
         task' = [task EXCEPT ![t] = to]
  PROVE  Moves(t, from, to)
<1> SUFFICES ASSUME NEW h, NEW S
             PROVE  Cardinality(In(h, S))' =
                      IF Owner(t) = h /\ from \in S /\ to \notin S
                      THEN Cardinality(In(h, S)) - 1
                      ELSE IF Owner(t) = h /\ from \notin S /\ to \in S
                      THEN Cardinality(In(h, S)) + 1
                      ELSE Cardinality(In(h, S))
  BY DEF Moves
<1>1. CASE Owner(t) = h /\ from \in S /\ to \notin S
  <2>1. In(h, S)' = In(h, S) \ {t} /\ t \in In(h, S)
    BY <1>1 DEF In, Owner
  <2> QED
    BY <1>1, <2>1, CountType, FS_RemoveElement
<1>2. CASE Owner(t) = h /\ from \notin S /\ to \in S
  <2>1. In(h, S)' = In(h, S) \cup {t} /\ t \notin In(h, S)
    BY <1>2 DEF In, Owner
  <2> QED
    BY <1>2, <2>1, CountType, FS_AddElement
<1>3. CASE Owner(t) # h \/ (from \in S <=> to \in S)
  <2>1. In(h, S)' = In(h, S)
    BY <1>3 DEF In, Owner
  <2> QED
    BY <1>3, <2>1
<1> QED
  BY <1>1, <1>2, <1>3

-----------------------------------------------------------------------------
(* The counting invariant.                                                 *)

\* The goroutines of a request that its handler has not started yet.
NotStarted ==
    \A r \in Requests : \A i \in 1..MaxPerRequest :
        req[r] = "new" \/ i <= todo[r] => task[<<r, i>>] = "none"

TodoOnlyWhileSpawning == \A r \in Requests : req[r] # "spawning" => todo[r] = 0

Counting ==
    /\ TypeOK
    /\ NotStarted
    /\ TodoOnlyWhileSpawning
    /\ SlotsConserved
    /\ InflightExact
    /\ CountersExact

\* The owner of a goroutine is the handler of its request.
LEMMA OwnerType == \A t \in Tasks : t[1] \in Requests /\ Owner(t) \in Handlers
  BY DEF Tasks, Owner, HandlerOf, Handlers

\* No request starts more goroutines than its handler has indices for.
LEMMA LimitType ==
  /\ MaxPerRequest \in Nat
  /\ \A r \in Requests, n \in 0..MaxFindings : Wanted(r, n) \in 0..MaxPerRequest
<1>1. MaxPerRequest \in Nat
  BY LimitsAssumption DEF MaxPerRequest
<1>2. \A r \in Requests : Limit(r) \in 1..MaxPerRequest
  BY LimitsAssumption DEF MaxPerRequest, Limit, HandlerOf
<1> QED
  BY <1>1, <1>2, LimitsAssumption DEF Wanted

\* A goroutine that moves among its running stages or ends leaves the goroutines
\* that are still to be started alone.
LEMMA NotStartedKept ==
  ASSUME TypeOK, NotStarted, NEW t \in Tasks, NEW s, task[t] # "none",
         task' = [task EXCEPT ![t] = s], req' = req, todo' = todo
  PROVE  NotStarted'
  BY DEF TypeOK, NotStarted, Tasks

\* A goroutine takes a place in the semaphore: Counting is kept.
LEMMA AcquireCounts ==
  ASSUME Counting, NEW t \in Tasks, Acquire(t)
  PROVE  Counting'
<1> USE OwnerType DEF Counting
<1>1. TypeOK' /\ NotStarted' /\ TodoOnlyWhileSpawning'
  <2>1. TypeOK'
    BY DEF Acquire, TypeOK, Stages, Running, Holding, counters, shutdown
  <2> QED
    BY <2>1, NotStartedKept DEF Acquire, TypeOK, TodoOnlyWhileSpawning
<1>2. Moves(t, "waiting", "calling")
  <2>1. /\ task \in [Tasks -> Stages]
        /\ task[t] = "waiting"
        /\ task' = [task EXCEPT ![t] = "calling"]
    BY DEF Acquire, TypeOK
  <2> QED
    BY <2>1, Recount
<1>3. SlotsConserved'
  BY <1>2, CountType, LimitsAssumption DEF Moves, SlotsConserved, Acquire, TypeOK, Holding
<1>4. InflightExact'
  BY <1>2 DEF Moves, InflightExact, Acquire, TypeOK, Running, Holding
<1>5. CountersExact'
  BY <1>2 DEF Moves, CountersExact, Acquire, TypeOK, CountedOK, CountedFailed, counters
<1> QED
  BY <1>1, <1>3, <1>4, <1>5

\* A request starts a goroutine, after wg.Add: Counting is kept.
LEMMA SpawnCounts ==
  ASSUME Counting, NEW r \in Requests, Spawn(r)
  PROVE  Counting'
<1> DEFINE t == <<r, todo[r]>>
<1> USE OwnerType, LimitType DEF Counting
<1>1. /\ t \in Tasks
      /\ task[t] = "none"
      /\ Owner(t) = HandlerOf(r)
      /\ req[r] = "spawning"
  BY DEF Spawn, TypeOK, Tasks, Owner, NotStarted, TodoOnlyWhileSpawning
<1>2. TypeOK'
  BY <1>1 DEF Spawn, TypeOK, Stages, Running, Holding, counters, shutdown
<1>3. NotStarted' /\ TodoOnlyWhileSpawning'
  BY <1>1 DEF Spawn, TypeOK, NotStarted, TodoOnlyWhileSpawning, Tasks
<1>4. Moves(t, "none", "waiting")
  <2>1. /\ task \in [Tasks -> Stages]
        /\ task' = [task EXCEPT ![t] = "waiting"]
    BY DEF Spawn, TypeOK
  <2> QED
    BY <1>1, <2>1, Recount
<1>5. SlotsConserved'
  BY <1>4 DEF Moves, SlotsConserved, Spawn, Holding
<1>6. InflightExact'
  <2>1. inflight' = [inflight EXCEPT ![Owner(t)] = @ + 1]
    BY <1>1 DEF Spawn
  <2>2. \A h \in Handlers :
          Cardinality(In(h, Running))' = Cardinality(In(h, Running)) + (IF h = Owner(t) THEN 1 ELSE 0)
    BY <1>4, CountType DEF Moves, Running, Holding
  <2>3. inflight \in [Handlers -> Nat] /\ Owner(t) \in Handlers
    BY <1>1 DEF TypeOK
  <2> HIDE DEF t
  <2> QED
    BY <2>1, <2>2, <2>3 DEF InflightExact
<1>7. CountersExact'
  BY <1>4 DEF Moves, CountersExact, Spawn, CountedOK, CountedFailed, counters
<1> QED
  BY <1>2, <1>3, <1>5, <1>6, <1>7

\* A goroutine gives up before it has a place: Counting is kept.
LEMMA AbandonCounts ==
  ASSUME Counting, NEW t \in Tasks, Abandon(t)
  PROVE  Counting'
<1> USE OwnerType DEF Counting
<1>1. Moves(t, "waiting", "dropped")
  <2>1. /\ task \in [Tasks -> Stages]
        /\ task[t] = "waiting"
        /\ task' = [task EXCEPT ![t] = "dropped"]
    BY DEF Abandon, TypeOK
  <2> QED
    BY <2>1, Recount
<1>2. SlotsConserved'
  BY <1>1 DEF Moves, SlotsConserved, Abandon, Holding
<1>3. InflightExact'
  BY <1>1 DEF Moves, InflightExact, Abandon, TypeOK, Running, Holding
<1>4. CountersExact'
  BY <1>1 DEF Moves, CountersExact, Abandon, CountedOK, CountedFailed, counters
<1>5. TypeOK'
  <2>1. \A h \in Handlers : inflight'[h] \in Nat
    BY <1>3, NextCountType DEF InflightExact
  <2> QED
    BY <2>1 DEF Abandon, TypeOK, Stages, Running, Over, counters, shutdown
<1>6. NotStarted' /\ TodoOnlyWhileSpawning'
  BY NotStartedKept DEF Abandon, TodoOnlyWhileSpawning
<1> QED
  BY <1>2, <1>3, <1>4, <1>5, <1>6

\* The call of the model succeeds, and the goroutine keeps its place: Counting is kept.
LEMMA CallSucceedsCounts ==
  ASSUME Counting, NEW t \in Tasks, CallSucceeds(t)
  PROVE  Counting'
<1> USE OwnerType DEF Counting
<1>1. Moves(t, "calling", "sending")
  <2>1. /\ task \in [Tasks -> Stages]
        /\ task[t] = "calling"
        /\ task' = [task EXCEPT ![t] = "sending"]
    BY DEF CallSucceeds, TypeOK
  <2> QED
    BY <2>1, Recount
<1>2. SlotsConserved'
  BY <1>1 DEF Moves, SlotsConserved, CallSucceeds, Holding
<1>3. InflightExact'
  BY <1>1 DEF Moves, InflightExact, CallSucceeds, Running, Holding
<1>4. CountersExact'
  BY <1>1 DEF Moves, CountersExact, CallSucceeds, CountedOK, CountedFailed, counters
<1>5. TypeOK'
  BY DEF CallSucceeds, TypeOK, Stages, Running, Holding, counters, shutdown
<1>6. NotStarted' /\ TodoOnlyWhileSpawning'
  BY NotStartedKept DEF CallSucceeds, TodoOnlyWhileSpawning
<1> QED
  BY <1>2, <1>3, <1>4, <1>5, <1>6

\* What the deferred calls and the counter update of a goroutine do together,
\* whichever way it ends.
LEMMA LeaveCounts ==
  ASSUME Counting, NEW t \in Tasks, NEW from \in Holding, NEW outcome \in Over \ {"dropped"},
         task[t] = from,
         Leave(t, outcome),
         \/ outcome \in CountedOK(Owner(t)) /\ CountOK(t)
         \/ outcome \in CountedFailed(Owner(t)) /\ CountFailed(t)
  PROVE  Counting'
<1> USE OwnerType DEF Counting
<1>1. Moves(t, from, outcome)
  <2>1. /\ task \in [Tasks -> Stages]
        /\ task' = [task EXCEPT ![t] = outcome]
    BY DEF Leave, TypeOK
  <2> QED
    BY <2>1, Recount
<1>2. SlotsConserved'
  <2>1. \A h \in Handlers : sem'[h] = Cardinality(In(h, Holding))'
    BY <1>1 DEF Moves, SlotsConserved, Leave, TypeOK, Holding, Over
  <2>2. \A h \in Handlers : sem'[h] <= MaxConcurrent
    BY <2>1, LimitsAssumption DEF SlotsConserved, Leave, TypeOK
  <2> QED
    BY <2>1, <2>2 DEF SlotsConserved
<1>3. InflightExact'
  BY <1>1 DEF Moves, InflightExact, Leave, TypeOK, Running, Holding, Over
<1>4. CountersExact'
  <2>1. \A h \in Handlers : from \notin CountedOK(h) /\ from \notin CountedFailed(h)
    BY DEF CountedOK, CountedFailed, Holding
  <2>2. /\ ok \in [Handlers -> Nat] /\ failed \in [Handlers -> Nat]
        /\ Owner(t) \in Handlers
        /\ \A h \in Handlers : /\ ok[h] = Cardinality(In(h, CountedOK(h)))
                               /\ failed[h] = Cardinality(In(h, CountedFailed(h)))
    BY DEF TypeOK, CountersExact
  <2>3. CASE outcome \in CountedOK(Owner(t)) /\ CountOK(t)
    <3>1. outcome \notin CountedFailed(Owner(t))
      BY <2>3 DEF CountedOK, CountedFailed
    <3>2. \A h \in Handlers : Cardinality(In(h, CountedOK(h)))' =
            Cardinality(In(h, CountedOK(h))) + (IF h = Owner(t) THEN 1 ELSE 0)
      BY <1>1, <2>1, <2>3, CountType DEF Moves, CountedOK
    <3>3. \A h \in Handlers :
            Cardinality(In(h, CountedFailed(h)))' = Cardinality(In(h, CountedFailed(h)))
      BY <1>1, <2>1, <3>1 DEF Moves, CountedFailed
    <3> QED
      BY <2>2, <2>3, <3>2, <3>3 DEF CountersExact, CountOK
  <2>4. CASE outcome \in CountedFailed(Owner(t)) /\ CountFailed(t)
    <3>1. outcome \notin CountedOK(Owner(t))
      BY <2>4 DEF CountedOK, CountedFailed
    <3>2. \A h \in Handlers : Cardinality(In(h, CountedFailed(h)))' =
            Cardinality(In(h, CountedFailed(h))) + (IF h = Owner(t) THEN 1 ELSE 0)
      BY <1>1, <2>1, <2>4, CountType DEF Moves, CountedFailed
    <3>3. \A h \in Handlers :
            Cardinality(In(h, CountedOK(h)))' = Cardinality(In(h, CountedOK(h)))
      BY <1>1, <2>1, <3>1 DEF Moves, CountedOK
    <3> QED
      BY <2>2, <2>4, <3>2, <3>3 DEF CountersExact, CountFailed
  <2> QED
    BY <2>3, <2>4
<1>5. TypeOK'
  <2>1. \A h \in Handlers : inflight'[h] \in Nat /\ sem'[h] \in Nat
    BY <1>2, <1>3, NextCountType DEF InflightExact, SlotsConserved
  <2> QED
    BY <2>1 DEF Leave, CountOK, CountFailed, TypeOK, Stages, Over, shutdown
<1>6. NotStarted' /\ TodoOnlyWhileSpawning'
  BY NotStartedKept DEF Leave, TodoOnlyWhileSpawning, Holding
<1> QED
  BY <1>2, <1>3, <1>4, <1>5, <1>6

\* The call of the model fails: Counting is kept.
LEMMA CallFailsCounts ==
  ASSUME Counting, NEW t \in Tasks, CallFails(t)
  PROVE  Counting'
BY LeaveCounts DEF CallFails, Holding, Over, CountedFailed

\* Delivered, lost or cut off, a notification ends its goroutine: Counting is kept.
LEMMA SendReturnsCounts ==
  ASSUME Counting, NEW t \in Tasks, SendReturns(t)
  PROVE  Counting'
<1>1. "sending" \in Holding /\ {"delivered", "lost", "cut"} \subseteq Over \ {"dropped"}
  BY DEF Holding, Over
<1>2. CASE Deliver(t)
  BY <1>1, <1>2, LeaveCounts DEF Deliver, CountedOK
<1>3. CASE Lose(t)
  BY <1>1, <1>3, LeaveCounts DEF Lose, CountedOK
<1>4. CASE CutOff(t)
  <2>1. task[t] = "sending" /\ Leave(t, "cut")
    BY <1>4 DEF CutOff
  <2>2. \/ "cut" \in CountedOK(Owner(t)) /\ CountOK(t)
        \/ "cut" \in CountedFailed(Owner(t)) /\ CountFailed(t)
    BY <1>4 DEF CutOff, CountedOK, CountedFailed
  <2> QED
    BY <1>1, <2>1, <2>2, LeaveCounts
<1> QED
  BY <1>2, <1>3, <1>4 DEF SendReturns

\* A step that touches no goroutine and none of the handlers' counters.
Aside == UNCHANGED <<task, sem, inflight, ok, failed>>

\* Counting depends on nothing but what Aside leaves unchanged.
LEMMA AsideCounts ==
  ASSUME Counting, Aside
  PROVE  SlotsConserved' /\ InflightExact' /\ CountersExact'
<1>1. \A h, S : In(h, S)' = In(h, S)
  BY DEF In, Aside
<1> QED
  BY <1>1 DEF Counting, Aside, SlotsConserved, InflightExact, CountersExact,
              CountedOK, CountedFailed

\* The steps of a request: Counting is kept.
LEMMA RequestCounts ==
  ASSUME Counting, NEW r \in Requests, Analyze(r) \/ Answer(r)
  PROVE  Counting'
<1> USE DEF Counting
<1>1. Aside
  BY DEF Analyze, Answer, Aside, counters
<1>2. CASE Analyze(r)
  <2>1. PICK k \in 0..MaxPerRequest : todo' = [todo EXCEPT ![r] = k]
    <3>1. PICK findings \in 0..MaxFindings, session \in BOOLEAN :
            todo' = [todo EXCEPT ![r] = IF session THEN Wanted(r, findings) ELSE 0]
      BY <1>2 DEF Analyze
    <3>2. Wanted(r, findings) \in 0..MaxPerRequest /\ 0 \in 0..MaxPerRequest
      BY LimitType
    <3> QED
      BY <3>1, <3>2
  <2>2. TypeOK'
    BY <1>2, <2>1 DEF Analyze, TypeOK, counters, shutdown
  <2>3. NotStarted' /\ TodoOnlyWhileSpawning'
    BY <1>2, <2>1 DEF Analyze, TypeOK, NotStarted, TodoOnlyWhileSpawning
  <2> QED
    BY <1>1, <2>2, <2>3, AsideCounts
<1>3. CASE Answer(r)
  <2>1. TypeOK'
    BY <1>3 DEF Answer, TypeOK, counters, shutdown
  <2>2. NotStarted' /\ TodoOnlyWhileSpawning'
    BY <1>3 DEF Answer, TypeOK, NotStarted, TodoOnlyWhileSpawning
  <2> QED
    BY <1>1, <2>1, <2>2, AsideCounts
<1> QED
  BY <1>2, <1>3

\* main shuts three handlers down, one after the other.
LEMMA OrderLength == Len(ShutdownOrder) = 3 /\ Exited = 4
BY DEF ShutdownOrder, Exited

\* The clients and main disturb no goroutine.
ClientStep == \E r \in Requests : Stall(r) \/ Resume(r) \/ Disconnect(r)
MainStep == Stop \/ DrainTimeout \/ Drained \/ Cancel \/ Unwound

\* The steps of the clients and of main: Counting is kept.
LEMMA OutsideCounts ==
  ASSUME Counting, ClientStep \/ MainStep \/ UNCHANGED vars
  PROVE  Counting'
<1> USE DEF Counting
<1>1. Aside /\ UNCHANGED <<req, todo>>
  BY DEF ClientStep, MainStep, Stall, Resume, Disconnect, Stop, DrainTimeout, Drained,
         Cancel, Unwound, Return, vars, Aside, counters, shutdown
<1>2. NotStarted' /\ TodoOnlyWhileSpawning'
  BY <1>1 DEF NotStarted, TodoOnlyWhileSpawning, Aside
<1>3. conn' \in [Requests -> {"reading", "stalled", "gone"}]
  BY DEF ClientStep, MainStep, Stall, Resume, Disconnect, Stop, DrainTimeout, Drained,
         Cancel, Unwound, Return, vars, TypeOK
<1>4. /\ cancelled' \in [Handlers -> BOOLEAN]
      /\ at' \in 0..Exited
      /\ drainOver' \in BOOLEAN
      /\ ended' \in [Handlers -> {"none", "drained", "cancelled"}]
      /\ late' \subseteq Requests
  <2>1. CASE ClientStep \/ UNCHANGED vars
    BY <2>1 DEF ClientStep, Stall, Resume, Disconnect, vars, shutdown, TypeOK
  <2>2. CASE Stop
    BY <2>2, OrderLength DEF Stop, TypeOK
  <2>3. CASE DrainTimeout
    BY <2>3 DEF DrainTimeout, TypeOK
  <2>4. CASE Drained
    <3>1. at' \in 0..Exited
      BY <2>4, OrderLength DEF Drained, Return, ShuttingDown
    <3>2. ended' \in [Handlers -> {"none", "drained", "cancelled"}]
      BY <2>4 DEF Drained, Return, TypeOK
    <3>3. cancelled' \in [Handlers -> BOOLEAN] /\ UNCHANGED <<drainOver, late>>
      BY <2>4 DEF Drained, Return, TypeOK
    <3> QED
      BY <3>1, <3>2, <3>3 DEF TypeOK
  <2>5. CASE Cancel
    BY <2>5 DEF Cancel, TypeOK
  <2>6. CASE Unwound
    <3>1. at' \in 0..Exited
      BY <2>6, OrderLength DEF Unwound, Return, ShuttingDown
    <3>2. ended' \in [Handlers -> {"none", "drained", "cancelled"}]
      BY <2>6 DEF Unwound, Return, TypeOK
    <3>3. cancelled' \in [Handlers -> BOOLEAN] /\ UNCHANGED <<drainOver, late>>
      BY <2>6 DEF Unwound, Return, TypeOK
    <3> QED
      BY <3>1, <3>2, <3>3 DEF TypeOK
  <2> QED
    BY <2>1, <2>2, <2>3, <2>4, <2>5, <2>6 DEF MainStep
<1>5. TypeOK'
  BY <1>1, <1>3, <1>4 DEF TypeOK, Aside
<1> QED
  BY <1>1, <1>2, <1>5, AsideCounts

\* The steps of the system, by who takes them.
RequestStep == \E r \in Requests : Analyze(r) \/ Spawn(r) \/ Answer(r)
TaskStep ==
    \E t \in Tasks : Acquire(t) \/ Abandon(t) \/ CallSucceeds(t) \/ CallFails(t) \/ SendReturns(t)

\* Every step is one of a request, of a goroutine, of a client or of main.
LEMMA StepKinds ==
  ASSUME [Next]_vars
  PROVE  RequestStep \/ TaskStep \/ ClientStep \/ MainStep \/ UNCHANGED vars
BY DEF Next, RequestStep, TaskStep, ClientStep, MainStep, SendReturns, Gone

\* Every step preserves Counting.
LEMMA CountingStep == Counting /\ [Next]_vars => Counting'
<1> SUFFICES ASSUME Counting, [Next]_vars
             PROVE  Counting'
  OBVIOUS
<1>1. CASE RequestStep
  BY <1>1, RequestCounts, SpawnCounts DEF RequestStep
<1>2. CASE TaskStep
  BY <1>2, AcquireCounts, AbandonCounts, CallSucceedsCounts, CallFailsCounts,
     SendReturnsCounts DEF TaskStep
<1>3. CASE ClientStep \/ MainStep \/ UNCHANGED vars
  BY <1>3, OutsideCounts
<1> QED
  BY <1>1, <1>2, <1>3, StepKinds

\* Counting holds when the server starts.
LEMMA CountingInit == Init => Counting
<1> SUFFICES ASSUME Init
             PROVE  Counting
  OBVIOUS
<1>1. TypeOK
  <2>1. 0 \in 0..MaxPerRequest /\ 0 \in 0..Exited /\ "none" \in Stages
    BY LimitType, OrderLength DEF Stages
  <2> QED
    BY <2>1 DEF Init, TypeOK
<1>2. \A h, S : "none" \notin S => Cardinality(In(h, S)) = 0
  <2> SUFFICES ASSUME NEW h, NEW S, "none" \notin S
               PROVE  Cardinality(In(h, S)) = 0
    OBVIOUS
  <2>1. In(h, S) = {}
    BY DEF In, Init
  <2> QED
    BY <2>1, FS_EmptySet
<1>3. NotStarted /\ TodoOnlyWhileSpawning
  BY DEF Init, NotStarted, TodoOnlyWhileSpawning, Tasks
<1>4. \A h \in Handlers : /\ "none" \notin Holding /\ "none" \notin Running
                          /\ "none" \notin CountedOK(h) /\ "none" \notin CountedFailed(h)
  BY DEF Holding, Running, CountedOK, CountedFailed
<1>5. SlotsConserved /\ InflightExact /\ CountersExact
  BY <1>2, <1>4, LimitsAssumption DEF Init, SlotsConserved, InflightExact, CountersExact
<1> QED
  BY <1>1, <1>3, <1>5 DEF Counting

\* In every reachable state the counters of a handler and the stages of its goroutines
\* agree: the inductive invariant behind the theorems about slots, wait groups and metrics.
THEOREM Counts == Spec => []Counting
BY CountingInit, CountingStep, PTL DEF Spec

\* The state keeps its types: in particular no counter of a wait group or of a
\* semaphore falls below zero, which in the code would be a panic.
THEOREM TypeCorrect == Spec => []TypeOK
<1>1. Counting => TypeOK
  BY DEF Counting
<1> QED
  BY <1>1, Counts, PTL

\* No exit path of a goroutine leaks a slot of the semaphore or releases one twice.
THEOREM SlotSafety == Spec => []SlotsConserved
<1>1. Counting => SlotsConserved
  BY DEF Counting
<1> QED
  BY <1>1, Counts, PTL

\* The wait group counts the goroutines that run.
THEOREM WaitGroupSafety == Spec => []InflightExact
<1>1. Counting => InflightExact
  BY DEF Counting
<1> QED
  BY <1>1, Counts, PTL

\* The two metrics count every enrichment that took a slot, once.
THEOREM MetricSafety == Spec => []CountersExact
<1>1. Counting => CountersExact
  BY DEF Counting
<1> QED
  BY <1>1, Counts, PTL

-----------------------------------------------------------------------------
(* Shutting down.                                                          *)

\* A handler has been shut down only after the transport stopped.
EndedAfterStop == \A h \in Handlers : ended[h] # "none" => at > 0

\* The requests that were being handled when it stopped are the only ones that
\* may still start goroutines.
LateOnes == at > 0 => \A r \in Requests : req[r] = "spawning" => r \in late

\* Nothing is dropped or cut off before the handler's context is cancelled.
UncutUntilCancelled ==
    \A t \in Tasks : ~cancelled[Owner(t)] => task[t] \notin {"dropped", "cut"}

Shutting ==
    /\ Counting
    /\ EndedAfterStop
    /\ LateOnes
    /\ UncutUntilCancelled
    /\ ShutdownJoins
    /\ CleanDrainDropsNothing

\* While main shuts down, the handler at its position is one of the handlers.
LEMMA CurrentType == ShuttingDown => Current \in Handlers /\ at > 0
BY OrderLength DEF ShuttingDown, Current, ShutdownOrder, Handlers

\* When the wait group of a handler is at zero, none of its goroutines runs.
LEMMA NoneLeft ==
  ASSUME Counting, NEW h \in Handlers, inflight[h] = 0
  PROVE  \A t \in Tasks : Owner(t) = h => task[t] \notin Running
<1>1. In(h, Running) = {}
  BY CountType, FS_EmptySet DEF Counting, InflightExact
<1> QED
  BY <1>1 DEF In

\* The steps of the goroutines: once the context of their handler is cancelled
\* some are dropped or cut off, and those that had ended stay as they are.
LEMMA TaskStepShuts ==
  ASSUME Shutting, TaskStep
  PROVE  /\ EndedAfterStop' /\ LateOnes' /\ UncutUntilCancelled'
         /\ ShutdownJoins' /\ CleanDrainDropsNothing'
<1>1. PICK t \in Tasks, s \in Running \cup Over :
        /\ task[t] \in Running
        /\ task' = [task EXCEPT ![t] = s]
        /\ s \in {"dropped", "cut"} => cancelled[Owner(t)]
        /\ UNCHANGED <<req, shutdown>>
  <2>1. PICK t \in Tasks : \/ Acquire(t) \/ Abandon(t) \/ CallSucceeds(t) \/ CallFails(t)
                           \/ Deliver(t) \/ Lose(t) \/ CutOff(t)
    BY DEF TaskStep, SendReturns
  <2> QED
    BY <2>1 DEF Acquire, Abandon, CallSucceeds, CallFails, Deliver, Lose, CutOff, Leave,
                Running, Holding, Over
<1>2. task \in [Tasks -> Stages]
  BY DEF Shutting, Counting, TypeOK
<1>3. EndedAfterStop' /\ LateOnes'
  BY <1>1 DEF Shutting, EndedAfterStop, LateOnes, shutdown
<1>4. UncutUntilCancelled'
  BY <1>1, <1>2 DEF Shutting, UncutUntilCancelled, shutdown
<1>5. \A h \in Handlers : Punctual(h)' = Punctual(h)
  BY <1>1 DEF Punctual, shutdown
<1>6. \A h \in Handlers : ended[h] # "none" => t \notin Punctual(h)
  BY <1>1 DEF Shutting, ShutdownJoins
<1>7. \A u \in Tasks \ {t} : task'[u] = task[u]
  BY <1>1, <1>2
<1>8. \A h \in Handlers : Punctual(h) \subseteq Tasks
  BY DEF Punctual
<1>9. ended' = ended
  BY <1>1 DEF shutdown
<1>10. ShutdownJoins'
  BY <1>5, <1>6, <1>7, <1>8, <1>9 DEF Shutting, ShutdownJoins
<1>11. CleanDrainDropsNothing'
  BY <1>5, <1>6, <1>7, <1>8, <1>9 DEF Shutting, CleanDrainDropsNothing
<1> QED
  BY <1>3, <1>4, <1>10, <1>11

\* The steps of the requests: after the transport has stopped, only late ones
\* start goroutines.
LEMMA RequestStepShuts ==
  ASSUME Shutting, RequestStep
  PROVE  /\ EndedAfterStop' /\ LateOnes' /\ UncutUntilCancelled'
         /\ ShutdownJoins' /\ CleanDrainDropsNothing'
<1> USE DEF Shutting
<1>1. UNCHANGED shutdown
  BY DEF RequestStep, Analyze, Spawn, Answer
<1>2. PICK r \in Requests : Analyze(r) \/ Spawn(r) \/ Answer(r)
  BY DEF RequestStep
<1>3. EndedAfterStop'
  BY <1>1 DEF EndedAfterStop, shutdown
<1>4. LateOnes'
  BY <1>1, <1>2 DEF LateOnes, Analyze, Spawn, Answer, Counting, TypeOK, shutdown
<1>5. CASE Spawn(r)
  <2> DEFINE t == <<r, todo[r]>>
  <2>1. task' = [task EXCEPT ![t] = "waiting"]
    BY <1>5 DEF Spawn
  <2>2. task \in [Tasks -> Stages]
    BY DEF Counting, TypeOK
  <2>3. at > 0 => r \in late
    BY <1>5 DEF Spawn, Counting, TodoOnlyWhileSpawning, LateOnes
  <2>4. \A h \in Handlers : ended[h] # "none" => t \notin Punctual(h)
    BY <2>3 DEF EndedAfterStop, Punctual
  <2>5. \A u \in Tasks : u # t => task'[u] = task[u]
    BY <2>1, <2>2
  <2>6. t \in Tasks => task'[t] = "waiting"
    BY <2>1, <2>2
  <2> HIDE DEF t
  <2>7. UncutUntilCancelled'
    BY <1>1, <2>5, <2>6 DEF UncutUntilCancelled, shutdown
  <2>8. \A h \in Handlers : Punctual(h)' = Punctual(h) /\ Punctual(h) \subseteq Tasks
    BY <1>1 DEF Punctual, shutdown
  <2>9. ended' = ended
    BY <1>1 DEF shutdown
  <2>10. ShutdownJoins' /\ CleanDrainDropsNothing'
    BY <2>4, <2>5, <2>8, <2>9 DEF ShutdownJoins, CleanDrainDropsNothing
  <2> QED
    BY <1>3, <1>4, <2>7, <2>10
<1>6. CASE task' = task
  BY <1>1, <1>3, <1>4, <1>6
  DEF UncutUntilCancelled, ShutdownJoins, CleanDrainDropsNothing, Punctual, shutdown
<1> QED
  BY <1>2, <1>5, <1>6 DEF Analyze, Answer

\* The steps of main.
LEMMA MainStepShuts ==
  ASSUME Shutting, MainStep
  PROVE  /\ EndedAfterStop' /\ LateOnes' /\ UncutUntilCancelled'
         /\ ShutdownJoins' /\ CleanDrainDropsNothing'
<1> USE DEF Shutting, Counting, TypeOK
<1>1. UNCHANGED <<task, req>>
  BY DEF MainStep, Stop, DrainTimeout, Drained, Cancel, Unwound, Return
<1>2. CASE Stop
  <2>1. \A h \in Handlers : ended'[h] = "none"
    BY <1>2 DEF Stop, EndedAfterStop
  <2> QED
    BY <1>1, <1>2, <2>1
    DEF Stop, EndedAfterStop, LateOnes, UncutUntilCancelled, ShutdownJoins,
        CleanDrainDropsNothing
<1>3. CASE DrainTimeout
  BY <1>3 DEF DrainTimeout, EndedAfterStop, LateOnes, UncutUntilCancelled, ShutdownJoins,
              CleanDrainDropsNothing, Punctual
<1>4. CASE Cancel
  BY <1>4, CurrentType
  DEF Cancel, EndedAfterStop, LateOnes, UncutUntilCancelled, ShutdownJoins,
      CleanDrainDropsNothing, Punctual
<1>5. CASE Drained \/ Unwound
  <2>1. /\ Current \in Handlers /\ at > 0 /\ at' > 0
        /\ inflight[Current] = 0
        /\ late' = late
    BY <1>5, CurrentType DEF Drained, Unwound, Return
  <2>2. \A t \in Tasks : Owner(t) = Current => task[t] \notin Running
    BY <2>1, NoneLeft
  <2>3. \A h \in Handlers : h # Current => ended'[h] = ended[h]
    BY <1>5 DEF Drained, Unwound, Return
  <2>4. ended'[Current] = "drained" => ~cancelled[Current]
    BY <1>5, <2>1 DEF Drained, Unwound, Return
  <2>5. \A h \in Handlers : cancelled[h] => cancelled'[h]
    BY <1>5, <2>1 DEF Drained, Unwound
  <2>6. \A h \in Handlers :
          Punctual(h)' = Punctual(h) /\ \A t \in Punctual(h) : t \in Tasks /\ Owner(t) = h
    BY <2>1 DEF Punctual
  <2>7. EndedAfterStop' /\ LateOnes'
    BY <1>1, <2>1 DEF EndedAfterStop, LateOnes
  <2>8. UncutUntilCancelled'
    BY <1>1, <2>5, OwnerType DEF UncutUntilCancelled
  <2>9. ShutdownJoins'
    BY <1>1, <2>2, <2>3, <2>6 DEF ShutdownJoins
  <2>10. CleanDrainDropsNothing'
    BY <1>1, <2>3, <2>4, <2>6 DEF CleanDrainDropsNothing, UncutUntilCancelled
  <2> QED
    BY <2>7, <2>8, <2>9, <2>10
<1> QED
  BY <1>2, <1>3, <1>4, <1>5 DEF MainStep

\* Every step preserves Shutting.
LEMMA ShuttingStep == Shutting /\ [Next]_vars => Shutting'
<1> SUFFICES ASSUME Shutting, [Next]_vars
             PROVE  Shutting'
  OBVIOUS
<1>1. Counting'
  BY CountingStep DEF Shutting
<1>2. CASE RequestStep
  BY <1>1, <1>2, RequestStepShuts DEF Shutting
<1>3. CASE TaskStep
  BY <1>1, <1>3, TaskStepShuts DEF Shutting
<1>4. CASE MainStep
  BY <1>1, <1>4, MainStepShuts DEF Shutting
<1>5. CASE ClientStep \/ UNCHANGED vars
  <2>1. UNCHANGED <<req, task, shutdown>>
    BY <1>5 DEF ClientStep, Stall, Resume, Disconnect, vars, shutdown
  <2> QED
    BY <1>1, <2>1
    DEF Shutting, EndedAfterStop, LateOnes, UncutUntilCancelled, ShutdownJoins,
        CleanDrainDropsNothing, Punctual, shutdown
<1> QED
  BY <1>2, <1>3, <1>4, <1>5, StepKinds

\* Shutting holds when the server starts.
LEMMA ShuttingInit == Init => Shutting
<1> SUFFICES ASSUME Init
             PROVE  Shutting
  OBVIOUS
<1>1. \A h \in Handlers : ended[h] = "none"
  BY DEF Init
<1>2. ShutdownJoins /\ CleanDrainDropsNothing /\ EndedAfterStop
  BY <1>1 DEF ShutdownJoins, CleanDrainDropsNothing, EndedAfterStop
<1>3. LateOnes /\ UncutUntilCancelled
  BY DEF Init, LateOnes, UncutUntilCancelled
<1> QED
  BY <1>2, <1>3, CountingInit DEF Shutting

\* In every reachable state the goroutines and the progress of the shutdown agree: the
\* inductive invariant behind the theorems about Shutdown.
THEOREM Shuts == Spec => []Shutting
BY ShuttingInit, ShuttingStep, PTL DEF Spec

\* When Shutdown of a handler has returned, none of the goroutines it promised to
\* wait for is left.
THEOREM JoinSafety == Spec => []ShutdownJoins
<1>1. Shutting => ShutdownJoins
  BY DEF Shutting
<1> QED
  BY <1>1, Shuts, PTL

\* A clean drain has cut nothing off.
THEOREM DrainSafety == Spec => []CleanDrainDropsNothing
<1>1. Shutting => CleanDrainDropsNothing
  BY DEF Shutting
<1> QED
  BY <1>1, Shuts, PTL

=============================================================================
