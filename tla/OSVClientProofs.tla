---------------------------- MODULE OSVClientProofs ---------------------------
(***************************************************************************)
(* The safety properties of OSVClient, for any manifest, any finite set of *)
(* vulnerabilities and any limits.                                         *)
(***************************************************************************)
EXTENDS OSVClient, SequenceTheorems, FiniteSetTheorems, NaturalsInduction,
        WellFoundedInduction, TLAPS

-----------------------------------------------------------------------------
(* The inductive invariant.                                                *)

Working == {"trying", "backoff"}
Pending == {"queued"} \cup Working

\* The fetches in one of the stages in S.
Among(S) == {q \in Fetches : request[q] \in S}

\* The semaphore counts the fetches that hold a place, the wait group those that have
\* not ended.
Counting ==
    /\ sem = Cardinality(Among(Working))
    /\ wg = Cardinality(Among(Pending))

\* A backoff is followed by another attempt only if one is left.
AttemptLeft ==
    \A q \in Requests : request[q] = "backoff" => attempts[q] < MaxAttempts

\* The batch comes first and alone; the results are returned when no fetch is left.
InPhase ==
    /\ phase = "batch" => request[Batch] \in Working \cup {"refused", "failed"}
    /\ phase = "error" => request[Batch] \in {"refused", "failed"}
    /\ phase \in {"hydrate", "results"} => request[Batch] = "answered"
    /\ phase \in {"batch", "error"} => \A q \in Fetches : request[q] = "none"
    /\ phase = "results" => wg = 0

\* An entry without its details has a fetch, which may have ended without them.
DetailsFetched ==
    phase \in {"hydrate", "results"} =>
        \A q \in Fetches :
            results[q[1]][q[2]] = "minimal" => request[q] \in Pending \cup {"refused", "failed"}

\* What is known of d is reported under its name, unless a later dependency of the
\* same name has something too: that one overwrites it.
Supersedes(e, d) == e > d /\ DepName[e] = DepName[d] /\ affected[e] # {}

LastReported ==
    phase \in {"hydrate", "results"} =>
        \A d \in Deps :
            (\A e \in Deps : ~Supersedes(e, d)) =>
                \A v \in affected[d] : results[DepName[d]][v] # "absent"

IInv ==
    /\ TypeOK
    /\ Counting
    /\ AttemptLeft
    /\ InPhase
    /\ DetailsFetched
    /\ LastReported

-----------------------------------------------------------------------------
(* Counting fetches.                                                       *)

\* A manifest has finitely many dependencies, so there are finitely many fetches.
LEMMA FetchesFinite == IsFiniteSet(Fetches)
BY OSVAssumption, FS_Product DEF Fetches

\* The number of fetches in some stages is a natural number.
LEMMA AmongType ==
  \A S : /\ IsFiniteSet(Among(S))
         /\ Cardinality(Among(S)) \in 0..Cardinality(Fetches)
<1> SUFFICES ASSUME NEW S
             PROVE  /\ IsFiniteSet(Among(S))
                    /\ Cardinality(Among(S)) \in 0..Cardinality(Fetches)
  OBVIOUS
<1>1. Among(S) \in SUBSET Fetches
  BY DEF Among
<1>2. /\ IsFiniteSet(Among(S))
      /\ Cardinality(Among(S)) <= Cardinality(Fetches)
      /\ Cardinality(Among(S)) \in Nat
      /\ Cardinality(Fetches) \in Nat
  BY <1>1, FetchesFinite, FS_Subset, FS_CardinalityType
<1> QED
  BY <1>2

\* ... and so it is in the next state.
LEMMA NextAmongType == \A S : Cardinality(Among(S))' \in 0..Cardinality(Fetches)
<1> SUFFICES ASSUME NEW S
             PROVE  Cardinality(Among(S))' \in 0..Cardinality(Fetches)
  OBVIOUS
<1>1. Among(S)' \in SUBSET Fetches
  BY DEF Among
<1>2. /\ Cardinality(Among(S)') <= Cardinality(Fetches)
      /\ Cardinality(Among(S)') \in Nat
      /\ Cardinality(Fetches) \in Nat
  BY <1>1, FetchesFinite, FS_Subset, FS_CardinalityType
<1> QED
  BY <1>2

\* One fetch that changes its stage changes a count by one when it crosses the border
\* of the stages that are counted; the batch request never does.
LEMMA Recount ==
  ASSUME TypeOK, NEW q \in Requests, NEW to, request' = [request EXCEPT ![q] = to], NEW S
  PROVE  Cardinality(Among(S))' =
           IF q \in Fetches /\ request[q] \in S /\ to \notin S
           THEN Cardinality(Among(S)) - 1
           ELSE IF q \in Fetches /\ request[q] \notin S /\ to \in S
           THEN Cardinality(Among(S)) + 1
           ELSE Cardinality(Among(S))
<1>0. \A r \in Fetches : request'[r] = IF r = q THEN to ELSE request[r]
  BY DEF TypeOK, Requests
<1>1. CASE q \in Fetches /\ request[q] \in S /\ to \notin S
  <2>1. Among(S)' = Among(S) \ {q} /\ q \in Among(S)
    BY <1>0, <1>1 DEF Among
  <2> QED
    BY <1>1, <2>1, AmongType, FS_RemoveElement
<1>2. CASE q \in Fetches /\ request[q] \notin S /\ to \in S
  <2>1. Among(S)' = Among(S) \cup {q} /\ q \notin Among(S)
    BY <1>0, <1>2 DEF Among
  <2> QED
    BY <1>2, <2>1, AmongType, FS_AddElement
<1>3. CASE q \notin Fetches \/ (request[q] \in S <=> to \in S)
  <2>1. Among(S)' = Among(S)
    BY <1>0, <1>3 DEF Among
  <2> QED
    BY <1>3, <2>1
<1> QED
  BY <1>1, <1>2, <1>3

\* A request that ends gives back what it holds.
LEMMA FinishCounts ==
  ASSUME TypeOK, Counting, NEW q \in Requests, NEW how \in Ended,
         request[q] \in Working, Finish(q, how)
  PROVE  /\ request' = [request EXCEPT ![q] = how]
         /\ Counting'
<1>1. request' = [request EXCEPT ![q] = how]
  BY DEF Finish
<1>2. q \in Fetches <=> q # Batch
  BY OSVAssumption DEF Requests
<1>3. how \notin Working /\ how \notin Pending /\ request[q] \in Pending
  BY DEF Working, Pending, Ended
<1>4. Cardinality(Among(Working))' = IF q # Batch THEN sem - 1 ELSE sem
  BY <1>1, <1>2, <1>3, Recount DEF Counting
<1>5. Cardinality(Among(Pending))' = IF q # Batch THEN wg - 1 ELSE wg
  BY <1>1, <1>2, <1>3, Recount DEF Counting
<1> QED
  BY <1>1, <1>4, <1>5 DEF Counting, Finish

\* A request that goes from one attempt to the next keeps what it holds.
LEMMA WorkingCounts ==
  ASSUME TypeOK, Counting, NEW q \in Requests, NEW to \in Working,
         request[q] \in Working, request' = [request EXCEPT ![q] = to], UNCHANGED <<sem, wg>>
  PROVE  Counting'
<1>1. to \in Pending /\ request[q] \in Pending
  BY DEF Pending
<1>2. Cardinality(Among(Working))' = sem
  BY Recount DEF Counting
<1>3. Cardinality(Among(Pending))' = wg
  BY <1>1, Recount DEF Counting
<1> QED
  BY <1>2, <1>3 DEF Counting

-----------------------------------------------------------------------------
(* The map from names to vulnerabilities.                                  *)

\* Of the dependencies in a set there is a last one.
LEMMA LastExists ==
  ASSUME NEW H, H \subseteq Deps, H # {}
  PROVE  \E d \in H : \A e \in H : e <= d
<1> DEFINE N == Len(DepName)
           T == {N - d : d \in H}
<1>1. N \in Nat /\ Deps = 1..N
  BY OSVAssumption, LenProperties DEF Deps
<1> HIDE DEF N
<1>2. T \subseteq Nat /\ T # {}
  <2>1. \A d \in H : N - d \in Nat
    BY <1>1
  <2> QED
    BY <2>1
<1> HIDE DEF T
<1> DEFINE R == OpToRel(<, Nat)
<1>3. PICK x \in T : \A y \in T : ~(<<y, x>> \in R)
  <2>1. IsWellFoundedOn(R, Nat)
    BY NatLessThanWellFounded
  <2> HIDE DEF R
  <2> QED
    BY <1>2, <2>1, WFMin
<1>4. \A y \in T : x <= y
  <2> SUFFICES ASSUME NEW y \in T
               PROVE  x <= y
    OBVIOUS
  <2>1. x \in Nat /\ y \in Nat
    BY <1>2
  <2>2. y < x => <<y, x>> \in R
    BY <2>1 DEF OpToRel
  <2> HIDE DEF R
  <2> QED
    BY <1>3, <2>1, <2>2
<1>5. PICK d \in H : x = N - d
  BY <1>3 DEF T
<1>6. \A e \in H : N - d <= N - e
  BY <1>4, <1>5 DEF T
<1> QED
  BY <1>1, <1>5, <1>6

\* The map has an entry, or none, for every name and vulnerability.
LEMMA MappedType ==
  ASSUME NEW found \in [Deps -> SUBSET Vulns]
  PROVE  Mapped(found) \in [Names -> [Vulns -> {"absent", "minimal", "full"}]]
BY DEF Mapped

\* What was found for the last dependency of a name that has anything is in the map.
LEMMA MappedReports ==
  ASSUME NEW found \in [Deps -> SUBSET Vulns], NEW d \in Deps,
         \A e \in Deps : ~(e > d /\ DepName[e] = DepName[d] /\ found[e] # {}),
         NEW v \in found[d]
  PROVE  Mapped(found)[DepName[d]][v] # "absent"
<1> DEFINE n == DepName[d]
           hits == {e \in Deps : DepName[e] = n /\ found[e] # {}}
           last == CHOOSE e \in hits : \A f \in hits : f <= e
<1>1. n \in Names /\ v \in Vulns /\ d \in hits
  BY OSVAssumption DEF Deps
<1>2. last \in hits /\ \A f \in hits : f <= last
  BY <1>1, LastExists
<1>3. Deps \subseteq Nat
  BY OSVAssumption, LenProperties DEF Deps
<1>4. last = d
  <2> HIDE DEF last
  <2>1. last \in Deps /\ ~(last > d)
    BY <1>2
  <2>2. d <= last
    BY <1>1, <1>2
  <2> QED
    BY <1>3, <2>1, <2>2
<1>5. Mapped(found)[n][v] = IF hits = {} \/ v \notin found[last] THEN "absent"
                            ELSE IF v \in Detailed THEN "full" ELSE "minimal"
  BY <1>1 DEF Mapped
<1> HIDE DEF hits, last
<1> QED
  BY <1>1, <1>4, <1>5

-----------------------------------------------------------------------------
(* The steps.                                                              *)

\* How a request may go on, whatever the phase: only one that is in an attempt or in a
\* backoff does, and it stays there or ends.
RequestStep(q) ==
    /\ request[q] \in Working
    /\ \E to \in Working \cup {"refused", "failed"} :
          /\ request' = [request EXCEPT ![q] = to]
          /\ to = "backoff" => attempts[q] < MaxAttempts
    /\ attempts' \in {attempts, [attempts EXCEPT ![q] = @ + 1]}
    /\ attempts' # attempts => request[q] = "backoff" /\ request'[q] = "trying"
    /\ Counting'
    /\ UNCHANGED <<results, phase, affected>>

\* doRequest does no more than that.
LEMMA RequestEffect ==
  ASSUME TypeOK, Counting, AttemptLeft, NEW q \in Requests,
         Transient(q) \/ Retry(q) \/ GiveUp(q) \/ Refuse(q)
  PROVE  RequestStep(q) /\ expired' = expired
<1> USE DEF Working
<1>1. CASE Transient(q)
  <2>1. CASE expired \/ attempts[q] = MaxAttempts
    <3>1. Finish(q, "failed") /\ request[q] \in Working
      BY <1>1, <2>1 DEF Transient
    <3>2. request' = [request EXCEPT ![q] = "failed"] /\ Counting'
      BY <3>1, FinishCounts DEF Ended
    <3> QED
      BY <1>1, <3>1, <3>2 DEF Transient, RequestStep
  <2>2. CASE ~(expired \/ attempts[q] = MaxAttempts)
    <3>1. request' = [request EXCEPT ![q] = "backoff"] /\ UNCHANGED <<sem, wg>>
      BY <1>1, <2>2 DEF Transient
    <3>2. Counting'
      BY <1>1, <3>1, WorkingCounts DEF Transient
    <3>3. attempts[q] < MaxAttempts
      BY <2>2, OSVAssumption DEF TypeOK
    <3> QED
      BY <1>1, <3>1, <3>2, <3>3 DEF Transient, RequestStep
  <2> QED
    BY <2>1, <2>2
<1>2. CASE Retry(q)
  <2>1. Counting'
    BY <1>2, WorkingCounts DEF Retry
  <2> QED
    BY <1>2, <2>1 DEF Retry, RequestStep, TypeOK
<1>3. CASE GiveUp(q) \/ Refuse(q)
  <2>1. PICK how \in {"refused", "failed"} : Finish(q, how)
    BY <1>3 DEF GiveUp, Refuse
  <2>2. request[q] \in Working
    BY <1>3 DEF GiveUp, Refuse
  <2>3. request' = [request EXCEPT ![q] = how] /\ Counting'
    BY <2>1, <2>2, FinishCounts DEF Ended
  <2> QED
    BY <1>3, <2>2, <2>3 DEF GiveUp, Refuse, RequestStep
<1> QED
  BY <1>1, <1>2, <1>3

\* Such a step keeps the invariant.
LEMMA RequestStepKeeps ==
  ASSUME IInv, NEW q \in Requests, RequestStep(q), expired' = expired
  PROVE  IInv'
<1>1. PICK to \in Working \cup {"refused", "failed"} :
         /\ request' = [request EXCEPT ![q] = to]
         /\ to = "backoff" => attempts[q] < MaxAttempts
  BY DEF RequestStep
<1>2. /\ Counting'
      /\ UNCHANGED <<results, phase, affected>>
      /\ request[q] \in Working
      /\ attempts' \in {attempts, [attempts EXCEPT ![q] = @ + 1]}
      /\ attempts' # attempts => request[q] = "backoff" /\ to = "trying"
  BY <1>1 DEF RequestStep, IInv, TypeOK
<1>3. MaxAttempts \in Nat /\ HydrateConcurrency \in Nat
  BY OSVAssumption
<1>4. attempts' \in [Requests -> 0..MaxAttempts]
  BY <1>2, <1>3 DEF IInv, TypeOK, AttemptLeft
<1>5. sem' \in Nat /\ sem' <= sem /\ wg' \in 0..Cardinality(Fetches) /\ wg' <= wg
  <2>1. /\ sem' = Cardinality(Among(Working))'
        /\ wg' = Cardinality(Among(Pending))'
    BY <1>2 DEF Counting
  <2>2. /\ Cardinality(Among(Working))' <= sem
        /\ Cardinality(Among(Pending))' <= wg
    <3>1. TypeOK /\ Counting
      BY DEF IInv
    <3>2. request[q] \in Pending /\ (to \in Working => to \in Pending)
      BY <1>2 DEF Pending
    <3>3. Cardinality(Among(Working))' \in {sem, sem - 1}
      BY <1>1, <1>2, <3>1, Recount DEF Counting
    <3>4. Cardinality(Among(Pending))' \in {wg, wg - 1}
      BY <1>1, <1>2, <3>1, <3>2, Recount DEF Counting
    <3>5. sem \in Nat /\ wg \in Nat
      BY <3>1, <1>3, AmongType DEF Counting
    <3> QED
      BY <3>3, <3>4, <3>5
  <2> QED
    BY <2>1, <2>2, NextAmongType
<1>6. TypeOK'
  <2>1. request' \in [Requests -> {"none", "queued", "trying", "backoff"} \cup Ended]
    BY <1>1 DEF IInv, TypeOK, Working, Ended
  <2>2. sem' \in 0..HydrateConcurrency
    BY <1>3, <1>5 DEF IInv, TypeOK
  <2> QED
    BY <1>2, <1>4, <1>5, <2>1, <2>2 DEF IInv, TypeOK
<1>7. AttemptLeft'
  BY <1>1, <1>2 DEF IInv, TypeOK, AttemptLeft
<1>8. InPhase'
  <2>1. q \in Fetches => phase = "hydrate"
    <3>1. ASSUME q \in Fetches, phase = "results"
          PROVE  FALSE
      <4>1. q \in Among(Pending) /\ Cardinality(Among(Pending)) = 0
        BY <1>2, <3>1 DEF IInv, InPhase, Counting, Among, Pending
      <4> QED
        BY <4>1, AmongType, FS_EmptySet
    <3> QED
      BY <1>2, <3>1 DEF IInv, InPhase, TypeOK, Working
  <2>2. q = Batch => phase = "batch"
    BY <1>2 DEF IInv, InPhase, TypeOK, Working
  <2> QED
    BY <1>1, <1>2, <2>1, <2>2 DEF IInv, InPhase, TypeOK, Requests, Working
<1>9. DetailsFetched'
  BY <1>1, <1>2 DEF IInv, TypeOK, DetailsFetched, Requests, Working, Pending
<1>10. LastReported'
  BY <1>2 DEF IInv, LastReported, Supersedes
<1> QED
  BY <1>2, <1>6, <1>7, <1>8, <1>9, <1>10 DEF IInv

\* As long as a fetch has not ended the details are still being awaited.
LEMMA FetchInHydrate ==
  ASSUME IInv, NEW q \in Fetches, request[q] \in Pending
  PROVE  phase = "hydrate"
<1>1. phase # "results"
  <2>1. q \in Among(Pending)
    BY DEF Among
  <2>2. Cardinality(Among(Pending)) # 0
    BY <2>1, AmongType, FS_EmptySet
  <2> QED
    BY <2>2 DEF IInv, Counting, InPhase
<1> QED
  BY <1>1 DEF IInv, InPhase, TypeOK, Pending, Working

\* A fetch begins only with a place in the semaphore.
LEMMA StartFetchKeeps ==
  ASSUME IInv, NEW q \in Fetches, StartFetch(q)
  PROVE  IInv'
<1>1. /\ request[q] = "queued"
      /\ sem < HydrateConcurrency
      /\ sem' = sem + 1
      /\ request' = [request EXCEPT ![q] = "trying"]
      /\ attempts' = [attempts EXCEPT ![q] = 1]
      /\ UNCHANGED <<expired, wg, results, phase, affected>>
  BY DEF StartFetch
<1>2. q \in Requests /\ q # Batch
  BY OSVAssumption DEF Requests
<1>3. MaxAttempts \in Nat \ {0} /\ HydrateConcurrency \in Nat
  BY OSVAssumption
<1>4. phase = "hydrate"
  BY <1>1, FetchInHydrate DEF Pending
<1>5. TypeOK'
  BY <1>1, <1>2, <1>3 DEF IInv, TypeOK
<1>6. Counting'
  <2>1. TypeOK
    BY DEF IInv
  <2>2. Cardinality(Among(Working))' = Cardinality(Among(Working)) + 1
    BY ZenonT(60), <1>1, <1>2, <2>1, Recount DEF Working
  <2>3. Cardinality(Among(Pending))' = Cardinality(Among(Pending))
    <3>1. "queued" \in Pending /\ "trying" \in Pending
      BY DEF Pending, Working
    <3> QED
      BY <1>1, <1>2, <2>1, <3>1, Recount
  <2> QED
    BY <1>1, <2>2, <2>3 DEF IInv, Counting
<1>7. AttemptLeft'
  BY <1>1, <1>2 DEF IInv, TypeOK, AttemptLeft
<1>8. InPhase'
  BY <1>1, <1>2, <1>4 DEF IInv, TypeOK, InPhase, Requests
<1>9. DetailsFetched'
  BY <1>1 DEF IInv, TypeOK, DetailsFetched, Requests, Pending, Working
<1>10. LastReported'
  BY <1>1 DEF IInv, LastReported, Supersedes
<1> QED
  BY <1>5, <1>6, <1>7, <1>8, <1>9, <1>10 DEF IInv

\* The details replace an entry and take none away.
LEMMA AnswerFetchKeeps ==
  ASSUME IInv, NEW q \in Fetches, AnswerFetch(q)
  PROVE  IInv'
<1>1. /\ request[q] = "trying"
      /\ Finish(q, "answered")
      /\ results' = [results EXCEPT ![q[1]][q[2]] = "full"]
      /\ UNCHANGED <<attempts, expired, phase, affected>>
  BY DEF AnswerFetch
<1>2. q \in Requests /\ q # Batch /\ q[1] \in Names /\ q[2] \in Vulns
  BY OSVAssumption DEF Requests, Fetches
<1>3. phase = "hydrate"
  BY <1>1, FetchInHydrate DEF Pending, Working
<1>4. request' = [request EXCEPT ![q] = "answered"] /\ Counting'
  BY <1>1, <1>2, FinishCounts DEF IInv, Ended, Working
<1>5. \A n \in Names : \A v \in Vulns :
         results'[n][v] = IF n = q[1] /\ v = q[2] THEN "full" ELSE results[n][v]
  BY <1>1, <1>2 DEF IInv, TypeOK
<1>6. TypeOK'
  <2>1. results' \in [Names -> [Vulns -> {"absent", "minimal", "full"}]]
    BY <1>1, <1>2 DEF IInv, TypeOK
  <2>2. request' \in [Requests -> {"none", "queued", "trying", "backoff"} \cup Ended]
    BY <1>4 DEF IInv, TypeOK, Ended
  <2>3. wg' \in 0..Cardinality(Fetches) /\ sem' \in Nat
    BY <1>4, NextAmongType DEF Counting
  <2>4. sem' = sem - 1
    BY <1>1, <1>2 DEF Finish
  <2>5. sem' \in 0..HydrateConcurrency
    BY <2>3, <2>4, OSVAssumption DEF IInv, TypeOK
  <2> QED
    BY <1>1, <2>1, <2>2, <2>3, <2>5 DEF IInv, TypeOK
<1>7. AttemptLeft'
  BY <1>1, <1>4 DEF IInv, TypeOK, AttemptLeft
<1>8. InPhase'
  BY <1>1, <1>2, <1>3, <1>4 DEF IInv, TypeOK, InPhase, Requests
<1>9. DetailsFetched'
  <2> SUFFICES ASSUME NEW r \in Fetches, results'[r[1]][r[2]] = "minimal"
               PROVE  request'[r] \in Pending \cup {"refused", "failed"}
    BY DEF DetailsFetched
  <2>1. r[1] \in Names /\ r[2] \in Vulns /\ r \in Requests /\ r = <<r[1], r[2]>>
    BY DEF Fetches, Requests
  <2>2. r # q /\ results[r[1]][r[2]] = "minimal"
    BY <1>5, <2>1
  <2>3. request'[r] = request[r]
    BY <1>4, <2>1, <2>2 DEF IInv, TypeOK
  <2> QED
    BY <1>3, <2>2, <2>3 DEF IInv, DetailsFetched
<1>10. LastReported'
  <2> SUFFICES ASSUME NEW d \in Deps, \A e \in Deps : ~Supersedes(e, d)', NEW v \in affected'[d]
               PROVE  results'[DepName[d]][v] # "absent"
    BY DEF LastReported
  <2>1. results[DepName[d]][v] # "absent"
    BY <1>1, <1>3 DEF IInv, LastReported, Supersedes
  <2>2. DepName[d] \in Names /\ v \in Vulns
    BY <1>1, OSVAssumption DEF IInv, TypeOK, Deps
  <2> QED
    BY <1>5, <2>1, <2>2
<1> QED
  BY <1>4, <1>6, <1>7, <1>8, <1>9, <1>10 DEF IInv

\* The answer to the batch is mapped and every entry without details gets its fetch.
LEMMA AnswerBatchKeeps ==
  ASSUME IInv, AnswerBatch
  PROVE  IInv'
<1>1. PICK found \in [Deps -> SUBSET Vulns] :
         affected' = found /\ results' = Mapped(found)
  BY DEF AnswerBatch
<1>2. /\ request[Batch] = "trying"
      /\ request' = [q \in Requests |->
                       IF q = Batch THEN "answered"
                       ELSE IF q \in Minimal(results') THEN "queued" ELSE "none"]
      /\ wg' = Cardinality(Minimal(results'))
      /\ phase' = "hydrate"
      /\ UNCHANGED <<attempts, expired, sem>>
  BY DEF AnswerBatch
<1>3. phase = "batch"
  BY <1>2 DEF IInv, InPhase, TypeOK
<1>4. \A q \in Fetches :
         q \in Requests /\ q # Batch /\ request[q] = "none"
         /\ request'[q] = IF q \in Minimal(results') THEN "queued" ELSE "none"
  BY <1>2, <1>3, OSVAssumption DEF IInv, InPhase, Requests
<1>5. Counting'
  <2>1. Among(Working) = {} /\ Among(Working)' = {}
    BY <1>4 DEF Among, Working
  <2>2. Among(Pending)' = Minimal(results')
    BY <1>4 DEF Among, Pending, Working, Minimal
  <2> QED
    BY <1>2, <2>1, <2>2 DEF IInv, Counting
<1>6. TypeOK'
  <2>1. request' \in [Requests -> {"none", "queued", "trying", "backoff"} \cup Ended]
    BY <1>2 DEF Ended
  <2>2. wg' \in 0..Cardinality(Fetches)
    BY <1>5, NextAmongType DEF Counting
  <2>3. results' \in [Names -> [Vulns -> {"absent", "minimal", "full"}]]
    BY <1>1, MappedType
  <2> QED
    BY <1>1, <1>2, <2>1, <2>2, <2>3 DEF IInv, TypeOK
<1>7. AttemptLeft'
  BY <1>2 DEF AttemptLeft
<1>8. InPhase'
  BY <1>2 DEF InPhase, Requests
<1>9. DetailsFetched'
  BY <1>4 DEF DetailsFetched, Minimal, Pending
<1>10. LastReported'
  BY <1>1, MappedReports DEF LastReported, Supersedes
<1> QED
  BY <1>5, <1>6, <1>7, <1>8, <1>9, <1>10 DEF IInv

\* The batch has failed, the last fetch has ended, or time is up.
LEMMA OthersKeep ==
  ASSUME IInv, FailBatch \/ Return \/ Expire \/ UNCHANGED vars
  PROVE  IInv'
<1>1. /\ UNCHANGED <<request, attempts, sem, wg, results, affected>>
      /\ phase' = phase \/ FailBatch \/ Return
      /\ expired' \in BOOLEAN
  BY DEF FailBatch, Return, Expire, vars, IInv, TypeOK
<1>2. TypeOK'
  BY <1>1 DEF IInv, TypeOK, FailBatch, Return
<1>3. Counting' /\ AttemptLeft'
  BY <1>1 DEF IInv, Counting, AttemptLeft, Among
<1>4. InPhase' /\ DetailsFetched' /\ LastReported'
  <2>1. CASE phase' = phase
    BY <1>1, <2>1 DEF IInv, InPhase, DetailsFetched, LastReported, Supersedes
  <2>2. CASE FailBatch
    BY <1>1, <2>2 DEF IInv, InPhase, DetailsFetched, LastReported, FailBatch
  <2>3. CASE Return
    BY <1>1, <2>3 DEF IInv, InPhase, DetailsFetched, LastReported, Supersedes, Return
  <2> QED
    BY <1>1, <2>1, <2>2, <2>3
<1> QED
  BY <1>2, <1>3, <1>4 DEF IInv

-----------------------------------------------------------------------------
(* The theorems.                                                           *)

\* The invariant holds when QueryBatch is called with a dependency.
LEMMA InitIInv == Init => IInv
<1> SUFFICES ASSUME Init
             PROVE  IInv
  OBVIOUS
<1>1. \A q \in Fetches : q \in Requests /\ q # Batch /\ request[q] = "none"
  BY OSVAssumption DEF Init, Requests
<1>2. Among(Working) = {} /\ Among(Pending) = {}
  BY <1>1 DEF Among, Working, Pending
<1>3. Counting
  BY <1>2, FS_EmptySet DEF Init, Counting
<1>4. Cardinality(Fetches) \in Nat
  BY FetchesFinite, FS_CardinalityType
<1>5. TypeOK
  <2>1. /\ 0 \in 0..MaxAttempts
        /\ 1 \in 0..MaxAttempts
        /\ 0 \in 0..HydrateConcurrency
        /\ 0 \in 0..Cardinality(Fetches)
    BY <1>4, OSVAssumption
  <2> QED
    BY <2>1 DEF Init, TypeOK
<1>6. AttemptLeft
  BY DEF Init, AttemptLeft
<1>7. InPhase /\ DetailsFetched /\ LastReported
  BY <1>1 DEF Init, InPhase, DetailsFetched, LastReported, Requests, Working
<1> QED
  BY <1>3, <1>5, <1>6, <1>7 DEF IInv

\* Every step keeps it.
LEMMA NextIInv == IInv /\ [Next]_vars => IInv'
<1> SUFFICES ASSUME IInv, [Next]_vars
             PROVE  IInv'
  OBVIOUS
<1>1. ASSUME NEW q \in Requests, Transient(q) \/ Retry(q) \/ GiveUp(q) \/ Refuse(q)
      PROVE  IInv'
  <2>1. RequestStep(q) /\ expired' = expired
    BY <1>1, RequestEffect DEF IInv
  <2> QED
    BY <2>1, RequestStepKeeps
<1>2. ASSUME NEW q \in Fetches, StartFetch(q) \/ AnswerFetch(q)
      PROVE  IInv'
  BY <1>2, StartFetchKeeps, AnswerFetchKeeps
<1> QED
  BY <1>1, <1>2, AnswerBatchKeeps, OthersKeep DEF Next, Returned

\* So it holds in every state of the query.
LEMMA Invariance == Spec => []IInv
BY InitIInv, NextIInv, PTL DEF Spec

\* The types are kept: the semaphore stays within its capacity and no request makes
\* more than MaxAttempts attempts.
THEOREM TypeCorrect == Spec => []TypeOK
<1>1. IInv => TypeOK
  BY DEF IInv
<1> QED
  BY <1>1, Invariance, PTL

\* hydrate: never more fetches are in an attempt or between two than the semaphore has
\* places, however they end.
THEOREM FanOutIsBounded == Spec => []FanOutBounded
<1>1. IInv => FanOutBounded
  <2> SUFFICES ASSUME IInv
               PROVE  FanOutBounded
    OBVIOUS
  <2>1. Fetching = Among(Working)
    BY DEF Fetching, Among, Working
  <2> QED
    BY <2>1, OSVAssumption DEF IInv, TypeOK, Counting, FanOutBounded
<1> QED
  BY <1>1, Invariance, PTL

\* QueryBatch: when it returns results, no goroutine can still write to them, and what
\* lacks its details was tried.
THEOREM WritersAreGone == Spec => []NoWriterLeft
<1>1. IInv => NoWriterLeft
  <2> SUFFICES ASSUME IInv, phase = "results", NEW q \in Fetches
               PROVE  /\ request[q] \in {"none"} \cup Ended
                      /\ results[q[1]][q[2]] = "minimal" => request[q] \in {"refused", "failed"}
    BY DEF NoWriterLeft
  <2>1. request[q] \notin Pending
    BY FetchInHydrate
  <2>2. request[q] \in {"none", "queued", "trying", "backoff"} \cup Ended
    BY DEF IInv, TypeOK, Requests
  <2> QED
    BY <2>1, <2>2 DEF IInv, DetailsFetched, Pending, Working
<1> QED
  BY <1>1, Invariance, PTL

\* QueryBatch: of several dependencies with one name, the vulnerabilities of the last
\* one that has any are reported, whether their details arrive or not.
THEOREM LastIsReported == Spec => []LastReported
<1>1. IInv => LastReported
  BY DEF IInv
<1> QED
  BY <1>1, Invariance, PTL

\* A manifest that names no package twice.
DistinctNames == \A d, e \in Deps : DepName[d] = DepName[e] => d = e

\* QueryBatch: in a manifest that names no package twice, no vulnerability is lost, not
\* one whose details never arrive.
THEOREM NothingIsLost ==
  ASSUME DistinctNames
  PROVE  Spec => []NothingLost
<1>1. IInv => NothingLost
  <2> SUFFICES ASSUME IInv, phase = "results", NEW d \in Deps, NEW v \in affected[d]
               PROVE  results[DepName[d]][v] # "absent"
    BY DEF NothingLost
  <2>1. \A e \in Deps : ~Supersedes(e, d)
    BY OSVAssumption, LenProperties DEF DistinctNames, Supersedes, Deps
  <2> QED
    BY <2>1 DEF IInv, LastReported
<1> QED
  BY <1>1, Invariance, PTL

===============================================================================
