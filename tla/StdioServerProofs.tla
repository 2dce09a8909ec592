--------------------------- MODULE StdioServerProofs --------------------------
(***************************************************************************)
(* The safety properties of StdioServer, for any lines that a client may   *)
(* write, any directories, any answers of the model and any limits.        *)
(***************************************************************************)
EXTENDS StdioServer, SequenceLemmas

-----------------------------------------------------------------------------
(* The inductive invariant.                                                *)

Writing == {"first half", "second half"}

\* Of the lines that ask for a response the loop has answered all, or all but the last,
\* and the response that it has for that one has its id.
Answering ==
    /\ loop = "scan" => Cardinality(Asked) = Cardinality(Answers)
    /\ loop \in {"handle", "lock"} \cup Writing =>
          Cardinality(Asked) = Cardinality(Answers) + 1 /\ next - 1 \in Asked
    /\ loop = "returned" =>
          Cardinality(Asked) \in {Cardinality(Answers), Cardinality(Answers) + 1}
    /\ loop = "handle" => lines[next-1].kind = "request"
    /\ loop \in {"lock"} \cup Writing => reply \in Replies /\ reply.id = IdOf(lines[next-1])

\* The n-th response is the response to the n-th of these lines.
Matching ==
    \A i \in Asked, n \in Answers :
        Rank(Asked, i) = Rank(Answers, n) => stdout[n].message.id = IdOf(lines[i])

\* The mutex is held by the one that writes.
Exclusive ==
    /\ mu = 0 <=> loop \in Writing
    /\ \A j \in Jobs : mu = j <=> jobs[j].at \in Writing

\* The output ends with half a line only while the one that has written it is about to
\* write the other half, or if output is broken.
HalfWritten ==
    /\ loop = "second half" =>
          Len(stdout) % 2 = 1 /\ stdout[Len(stdout)] = Half(reply, 1)
    /\ \A j \in Jobs : jobs[j].at = "second half" =>
          Len(stdout) % 2 = 1 /\ stdout[Len(stdout)] = Half(Notification(j), 1)
    /\ broken \/ Len(stdout) % 2 = 0 \/ loop = "second half"
       \/ \E j \in Jobs : jobs[j].at = "second half"

\* What a job has found out is about its scan.
AboutItsScan ==
    \A j \in Jobs :
        /\ jobs[j].left \subseteq DOMAIN jobs[j].scan
        /\ jobs[j].verdicts \subseteq {Verdict(jobs[j].scan[n]) : n \in DOMAIN jobs[j].scan}

\* A notification is that of a job that has sent one, and has its verdicts.
FromJobs ==
    /\ \A n \in Notified :
          LET j == stdout[n].message.job
          IN  /\ j \in Jobs
              /\ jobs[j].at \in {"sent", "done"}
              /\ stdout[n].message = Notification(j)
    /\ \A j \in Jobs : jobs[j].at = "sent" => j \in Told

Sent == {j \in Jobs : jobs[j].at = "sent"}
Untold == {j \in Jobs \ Told : jobs[j].at = "done"}

\* The counters lag behind the output only by the jobs that have sent and not counted yet.
Counted ==
    /\ ok + Cardinality(Sent) = Cardinality(Notified)
    /\ IsFiniteSet(FailedGroups)
    /\ failed = Cardinality(Untold) + Cardinality(FailedGroups)

\* Main waits for the loop, and for the jobs.
Waiting ==
    /\ main # "serving" => loop = "returned"
    /\ main = "ended" => \A j \in Jobs : jobs[j].at \in Done

IInv ==
    /\ TypeOK
    /\ Answering
    /\ Matching
    /\ Exclusive
    /\ HalfWritten
    /\ WholeLines
    /\ AboutItsScan
    /\ FromJobs
    /\ Counted
    /\ Waiting

Stages == {"slot"} \cup Holding \cup Done
Halves == [message : Replies \cup Notifications, part : {1, 2}]

-----------------------------------------------------------------------------
(* Counting.                                                               *)

\* The sets that are counted.
LEMMA Numbers ==
  ASSUME TypeOK
  PROVE  /\ Len(lines) \in Nat /\ Len(stdout) \in Nat /\ Len(jobs) \in Nat
         /\ next \in Nat \ {0} /\ next <= Len(lines) + 1
         /\ DOMAIN stdout = 1..Len(stdout) /\ Jobs = 1..Len(jobs)
         /\ Asked \subseteq 1..(next - 1) /\ Asked \subseteq Nat /\ IsFiniteSet(Asked)
         /\ Answers \subseteq 1..Len(stdout) /\ Answers \subseteq Nat /\ IsFiniteSet(Answers)
         /\ Notified \subseteq 1..Len(stdout) /\ IsFiniteSet(Notified)
         /\ IsFiniteSet(Jobs) /\ IsFiniteSet(Sent) /\ IsFiniteSet(Untold)
         /\ Cardinality(Asked) \in Nat /\ Cardinality(Answers) \in Nat
         /\ Cardinality(Notified) \in Nat
         /\ Cardinality(Sent) \in Nat /\ Cardinality(Untold) \in Nat
<1>1. /\ Len(lines) \in Nat /\ Len(stdout) \in Nat /\ Len(jobs) \in Nat
      /\ DOMAIN stdout = 1..Len(stdout) /\ Jobs = 1..Len(jobs)
      /\ next \in Nat \ {0} /\ next <= Len(lines) + 1
  <2>1. lines \in Seq(Lines) /\ next \in 1..Len(lines)+1
    BY DEF TypeOK
  <2>2. stdout \in Seq(Halves)
    BY DEF TypeOK, Halves
  <2>3. jobs \in Seq(JobRecords)
    BY DEF TypeOK
  <2>4. Len(lines) \in Nat /\ Len(stdout) \in Nat /\ Len(jobs) \in Nat
    BY <2>1, <2>2, <2>3, LenProperties
  <2>5. DOMAIN stdout = 1..Len(stdout) /\ Jobs = 1..Len(jobs)
    BY <2>2, <2>3, LenProperties DEF Jobs
  <2> QED
    BY <2>1, <2>4, <2>5
<1>2. /\ IsFiniteSet(1..(next - 1)) /\ IsFiniteSet(1..Len(stdout)) /\ IsFiniteSet(1..Len(jobs))
  BY <1>1, FS_Interval
<1>3. /\ Asked \subseteq 1..(next - 1) /\ Asked \subseteq Nat
      /\ Answers \subseteq 1..Len(stdout) /\ Answers \subseteq Nat
      /\ Notified \subseteq 1..Len(stdout)
      /\ Sent \subseteq 1..Len(jobs) /\ Untold \subseteq 1..Len(jobs)
  BY <1>1 DEF Asked, Answers, Notified, Sent, Untold
<1>4. IsFiniteSet(Asked)
  BY <1>2, <1>3, FS_Subset
<1>5. IsFiniteSet(Answers) /\ IsFiniteSet(Notified)
  BY <1>2, <1>3, FS_Subset
<1>6. IsFiniteSet(Sent) /\ IsFiniteSet(Untold)
  BY <1>2, <1>3, FS_Subset
<1> QED
  BY <1>1, <1>2, <1>3, <1>4, <1>5, <1>6, FS_CardinalityType

-----------------------------------------------------------------------------
(* Output.                                                                 *)

\* Only responses have a status.
LEMMA MessageKinds ==
  /\ \A m \in Replies : "status" \in DOMAIN m
  /\ \A m \in Notifications : "status" \notin DOMAIN m
BY DEF Replies, Notifications

\* A half that is written is behind those that have been, and is a response or a
\* notification if it is a second half.
LEMMA Appended ==
  ASSUME TypeOK, NEW h \in Halves, stdout' = Append(stdout, h)
  PROVE  /\ stdout' \in Seq(Halves)
         /\ Len(stdout') = Len(stdout) + 1
         /\ \A n \in 1..Len(stdout) : stdout'[n] = stdout[n]
         /\ stdout'[Len(stdout) + 1] = h
         /\ DOMAIN stdout' = 1..(Len(stdout) + 1)
         /\ Answers' = IF h.part = 2 /\ h.message \in Replies
                       THEN Answers \cup {Len(stdout) + 1} ELSE Answers
         /\ Notified' = IF h.part = 2 /\ h.message \in Notifications
                        THEN Notified \cup {Len(stdout) + 1} ELSE Notified
<1>1. stdout \in Seq(Halves)
  BY DEF TypeOK, Halves
<1>2. /\ stdout' \in Seq(Halves)
      /\ Len(stdout') = Len(stdout) + 1
      /\ \A n \in 1..Len(stdout) : stdout'[n] = stdout[n]
      /\ stdout'[Len(stdout) + 1] = h
  BY <1>1, AppendProperties
<1>3. /\ Len(stdout) \in Nat
      /\ DOMAIN stdout = 1..Len(stdout)
      /\ DOMAIN stdout' = 1..(Len(stdout) + 1)
  BY <1>1, <1>2, LenProperties
<1>4. /\ Answers = {n \in 1..Len(stdout) : "status" \in DOMAIN stdout[n].message /\ stdout[n].part = 2}
      /\ Notified = {n \in 1..Len(stdout) : "status" \notin DOMAIN stdout[n].message /\ stdout[n].part = 2}
  BY <1>3 DEF Answers, Notified, IsReply, Complete
<1>5. /\ Answers' = {n \in 1..(Len(stdout) + 1) :
                        "status" \in DOMAIN stdout'[n].message /\ stdout'[n].part = 2}
      /\ Notified' = {n \in 1..(Len(stdout) + 1) :
                         "status" \notin DOMAIN stdout'[n].message /\ stdout'[n].part = 2}
  BY <1>3 DEF Answers, Notified, IsReply, Complete
<1>6. /\ h.message \in Replies \cup Notifications
      /\ h.message \in Replies <=> "status" \in DOMAIN h.message
      /\ h.message \in Notifications <=> "status" \notin DOMAIN h.message
  BY MessageKinds DEF Halves
<1>7. 1..(Len(stdout) + 1) = 1..Len(stdout) \cup {Len(stdout) + 1}
  BY <1>3
<1>8. Answers' = IF h.part = 2 /\ h.message \in Replies
                 THEN Answers \cup {Len(stdout) + 1} ELSE Answers
  BY <1>2, <1>4, <1>5, <1>6, <1>7
<1>9. Notified' = IF h.part = 2 /\ h.message \in Notifications
                  THEN Notified \cup {Len(stdout) + 1} ELSE Notified
  BY <1>2, <1>4, <1>5, <1>6, <1>7
<1> QED
  BY <1>2, <1>3, <1>8, <1>9

\* Odd and even take turns.
LEMMA Parity ==
  ASSUME NEW n \in Nat
  PROVE  /\ n % 2 \in {0, 1}
         /\ n % 2 = 0 => (n + 1) % 2 = 1
         /\ n % 2 = 1 => (n + 1) % 2 = 0
OBVIOUS

\* Whole lines stay whole if a first half follows them, or the other half of the last.
LEMMA LinesStayWhole ==
  ASSUME TypeOK, WholeLines, NEW h \in Halves, stdout' = Append(stdout, h),
         \/ Len(stdout) % 2 = 0 /\ h.part = 1
         \/ Len(stdout) % 2 = 1 /\ h.part = 2 /\ stdout[Len(stdout)].message = h.message
  PROVE  WholeLines'
<1>1. /\ Len(stdout) \in Nat
      /\ DOMAIN stdout = 1..Len(stdout)
      /\ DOMAIN stdout' = 1..(Len(stdout) + 1)
      /\ \A n \in 1..Len(stdout) : stdout'[n] = stdout[n]
      /\ stdout'[Len(stdout) + 1] = h
  BY Numbers, Appended
<1>2. SUFFICES ASSUME NEW n \in 1..(Len(stdout) + 1)
               PROVE  IF n % 2 = 1 THEN stdout'[n].part = 1
                      ELSE stdout'[n].part = 2 /\ stdout'[n].message = stdout'[n-1].message
  BY <1>1 DEF WholeLines, Complete
<1>3. CASE n <= Len(stdout)
  <2>1. n \in 1..Len(stdout) /\ (n % 2 # 1 => n - 1 \in 1..Len(stdout))
    BY <1>1, <1>3
  <2> QED
    BY <1>1, <2>1 DEF WholeLines, Complete
<1>4. CASE n = Len(stdout) + 1
  <2>1. CASE Len(stdout) % 2 = 0 /\ h.part = 1
    BY <1>1, <1>4, <2>1, Parity
  <2>2. CASE Len(stdout) % 2 = 1 /\ h.part = 2 /\ stdout[Len(stdout)].message = h.message
    <3>1. Len(stdout) \in 1..Len(stdout) /\ n - 1 = Len(stdout) /\ n % 2 = 0
      BY <1>1, <1>4, <2>2, Parity
    <3> QED
      BY <1>1, <1>4, <2>2, <3>1
  <2> QED
    BY <2>1, <2>2
<1> QED
  BY <1>1, <1>3, <1>4

-----------------------------------------------------------------------------
(* The steps of a verification.                                            *)

\* One job changes.
LEMMA JobChanged ==
  ASSUME TypeOK, NEW j \in Jobs, NEW r \in JobRecords, jobs' = [jobs EXCEPT ![j] = r]
  PROVE  /\ jobs' \in Seq(JobRecords)
         /\ Jobs' = Jobs
         /\ \A i \in Jobs : jobs'[i] = IF i = j THEN r ELSE jobs[i]
<1>1. jobs \in [1..Len(jobs) -> JobRecords] /\ Len(jobs) \in Nat /\ Jobs = 1..Len(jobs)
  <2>1. jobs \in Seq(JobRecords)
    BY DEF TypeOK
  <2> QED
    BY <2>1, LenProperties DEF Jobs
<1>2. jobs' \in [1..Len(jobs) -> JobRecords]
  BY <1>1
<1>3. jobs' \in Seq(JobRecords)
  BY <1>1, <1>2, SeqDef
<1> QED
  BY <1>1, <1>2, <1>3 DEF Jobs

\* Such a step of a job that has not ended leaves the loop and main alone, unless the
\* output is changed.
LEMMA JobStepKeeps ==
  ASSUME IInv, NEW j \in Jobs, NEW r \in JobRecords, jobs' = [jobs EXCEPT ![j] = r], Quiet,
         jobs[j].at \notin Done,
         r.scan = jobs[j].scan,
         r.left \subseteq jobs[j].left,
         r.verdicts \subseteq {Verdict(r.scan[n]) : n \in DOMAIN r.scan},
         stdout' \in Seq(Halves), mu' \in {None, 0} \cup Jobs, ok' \in Nat, failed' \in Nat,
         Answers' = Answers, \A n \in Answers : stdout'[n] = stdout[n]
  PROVE  /\ TypeOK' /\ Answering' /\ Matching' /\ AboutItsScan' /\ Waiting'
         /\ Jobs' = Jobs
         /\ \A i \in Jobs : jobs'[i] = IF i = j THEN r ELSE jobs[i]
<1>1. /\ jobs' \in Seq(JobRecords)
      /\ Jobs' = Jobs
      /\ \A i \in Jobs : jobs'[i] = IF i = j THEN r ELSE jobs[i]
  BY JobChanged DEF IInv
<1>2. UNCHANGED <<lines, next, eof, stopped, broken, loop, reply, main>>
  BY DEF Quiet, client
<1>3. TypeOK'
  BY <1>1, <1>2 DEF IInv, TypeOK, Halves
<1>4. Asked' = Asked
  BY <1>2 DEF Asked
<1>5. Answering'
  BY <1>2, <1>4 DEF IInv, Answering
<1>6. Matching'
  BY <1>2, <1>4 DEF IInv, Matching
<1>7. AboutItsScan'
  BY <1>1 DEF IInv, AboutItsScan
<1>8. Waiting'
  BY <1>1, <1>2 DEF IInv, Waiting
<1> QED
  BY <1>1, <1>3, <1>5, <1>6, <1>7, <1>8

\* A step that neither writes nor begins or ends writing.
LEMMA JobDoesNotWrite ==
  ASSUME IInv, NEW j \in Jobs, NEW r, Jobs' = Jobs,
         \A i \in Jobs : jobs'[i] = IF i = j THEN r ELSE jobs[i],
         jobs[j].at \notin Writing, r.at \notin Writing,
         Quiet, UNCHANGED <<mu, stdout>>
  PROVE  Exclusive' /\ HalfWritten' /\ WholeLines'
<1>1. UNCHANGED <<broken, loop, reply>>
  BY DEF Quiet, client
<1>2. Exclusive'
  BY <1>1 DEF IInv, Exclusive
<1>3. \A i \in Jobs : jobs'[i].at = "second half" <=> jobs[i].at = "second half"
  BY DEF Writing
<1>4. \A i \in Jobs : jobs[i].at = "second half" => Notification(i)' = Notification(i)
  BY DEF Notification, Writing
<1>5. HalfWritten'
  BY <1>1, <1>3, <1>4 DEF IInv, HalfWritten, Half
<1>6. WholeLines'
  BY DEF IInv, WholeLines, Complete
<1> QED
  BY <1>2, <1>5, <1>6

\* A step before the notification has been sent, and that does not send it.
LEMMA JobDoesNotCount ==
  ASSUME IInv, NEW j \in Jobs, NEW r, Jobs' = Jobs,
         \A i \in Jobs : jobs'[i] = IF i = j THEN r ELSE jobs[i],
         jobs[j].at \notin {"sent", "done"}, r.at \notin {"sent", "done"},
         Notified' = Notified, \A n \in Notified : stdout'[n] = stdout[n]
  PROVE  FromJobs' /\ Told' = Told /\ Sent' = Sent /\ Untold' = Untold
<1>1. Told' = Told
  BY DEF Told
<1>2. Sent' = Sent /\ Untold' = Untold
  BY <1>1 DEF Sent, Untold
<1>3. FromJobs'
  <2>1. ASSUME NEW n \in Notified
        PROVE  /\ stdout[n].message.job \in Jobs
               /\ jobs'[stdout[n].message.job].at \in {"sent", "done"}
               /\ stdout[n].message = [job |-> stdout[n].message.job,
                                       verdicts |-> jobs'[stdout[n].message.job].verdicts]
    <3>1. /\ stdout[n].message.job \in Jobs
          /\ jobs[stdout[n].message.job].at \in {"sent", "done"}
          /\ stdout[n].message = [job |-> stdout[n].message.job,
                                  verdicts |-> jobs[stdout[n].message.job].verdicts]
      BY DEF IInv, FromJobs, Notification
    <3>2. stdout[n].message.job # j
      BY <3>1
    <3>3. jobs'[stdout[n].message.job] = jobs[stdout[n].message.job]
      BY <3>1, <3>2
    <3> QED
      BY <3>1, <3>3
  <2>2. ASSUME NEW i \in Jobs, jobs'[i].at = "sent"
        PROVE  i \in Told'
    BY <1>1, <2>2 DEF IInv, FromJobs
  <2>3. \A n \in Notified' :
           /\ stdout'[n].message.job \in Jobs'
           /\ jobs'[stdout'[n].message.job].at \in {"sent", "done"}
           /\ stdout'[n].message = [job |-> stdout'[n].message.job,
                                    verdicts |-> jobs'[stdout'[n].message.job].verdicts]
    BY <2>1
  <2>4. \A i \in Jobs' : jobs'[i].at = "sent" => i \in Told'
    BY <2>2
  <2> QED
    BY <2>3, <2>4 DEF FromJobs, Notification
<1> QED
  BY <1>1, <1>2, <1>3

\* The groups that failed, for jobs S with the records f.
Failures(S, f) == UNION {{i} \X (1..f[i].errors) : i \in S}

\* What its members are.
LEMMA GroupsUpTo ==
  ASSUME NEW S, NEW f
  PROVE  \A p : p \in Failures(S, f) <=> \E i \in S : \E e \in 1..f[i].errors : p = <<i, e>>
<1>1. TAKE p
<1>2. p \in Failures(S, f) <=> \E i \in S : p \in {i} \X (1..f[i].errors)
  BY DEF Failures
<1>3. \A i : p \in {i} \X (1..f[i].errors) <=> \E e \in 1..f[i].errors : p = <<i, e>>
  OBVIOUS
<1> QED
  BY <1>2, <1>3

\* One more of which nothing failed adds nothing.
LEMMA NoNewFailures ==
  ASSUME NEW S, NEW f, NEW g, NEW k, \A i \in S : g[i].errors = f[i].errors, g[k].errors = 0
  PROVE  Failures(S \cup {k}, g) = Failures(S, f)
<1>1. \A p : p \in Failures(S \cup {k}, g)
             <=> \E i \in S \cup {k} : \E e \in 1..g[i].errors : p = <<i, e>>
  BY GroupsUpTo
<1>2. \A p : p \in Failures(S, f) <=> \E i \in S : \E e \in 1..f[i].errors : p = <<i, e>>
  BY GroupsUpTo
<1>3. 1..g[k].errors = {}
  OBVIOUS
<1>4. ASSUME NEW p \in Failures(S \cup {k}, g)
      PROVE  p \in Failures(S, f)
  BY <1>1, <1>2, <1>3
<1>5. ASSUME NEW p \in Failures(S, f)
      PROVE  p \in Failures(S \cup {k}, g)
  BY <1>1, <1>2
<1> QED
  BY <1>4, <1>5

\* The groups that failed, if no job has more of them than before.
LEMMA SameFailures ==
  ASSUME NEW j \in Jobs, NEW r, Jobs' = Jobs,
         \A i \in Jobs : jobs'[i] = IF i = j THEN r ELSE jobs[i],
         r.errors = jobs[j].errors
  PROVE  FailedGroups' = FailedGroups
<1>1. \A i \in Jobs : jobs'[i].errors = jobs[i].errors
  OBVIOUS
<1> QED
  BY <1>1 DEF FailedGroups

\* What there is to know of a job.
LEMMA JobFacts ==
  ASSUME IInv, NEW j \in Jobs
  PROVE  /\ jobs[j] \in JobRecords
         /\ jobs[j].left \subseteq DOMAIN jobs[j].scan
         /\ jobs[j].verdicts \subseteq {Verdict(jobs[j].scan[n]) : n \in DOMAIN jobs[j].scan}
         /\ stdout \in Seq(Halves) /\ mu \in {None, 0} \cup Jobs /\ ok \in Nat /\ failed \in Nat
         /\ j \in Nat \ {0}
         /\ None # 0 /\ None # j
         /\ None \notin Jobs
<1>1. jobs \in Seq(JobRecords) /\ Jobs = 1..Len(jobs)
  BY Numbers DEF IInv, TypeOK
<1>2. jobs[j] \in JobRecords /\ j \in Nat \ {0} /\ Jobs \subseteq Nat
  BY <1>1, LenProperties, ElementOfSeq
<1>3. stdout \in Seq(Halves) /\ mu \in {None, 0} \cup Jobs /\ ok \in Nat /\ failed \in Nat
  BY DEF IInv, TypeOK, Halves
<1>4. /\ jobs[j].left \subseteq DOMAIN jobs[j].scan
      /\ jobs[j].verdicts \subseteq {Verdict(jobs[j].scan[n]) : n \in DOMAIN jobs[j].scan}
  BY DEF IInv, AboutItsScan
<1>5. None \notin Nat
  BY NoneAssumption
<1>6. 0 \in Nat /\ j \in Nat /\ Jobs \subseteq Nat
  BY <1>2
<1>7. None # 0 /\ None # j /\ None \notin Jobs
  BY <1>5, <1>6, Zenon
<1> QED
  BY <1>2, <1>3, <1>4, <1>7

\* Verdicts about one scan are verdicts.
LEMMA VerdictsOfScan ==
  ASSUME NEW scan \in Scans
  PROVE  {Verdict(scan[n]) : n \in DOMAIN scan} \subseteq AllVerdicts
BY DEF AllVerdicts

\* A group that has been verified, with the verdicts that the answer has on it.
LEMMA JobVerifies ==
  ASSUME IInv, NEW j \in Jobs, NEW rows, VerifyGroup(j, rows)
  PROVE  IInv'
<1> DEFINE scan == jobs[j].scan
           group == GroupByFile(scan, jobs[j].left)
           verdicts == jobs[j].verdicts \cup ParseVerdicts(rows, scan, group)
           left == jobs[j].left \ group
           r == [jobs[j] EXCEPT !.left = left, !.verdicts = verdicts]
<1>1. /\ jobs[j].at = "verify"
      /\ jobs' = [jobs EXCEPT ![j].left = left, ![j].verdicts = verdicts]
      /\ Quiet /\ UNCHANGED <<mu, stdout, ok, failed>>
  BY DEF VerifyGroup
<1>2. verdicts \subseteq {Verdict(scan[n]) : n \in DOMAIN scan}
  <2>1. group \subseteq DOMAIN scan
    BY JobFacts DEF GroupByFile
  <2> HIDE DEF group
  <2>2. ParseVerdicts(rows, scan, group) \subseteq {Verdict(scan[n]) : n \in DOMAIN scan}
    BY <2>1 DEF ParseVerdicts
  <2> QED
    BY <2>2, JobFacts
<1>3. left \subseteq jobs[j].left
  OBVIOUS
<1>4. jobs[j] \in JobRecords
  BY JobFacts
<1> HIDE DEF left, verdicts
<1>5. verdicts \subseteq AllVerdicts
  <2>1. scan \in Scans
    BY <1>4 DEF JobRecords
  <2> QED
    BY <1>2, <2>1, VerdictsOfScan
<1>6. /\ r \in JobRecords
      /\ r.at = "verify" /\ r.scan = scan /\ r.left = left
      /\ r.verdicts = verdicts /\ r.errors = jobs[j].errors
  BY <1>1, <1>3, <1>4, <1>5 DEF JobRecords
<1>7. jobs' = [jobs EXCEPT ![j] = r]
  BY <1>1, <1>4 DEF JobRecords
<1> HIDE DEF r
<1>8. Answers' = Answers /\ Notified' = Notified
  BY <1>1 DEF Answers, Notified, IsReply, Complete
<1>9. /\ jobs[j].at \notin Done
      /\ r.left \subseteq jobs[j].left
      /\ r.verdicts \subseteq {Verdict(r.scan[n]) : n \in DOMAIN r.scan}
      /\ stdout' \in Seq(Halves)
      /\ mu' \in {None, 0} \cup Jobs
      /\ ok' \in Nat
      /\ failed' \in Nat
      /\ \A n \in Answers : stdout'[n] = stdout[n]
  <2>1. jobs[j].at \notin Done
    BY <1>1 DEF Done
  <2> QED
    BY <1>1, <1>2, <1>3, <1>6, <2>1, JobFacts
<1>10. /\ TypeOK' /\ Answering' /\ Matching' /\ AboutItsScan' /\ Waiting'
       /\ Jobs' = Jobs
       /\ \A i \in Jobs : jobs'[i] = IF i = j THEN r ELSE jobs[i]
  BY <1>1, <1>6, <1>7, <1>8, <1>9, JobStepKeeps
<1>11. Exclusive' /\ HalfWritten' /\ WholeLines'
  BY <1>1, <1>6, <1>10, JobDoesNotWrite DEF Writing
<1>12. FromJobs' /\ Sent' = Sent /\ Untold' = Untold
  BY <1>1, <1>6, <1>8, <1>10, JobDoesNotCount
<1>13. FailedGroups' = FailedGroups
  BY <1>6, <1>10, SameFailures
<1>14. Counted'
  BY <1>1, <1>8, <1>12, <1>13 DEF IInv, Counted
<1> QED
  BY <1>10, <1>11, <1>12, <1>14 DEF IInv

\* A group whose verification fails is counted once.
LEMMA JobVerifiesNot ==
  ASSUME IInv, NEW j \in Jobs, VerifyGroupFails(j)
  PROVE  IInv'
<1> DEFINE left == jobs[j].left \ GroupByFile(jobs[j].scan, jobs[j].left)
           r == [jobs[j] EXCEPT !.left = left, !.errors = jobs[j].errors + 1]
<1>1. /\ jobs[j].at = "verify"
      /\ jobs' = [jobs EXCEPT ![j].left = left, ![j].errors = jobs[j].errors + 1]
      /\ failed' = failed + 1
      /\ Quiet /\ UNCHANGED <<mu, stdout, ok>>
  BY DEF VerifyGroupFails
<1>2. left \subseteq jobs[j].left
  OBVIOUS
<1>3. jobs[j] \in JobRecords
  BY JobFacts
<1> HIDE DEF left
<1>4. jobs[j].errors \in Nat /\ jobs[j].errors + 1 \in Nat
  BY <1>3 DEF JobRecords
<1>5. /\ r \in JobRecords
      /\ r.at = "verify" /\ r.scan = jobs[j].scan /\ r.left = left
      /\ r.verdicts = jobs[j].verdicts /\ r.errors = jobs[j].errors + 1
  BY <1>1, <1>2, <1>3, <1>4 DEF JobRecords
<1>6. jobs' = [jobs EXCEPT ![j] = r]
  BY <1>1, <1>3 DEF JobRecords
<1> HIDE DEF r
<1>7. Answers' = Answers /\ Notified' = Notified
  BY <1>1 DEF Answers, Notified, IsReply, Complete
<1>8. /\ jobs[j].at \notin Done
      /\ r.left \subseteq jobs[j].left
      /\ r.verdicts \subseteq {Verdict(r.scan[n]) : n \in DOMAIN r.scan}
      /\ stdout' \in Seq(Halves)
      /\ mu' \in {None, 0} \cup Jobs
      /\ ok' \in Nat
      /\ failed' \in Nat
      /\ \A n \in Answers : stdout'[n] = stdout[n]
  <2>1. jobs[j].at \notin Done
    BY <1>1 DEF Done
  <2> QED
    BY <1>1, <1>2, <1>5, <2>1, JobFacts
<1>9. /\ TypeOK' /\ Answering' /\ Matching' /\ AboutItsScan' /\ Waiting'
      /\ Jobs' = Jobs
      /\ \A i \in Jobs : jobs'[i] = IF i = j THEN r ELSE jobs[i]
  BY <1>1, <1>5, <1>6, <1>7, <1>8, JobStepKeeps
<1>10. Exclusive' /\ HalfWritten' /\ WholeLines'
  BY <1>1, <1>5, <1>9, JobDoesNotWrite DEF Writing
<1>11. FromJobs' /\ Sent' = Sent /\ Untold' = Untold
  BY <1>1, <1>5, <1>7, <1>9, JobDoesNotCount
<1>12. /\ FailedGroups' = FailedGroups \cup {<<j, jobs[j].errors + 1>>}
       /\ <<j, jobs[j].errors + 1>> \notin FailedGroups
  <2>1. \A i \in Jobs : jobs'[i].errors = IF i = j THEN jobs[j].errors + 1 ELSE jobs[i].errors
    BY <1>5, <1>9
  <2>2. 1..(jobs[j].errors + 1) = 1..jobs[j].errors \cup {jobs[j].errors + 1}
    BY <1>4
  <2>3. jobs[j].errors + 1 \notin 1..jobs[j].errors
    BY <1>4
  <2>4. \A p : p \in FailedGroups <=> \E i \in Jobs : \E e \in 1..jobs[i].errors : p = <<i, e>>
    BY GroupsUpTo DEF FailedGroups, Failures
  <2>5. \A p : p \in FailedGroups' <=> \E i \in Jobs' : \E e \in 1..jobs'[i].errors : p = <<i, e>>
    BY GroupsUpTo DEF FailedGroups, Failures
  <2>6. \A p : p \in FailedGroups' <=> p \in FailedGroups \/ p = <<j, jobs[j].errors + 1>>
    BY <1>9, <2>1, <2>2, <2>4, <2>5
  <2>7. <<j, jobs[j].errors + 1>> \notin FailedGroups
    BY <2>3, <2>4
  <2> QED
    BY <2>6, <2>7
<1>13. /\ IsFiniteSet(FailedGroups')
       /\ Cardinality(FailedGroups') = Cardinality(FailedGroups) + 1
       /\ Cardinality(FailedGroups) \in Nat
  BY <1>12, FS_AddElement, FS_CardinalityType DEF IInv, Counted
<1>14. Cardinality(Untold) \in Nat
  BY Numbers DEF IInv
<1>15. Counted'
  BY <1>1, <1>7, <1>11, <1>13, <1>14 DEF IInv, Counted
<1> QED
  BY <1>9, <1>10, <1>11, <1>15 DEF IInv

\* A step that does not touch half a line.
LEMMA JobLeavesHalves ==
  ASSUME IInv, NEW j \in Jobs, NEW r, Jobs' = Jobs,
         \A i \in Jobs : jobs'[i] = IF i = j THEN r ELSE jobs[i],
         jobs[j].at # "second half", r.at # "second half",
         Quiet, stdout' = stdout
  PROVE  HalfWritten' /\ WholeLines'
<1>1. UNCHANGED <<broken, loop, reply>>
  BY DEF Quiet, client
<1>2. \A i \in Jobs : jobs'[i].at = "second half" <=> jobs[i].at = "second half"
  OBVIOUS
<1>3. \A i \in Jobs : jobs[i].at = "second half" => Notification(i)' = Notification(i)
  BY DEF Notification
<1>4. HalfWritten'
  BY <1>1, <1>2, <1>3 DEF IInv, HalfWritten, Half
<1>5. WholeLines'
  BY DEF IInv, WholeLines, Complete
<1> QED
  BY <1>4, <1>5

\* A job with a new stage and nothing else.
LEMMA JobMoves ==
  ASSUME IInv, NEW j \in Jobs, NEW at \in Stages, To(j, at)
  PROVE  \E r \in JobRecords :
            /\ r.at = at /\ r.scan = jobs[j].scan /\ r.left = jobs[j].left
            /\ r.verdicts = jobs[j].verdicts /\ r.errors = jobs[j].errors
            /\ jobs' = [jobs EXCEPT ![j] = r]
<1> DEFINE r == [jobs[j] EXCEPT !.at = at]
<1>1. jobs[j] \in JobRecords
  BY JobFacts
<1>2. /\ r \in JobRecords
      /\ r.at = at /\ r.scan = jobs[j].scan /\ r.left = jobs[j].left
      /\ r.verdicts = jobs[j].verdicts /\ r.errors = jobs[j].errors
      /\ jobs' = [jobs EXCEPT ![j] = r]
  BY <1>1 DEF JobRecords, To, Stages
<1> QED
  BY <1>2

\* What such a step keeps.
LEMMA JobMoveKeeps ==
  ASSUME IInv, NEW j \in Jobs, NEW r \in JobRecords, jobs' = [jobs EXCEPT ![j] = r], Quiet,
         jobs[j].at \notin Done,
         r.scan = jobs[j].scan, r.left = jobs[j].left, r.verdicts = jobs[j].verdicts,
         r.errors = jobs[j].errors,
         stdout' \in Seq(Halves), mu' \in {None, 0} \cup Jobs, ok' \in Nat, failed' \in Nat,
         Answers' = Answers, \A n \in Answers : stdout'[n] = stdout[n]
  PROVE  /\ TypeOK' /\ Answering' /\ Matching' /\ AboutItsScan' /\ Waiting'
         /\ Jobs' = Jobs
         /\ \A i \in Jobs : jobs'[i] = IF i = j THEN r ELSE jobs[i]
         /\ FailedGroups' = FailedGroups
<1>1. /\ r.left \subseteq jobs[j].left
      /\ r.verdicts \subseteq {Verdict(r.scan[n]) : n \in DOMAIN r.scan}
  BY JobFacts
<1>2. /\ TypeOK' /\ Answering' /\ Matching' /\ AboutItsScan' /\ Waiting'
      /\ Jobs' = Jobs
      /\ \A i \in Jobs : jobs'[i] = IF i = j THEN r ELSE jobs[i]
  BY <1>1, JobStepKeeps
<1>3. FailedGroups' = FailedGroups
  BY <1>2, SameFailures
<1> QED
  BY <1>2, <1>3

\* Output that does not change has the same responses and notifications.
LEMMA SameOutput ==
  ASSUME stdout' = stdout
  PROVE  Answers' = Answers /\ Notified' = Notified
BY DEF Answers, Notified, IsReply, Complete

\* A job waits for its place, gets it or does not, and comes to the sending of what it has
\* found out.
LEMMA JobAdvances ==
  ASSUME IInv, NEW j \in Jobs, Acquire(j) \/ Drop(j) \/ Emit(j)
  PROVE  IInv'
<1>1. PICK at \in {"verify", "dropped", "lock"} :
         /\ To(j, at) /\ jobs[j].at \in {"slot", "verify"}
         /\ Quiet /\ UNCHANGED <<mu, stdout, ok, failed>>
  BY DEF Acquire, Drop, Emit
<1>2. at \in Stages
  BY DEF Stages, Holding, Done
<1>3. PICK r \in JobRecords :
         /\ r.at = at /\ r.scan = jobs[j].scan /\ r.left = jobs[j].left
         /\ r.verdicts = jobs[j].verdicts /\ r.errors = jobs[j].errors
         /\ jobs' = [jobs EXCEPT ![j] = r]
  BY <1>1, <1>2, JobMoves
<1>4. Answers' = Answers /\ Notified' = Notified
  BY <1>1, SameOutput
<1>5. /\ jobs[j].at \notin Done
      /\ stdout' \in Seq(Halves) /\ mu' \in {None, 0} \cup Jobs
      /\ ok' \in Nat /\ failed' \in Nat /\ \A n \in Answers : stdout'[n] = stdout[n]
  BY <1>1, JobFacts DEF Done
<1>6. /\ TypeOK' /\ Answering' /\ Matching' /\ AboutItsScan' /\ Waiting'
      /\ Jobs' = Jobs
      /\ \A i \in Jobs : jobs'[i] = IF i = j THEN r ELSE jobs[i]
      /\ FailedGroups' = FailedGroups
  BY <1>1, <1>3, <1>4, <1>5, JobMoveKeeps
<1>7. Exclusive' /\ HalfWritten' /\ WholeLines'
  BY <1>1, <1>3, <1>6, JobDoesNotWrite DEF Writing
<1>8. FromJobs' /\ Sent' = Sent /\ Untold' = Untold
  BY <1>1, <1>3, <1>4, <1>6, JobDoesNotCount
<1>9. Counted'
  BY <1>1, <1>4, <1>6, <1>8 DEF IInv, Counted
<1> QED
  BY <1>6, <1>7, <1>8, <1>9 DEF IInv

\* A job takes the mutex.
LEMMA JobTakesMutex ==
  ASSUME IInv, NEW j \in Jobs, JobLocks(j)
  PROVE  IInv'
<1>1. /\ jobs[j].at = "lock" /\ mu = None /\ mu' = j /\ To(j, "first half")
      /\ Quiet /\ UNCHANGED <<stdout, ok, failed>>
  BY DEF JobLocks, Lock
<1>2. "first half" \in Stages
  BY DEF Stages, Holding
<1>3. PICK r \in JobRecords :
         /\ r.at = "first half" /\ r.scan = jobs[j].scan /\ r.left = jobs[j].left
         /\ r.verdicts = jobs[j].verdicts /\ r.errors = jobs[j].errors
         /\ jobs' = [jobs EXCEPT ![j] = r]
  BY <1>1, <1>2, JobMoves
<1>4. Answers' = Answers /\ Notified' = Notified
  BY <1>1, SameOutput
<1>5. /\ jobs[j].at \notin Done
      /\ stdout' \in Seq(Halves) /\ mu' \in {None, 0} \cup Jobs
      /\ ok' \in Nat /\ failed' \in Nat /\ \A n \in Answers : stdout'[n] = stdout[n]
  BY <1>1, JobFacts DEF Done
<1>6. /\ TypeOK' /\ Answering' /\ Matching' /\ AboutItsScan' /\ Waiting'
      /\ Jobs' = Jobs
      /\ \A i \in Jobs : jobs'[i] = IF i = j THEN r ELSE jobs[i]
      /\ FailedGroups' = FailedGroups
  BY <1>1, <1>3, <1>4, <1>5, JobMoveKeeps
<1>7. HalfWritten' /\ WholeLines'
  BY <1>1, <1>3, <1>6, JobLeavesHalves
<1>8. Exclusive'
  <2>1. j # 0 /\ mu # 0 /\ \A i \in Jobs : mu # i
    BY <1>1, JobFacts
  <2>2. Exclusive
    BY DEF IInv
  <2>3. loop \notin Writing /\ \A i \in Jobs : jobs[i].at \notin Writing
    BY <2>1, <2>2 DEF Exclusive
  <2>4. loop' = loop
    BY <1>1 DEF Quiet
  <2> QED
    BY <1>1, <1>3, <1>6, <2>1, <2>3, <2>4 DEF Exclusive, Writing
<1>9. FromJobs' /\ Sent' = Sent /\ Untold' = Untold
  BY <1>1, <1>3, <1>4, <1>6, JobDoesNotCount
<1>10. Counted'
  BY <1>1, <1>4, <1>6, <1>9 DEF IInv, Counted
<1> QED
  BY <1>6, <1>7, <1>8, <1>9, <1>10 DEF IInv

\* A job that finds output broken gives up the mutex.
LEMMA JobGivesUp ==
  ASSUME IInv, NEW j \in Jobs, jobs[j].at \in Writing, broken, To(j, "unsent"), mu' = None,
         Quiet, UNCHANGED <<stdout, ok, failed>>
  PROVE  IInv'
<1>2. "unsent" \in Stages
  BY DEF Stages, Holding
<1>3. PICK r \in JobRecords :
         /\ r.at = "unsent" /\ r.scan = jobs[j].scan /\ r.left = jobs[j].left
         /\ r.verdicts = jobs[j].verdicts /\ r.errors = jobs[j].errors
         /\ jobs' = [jobs EXCEPT ![j] = r]
  BY <1>2, JobMoves
<1>4. Answers' = Answers /\ Notified' = Notified
  BY SameOutput
<1>5. /\ jobs[j].at \notin Done /\ jobs[j].at \notin {"sent", "done"}
      /\ stdout' \in Seq(Halves) /\ mu' \in {None, 0} \cup Jobs
      /\ ok' \in Nat /\ failed' \in Nat /\ \A n \in Answers : stdout'[n] = stdout[n]
  BY JobFacts DEF Done, Writing
<1>6. /\ TypeOK' /\ Answering' /\ Matching' /\ AboutItsScan' /\ Waiting'
      /\ Jobs' = Jobs
      /\ \A i \in Jobs : jobs'[i] = IF i = j THEN r ELSE jobs[i]
      /\ FailedGroups' = FailedGroups
  BY <1>3, <1>4, <1>5, JobMoveKeeps
<1>7. /\ mu = j /\ mu # 0 /\ mu' # 0 /\ \A i \in Jobs : mu' # i
      /\ loop' \notin Writing
      /\ \A i \in Jobs : jobs'[i].at \notin Writing
  <2>1. mu = j /\ j # 0
    BY JobFacts DEF IInv, Exclusive
  <2>2. loop' \notin Writing /\ \A i \in Jobs \ {j} : jobs[i].at \notin Writing
    BY <2>1 DEF IInv, Exclusive, Quiet
  <2>3. None # 0 /\ None \notin Jobs
    BY JobFacts
  <2> QED
    BY <1>3, <1>6, <2>1, <2>2, <2>3 DEF Writing
<1>8. Exclusive'
  BY <1>6, <1>7 DEF Exclusive
<1>9. HalfWritten'
  BY <1>6, <1>7 DEF HalfWritten, Writing, Quiet, client
<1>10. WholeLines'
  BY DEF IInv, WholeLines, Complete
<1>11. FromJobs' /\ Sent' = Sent /\ Untold' = Untold
  BY <1>3, <1>4, <1>5, <1>6, JobDoesNotCount
<1>12. Counted'
  BY <1>4, <1>6, <1>11 DEF IInv, Counted
<1> QED
  BY <1>6, <1>8, <1>9, <1>10, <1>11, <1>12 DEF IInv

\* Only one writes at a time, so that the output of one that writes is its own.
LEMMA JobWritesAlone ==
  ASSUME IInv, NEW j \in Jobs, jobs[j].at \in Writing
  PROVE  /\ mu = j /\ loop \notin Writing
         /\ \A i \in Jobs \ {j} : jobs[i].at \notin Writing
<1>1. Exclusive
  BY DEF IInv
<1>2. mu = j /\ j # 0
  BY <1>1, JobFacts DEF Exclusive
<1> QED
  BY <1>1, <1>2 DEF Exclusive

\* A notification, as a message.
LEMMA NotificationIsMessage ==
  ASSUME IInv, NEW j \in Jobs, NEW part \in {1, 2}
  PROVE  /\ Notification(j) \in Notifications /\ Notification(j) \notin Replies
         /\ Half(Notification(j), part) \in Halves
         /\ Half(Notification(j), part).part = part
         /\ Half(Notification(j), part).message = Notification(j)
<1>1. jobs[j].verdicts \in SUBSET AllVerdicts /\ j \in Nat
  BY JobFacts DEF JobRecords
<1>2. Notification(j) \in Notifications
  BY <1>1 DEF Notification, Notifications
<1>3. Notification(j) \notin Replies
  BY <1>2, MessageKinds
<1> QED
  BY <1>2, <1>3 DEF Half, Halves

\* A job writes the first half of its notification, after whole lines only.
LEMMA JobWritesHalf ==
  ASSUME IInv, NEW j \in Jobs, JobWrites(j), ~broken
  PROVE  IInv'
<1> DEFINE h == Half(Notification(j), 1)
<1>1. /\ jobs[j].at = "first half" /\ stdout' = Append(stdout, h)
      /\ To(j, "second half") /\ mu' = mu
      /\ Quiet /\ UNCHANGED <<ok, failed>>
  BY DEF JobWrites, Put
<1>2. /\ h \in Halves /\ h.part = 1 /\ h.message = Notification(j)
  BY NotificationIsMessage
<1> HIDE DEF h
<1>3. "second half" \in Stages
  BY DEF Stages, Holding
<1>4. PICK r \in JobRecords :
         /\ r.at = "second half" /\ r.scan = jobs[j].scan /\ r.left = jobs[j].left
         /\ r.verdicts = jobs[j].verdicts /\ r.errors = jobs[j].errors
         /\ jobs' = [jobs EXCEPT ![j] = r]
  BY <1>1, <1>3, JobMoves
<1>5. /\ stdout' \in Seq(Halves)
      /\ Len(stdout') = Len(stdout) + 1
      /\ \A n \in 1..Len(stdout) : stdout'[n] = stdout[n]
      /\ stdout'[Len(stdout) + 1] = h
      /\ Answers' = Answers /\ Notified' = Notified
  <2>1. TypeOK
    BY DEF IInv
  <2>2. /\ stdout' \in Seq(Halves)
        /\ Len(stdout') = Len(stdout) + 1
        /\ \A n \in 1..Len(stdout) : stdout'[n] = stdout[n]
        /\ stdout'[Len(stdout) + 1] = h
        /\ Answers' = IF h.part = 2 /\ h.message \in Replies
                      THEN Answers \cup {Len(stdout) + 1} ELSE Answers
        /\ Notified' = IF h.part = 2 /\ h.message \in Notifications
                       THEN Notified \cup {Len(stdout) + 1} ELSE Notified
    BY <1>1, <1>2, <2>1, Appended
  <2>3. h.part # 2
    BY <1>2
  <2> QED
    BY <2>2, <2>3
<1>6. /\ Len(stdout) \in Nat /\ Answers \subseteq 1..Len(stdout) /\ Notified \subseteq 1..Len(stdout)
  BY Numbers DEF IInv
<1>7. /\ jobs[j].at \notin Done /\ mu' \in {None, 0} \cup Jobs
      /\ ok' \in Nat /\ failed' \in Nat /\ \A n \in Answers : stdout'[n] = stdout[n]
  BY <1>1, <1>5, <1>6, JobFacts DEF Done
<1>8. /\ TypeOK' /\ Answering' /\ Matching' /\ AboutItsScan' /\ Waiting'
      /\ Jobs' = Jobs
      /\ \A i \in Jobs : jobs'[i] = IF i = j THEN r ELSE jobs[i]
      /\ FailedGroups' = FailedGroups
  BY <1>1, <1>4, <1>5, <1>7, JobMoveKeeps
<1>9. /\ mu = j /\ loop \notin Writing /\ loop' = loop
      /\ \A i \in Jobs \ {j} : jobs[i].at \notin Writing
  BY <1>1, JobWritesAlone DEF Writing, Quiet
<1>10. Len(stdout) % 2 = 0
  BY <1>1, <1>9 DEF IInv, HalfWritten, Writing
<1>11. WholeLines'
  BY <1>1, <1>2, <1>10, LinesStayWhole DEF IInv
<1>12. Exclusive'
  <2>1. j # 0
    BY JobFacts
  <2>2. mu' = j /\ loop' \notin Writing /\ \A i \in Jobs : jobs'[i].at \in Writing <=> i = j
    BY <1>1, <1>4, <1>8, <1>9 DEF Writing
  <2> QED
    BY <1>8, <2>1, <2>2 DEF Exclusive
<1>13. HalfWritten'
  <2>1. Len(stdout') % 2 = 1 /\ stdout'[Len(stdout')] = h
    BY <1>5, <1>6, <1>10, Parity
  <2>2. jobs'[j].at = "second half" /\ jobs'[j].verdicts = jobs[j].verdicts
    BY <1>4, <1>8
  <2>3. h = [message |-> [job |-> j, verdicts |-> jobs'[j].verdicts], part |-> 1]
    BY <2>2 DEF h, Half, Notification
  <2>4. \A i \in Jobs : jobs'[i].at = "second half" => i = j
    BY <1>8, <1>9 DEF Writing
  <2>5. loop' # "second half"
    BY <1>9 DEF Writing
  <2> QED
    BY <1>8, <2>1, <2>2, <2>3, <2>4, <2>5 DEF HalfWritten, Half, Notification
<1>14. FromJobs' /\ Sent' = Sent /\ Untold' = Untold
  BY ZenonT(60), <1>1, <1>4, <1>5, <1>6, <1>8, JobDoesNotCount
<1>15. Counted'
  BY <1>1, <1>5, <1>8, <1>14 DEF IInv, Counted
<1> QED
  BY <1>8, <1>11, <1>12, <1>13, <1>14, <1>15 DEF IInv

\* A job writes the other half: its notification has been sent, and will be counted.
LEMMA JobSends ==
  ASSUME IInv, NEW j \in Jobs, JobSent(j), ~broken
  PROVE  IInv'
<1> DEFINE h == Half(Notification(j), 2)
           last == Len(stdout) + 1
<1>1. /\ jobs[j].at = "second half" /\ stdout' = Append(stdout, h)
      /\ To(j, "sent") /\ mu' = None
      /\ Quiet /\ UNCHANGED <<ok, failed>>
  BY DEF JobSent, Put, Unlock
<1>2. /\ h \in Halves /\ h.part = 2 /\ h.message = Notification(j)
      /\ Notification(j) \in Notifications /\ Notification(j) \notin Replies
  BY NotificationIsMessage
<1> HIDE DEF h
<1>3. "sent" \in Stages
  BY DEF Stages, Holding
<1>4. PICK r \in JobRecords :
         /\ r.at = "sent" /\ r.scan = jobs[j].scan /\ r.left = jobs[j].left
         /\ r.verdicts = jobs[j].verdicts /\ r.errors = jobs[j].errors
         /\ jobs' = [jobs EXCEPT ![j] = r]
  BY <1>1, <1>3, JobMoves
<1>5. /\ stdout' \in Seq(Halves)
      /\ Len(stdout') = Len(stdout) + 1
      /\ \A n \in 1..Len(stdout) : stdout'[n] = stdout[n]
      /\ stdout'[last] = h
      /\ Answers' = Answers /\ Notified' = Notified \cup {last}
  BY <1>1, <1>2, Appended DEF IInv
<1>6. /\ Len(stdout) \in Nat /\ Answers \subseteq 1..Len(stdout) /\ Notified \subseteq 1..Len(stdout)
      /\ IsFiniteSet(Notified) /\ IsFiniteSet(Sent) /\ Cardinality(Sent) \in Nat
      /\ Cardinality(Notified) \in Nat /\ last \notin Notified
  BY Numbers DEF IInv
<1>7. /\ jobs[j].at \notin Done /\ mu' \in {None, 0} \cup Jobs
      /\ ok' \in Nat /\ failed' \in Nat /\ \A n \in Answers : stdout'[n] = stdout[n]
  BY <1>1, <1>5, <1>6, JobFacts DEF Done
<1>8. /\ TypeOK' /\ Answering' /\ Matching' /\ AboutItsScan' /\ Waiting'
      /\ Jobs' = Jobs
      /\ \A i \in Jobs : jobs'[i] = IF i = j THEN r ELSE jobs[i]
      /\ FailedGroups' = FailedGroups
  BY <1>1, <1>4, <1>5, <1>7, JobMoveKeeps
<1>9. /\ mu = j /\ loop \notin Writing /\ loop' = loop
      /\ \A i \in Jobs \ {j} : jobs[i].at \notin Writing
  BY <1>1, JobWritesAlone DEF Writing, Quiet
<1>10. Len(stdout) % 2 = 1 /\ stdout[Len(stdout)].message = Notification(j)
  <2>1. HalfWritten
    BY DEF IInv
  <2>2. Len(stdout) % 2 = 1 /\ stdout[Len(stdout)] = Half(Notification(j), 1)
    BY <1>1, <2>1 DEF HalfWritten
  <2> QED
    BY <2>2 DEF Half
<1>11. WholeLines'
  BY <1>1, <1>2, <1>10, LinesStayWhole DEF IInv
<1>12. loop' \notin Writing /\ \A i \in Jobs : jobs'[i].at \notin Writing
  BY <1>4, <1>8, <1>9 DEF Writing
<1>13. Exclusive'
  <2>1. mu' # 0 /\ \A i \in Jobs : mu' # i
    BY <1>1, JobFacts
  <2> QED
    BY <1>8, <1>12, <2>1 DEF Exclusive
<1>14. HalfWritten'
  <2>1. Len(stdout') % 2 = 0
    BY <1>5, <1>6, <1>10, Parity
  <2> QED
    BY <1>8, <1>12, <2>1 DEF HalfWritten, Writing
<1>15. Told' = Told \cup {j}
  <2>1. \A n \in Notified : stdout'[n] = stdout[n]
    BY <1>5, <1>6
  <2>2. stdout'[last].message.job = j
    BY <1>2, <1>5 DEF Notification
  <2> QED
    BY <1>5, <2>1, <2>2 DEF Told
<1>16. Sent' = Sent \cup {j} /\ j \notin Sent /\ Untold' = Untold
  BY <1>1, <1>4, <1>8, <1>15 DEF Sent, Untold
<1>17. FromJobs'
  <2>1. ASSUME NEW n \in Notified
        PROVE  /\ stdout[n].message.job \in Jobs
               /\ jobs'[stdout[n].message.job].at \in {"sent", "done"}
               /\ stdout[n].message = [job |-> stdout[n].message.job,
                                       verdicts |-> jobs'[stdout[n].message.job].verdicts]
    <3>1. /\ stdout[n].message.job \in Jobs
          /\ jobs[stdout[n].message.job].at \in {"sent", "done"}
          /\ stdout[n].message = [job |-> stdout[n].message.job,
                                  verdicts |-> jobs[stdout[n].message.job].verdicts]
      BY DEF IInv, FromJobs, Notification
    <3>2. jobs'[stdout[n].message.job] = jobs[stdout[n].message.job]
      BY <1>1, <1>8, <3>1
    <3> QED
      BY <3>1, <3>2
  <2>2. /\ stdout'[last].message.job = j /\ jobs'[j].at = "sent"
        /\ stdout'[last].message = [job |-> j, verdicts |-> jobs'[j].verdicts]
    BY <1>2, <1>4, <1>5, <1>8 DEF Notification
  <2>3. \A n \in Notified' :
           /\ stdout'[n].message.job \in Jobs'
           /\ jobs'[stdout'[n].message.job].at \in {"sent", "done"}
           /\ stdout'[n].message = [job |-> stdout'[n].message.job,
                                    verdicts |-> jobs'[stdout'[n].message.job].verdicts]
    BY <1>5, <1>6, <1>8, <2>1, <2>2
  <2>4. \A i \in Jobs' : jobs'[i].at = "sent" => i \in Told'
    BY <1>8, <1>15 DEF IInv, FromJobs
  <2> QED
    BY <2>3, <2>4 DEF FromJobs, Notification
<1>18. /\ Cardinality(Sent') = Cardinality(Sent) + 1
       /\ Cardinality(Notified') = Cardinality(Notified) + 1
  BY <1>5, <1>6, <1>16, FS_AddElement
<1>19. Counted'
  <2>1. ok \in Nat
    BY JobFacts
  <2>2. Counted
    BY DEF IInv
  <2>3. ok + Cardinality(Sent') = Cardinality(Notified')
    BY <1>6, <1>18, <2>1, <2>2 DEF Counted
  <2> QED
    BY <1>1, <1>8, <1>16, <2>2, <2>3 DEF Counted
<1> QED
  BY <1>8, <1>11, <1>13, <1>14, <1>17, <1>19 DEF IInv

\* A job that ends is counted for what became of its notification.
LEMMA JobCounts ==
  ASSUME IInv, NEW j \in Jobs, Count(j)
  PROVE  IInv'
<1>1. /\ jobs[j].at \in {"sent", "unsent"} /\ To(j, "done")
      /\ jobs[j].at = "sent" => ok' = ok + 1 /\ failed' = failed
      /\ jobs[j].at = "unsent" => ok' = ok /\ failed' = failed + 1
      /\ Quiet /\ UNCHANGED <<mu, stdout>>
  BY DEF Count
<1>2. "done" \in Stages
  BY DEF Stages, Done
<1>3. PICK r \in JobRecords :
         /\ r.at = "done" /\ r.scan = jobs[j].scan /\ r.left = jobs[j].left
         /\ r.verdicts = jobs[j].verdicts /\ r.errors = jobs[j].errors
         /\ jobs' = [jobs EXCEPT ![j] = r]
  BY <1>1, <1>2, JobMoves
<1>4. Answers' = Answers /\ Notified' = Notified
  BY <1>1, SameOutput
<1>5. /\ jobs[j].at \notin Done
      /\ stdout' \in Seq(Halves) /\ mu' \in {None, 0} \cup Jobs
      /\ ok' \in Nat /\ failed' \in Nat /\ \A n \in Answers : stdout'[n] = stdout[n]
  <2>1. ok \in Nat /\ failed \in Nat /\ stdout \in Seq(Halves) /\ mu \in {None, 0} \cup Jobs
    BY JobFacts
  <2> QED
    BY <1>1, <2>1 DEF Done
<1>6. /\ TypeOK' /\ Answering' /\ Matching' /\ AboutItsScan' /\ Waiting'
      /\ Jobs' = Jobs
      /\ \A i \in Jobs : jobs'[i] = IF i = j THEN r ELSE jobs[i]
      /\ FailedGroups' = FailedGroups
  BY <1>1, <1>3, <1>4, <1>5, JobMoveKeeps
<1>7. Exclusive' /\ HalfWritten' /\ WholeLines'
  <2>1. jobs[j].at \notin Writing /\ r.at \notin Writing
    BY <1>1, <1>3 DEF Writing
  <2> QED
    BY <1>1, <1>6, <2>1, JobDoesNotWrite
<1>8. Told' = Told
  BY <1>1, <1>4 DEF Told
<1>9. FromJobs'
  <2>1. ASSUME NEW n \in Notified
        PROVE  /\ stdout[n].message.job \in Jobs
               /\ jobs'[stdout[n].message.job].at \in {"sent", "done"}
               /\ stdout[n].message = [job |-> stdout[n].message.job,
                                       verdicts |-> jobs'[stdout[n].message.job].verdicts]
    <3>1. /\ stdout[n].message.job \in Jobs
          /\ jobs[stdout[n].message.job].at \in {"sent", "done"}
          /\ stdout[n].message = [job |-> stdout[n].message.job,
                                  verdicts |-> jobs[stdout[n].message.job].verdicts]
      BY DEF IInv, FromJobs, Notification
    <3>2. /\ jobs'[stdout[n].message.job].at \in {"sent", "done"}
          /\ jobs'[stdout[n].message.job].verdicts = jobs[stdout[n].message.job].verdicts
      BY <1>3, <1>6, <3>1
    <3> QED
      BY <3>1, <3>2
  <2>2. \A n \in Notified' :
           /\ stdout'[n].message.job \in Jobs'
           /\ jobs'[stdout'[n].message.job].at \in {"sent", "done"}
           /\ stdout'[n].message = [job |-> stdout'[n].message.job,
                                    verdicts |-> jobs'[stdout'[n].message.job].verdicts]
    BY <1>1, <1>4, <1>6, <2>1
  <2>3. \A i \in Jobs' : jobs'[i].at = "sent" => i \in Told'
    BY <1>3, <1>6, <1>8 DEF IInv, FromJobs
  <2> QED
    BY <2>2, <2>3 DEF FromJobs, Notification
<1>10. /\ Counted /\ FromJobs
       /\ IsFiniteSet(Sent) /\ IsFiniteSet(Untold) /\ ok \in Nat /\ failed \in Nat
       /\ Cardinality(Sent) \in Nat /\ Cardinality(Untold) \in Nat
       /\ Cardinality(FailedGroups) \in Nat
  BY Numbers, JobFacts, FS_CardinalityType DEF IInv, Counted
<1>11. CASE jobs[j].at = "sent"
  <2>1. j \in Told
    BY <1>10, <1>11 DEF FromJobs
  <2>2. j \in Sent /\ Sent' = Sent \ {j} /\ Untold' = Untold
    BY <1>3, <1>6, <1>8, <1>11, <2>1 DEF Sent, Untold
  <2>3. Cardinality(Sent') = Cardinality(Sent) - 1
    BY <1>10, <2>2, FS_RemoveElement
  <2>4. Counted'
    BY <1>1, <1>4, <1>6, <1>10, <1>11, <2>2, <2>3 DEF Counted
  <2> QED
    BY <1>6, <1>7, <1>9, <2>4 DEF IInv
<1>12. CASE jobs[j].at = "unsent"
  <2>1. j \notin Told
    BY <1>10, <1>12 DEF FromJobs, Told
  <2>2. Sent' = Sent /\ j \notin Untold /\ Untold' = Untold \cup {j}
    BY <1>3, <1>6, <1>8, <1>12, <2>1 DEF Sent, Untold
  <2>3. Cardinality(Untold') = Cardinality(Untold) + 1
    BY <1>10, <2>2, FS_AddElement
  <2>4. Counted'
    BY <1>1, <1>4, <1>6, <1>10, <1>12, <2>2, <2>3 DEF Counted
  <2> QED
    BY <1>6, <1>7, <1>9, <2>4 DEF IInv
<1> QED
  BY <1>1, <1>11, <1>12

\* All steps of a job.
LEMMA JobStepPreserves ==
  ASSUME IInv, NEW j \in Jobs, JobStep(j)
  PROVE  IInv'
<1>1. CASE Acquire(j) \/ Drop(j) \/ Emit(j)
  BY <1>1, JobAdvances
<1>2. CASE JobLocks(j)
  BY <1>2, JobTakesMutex
<1>3. CASE JobWrites(j)
  <2>1. CASE broken
    BY <1>3, <2>1, JobGivesUp DEF JobWrites, Put, Unlock, Writing
  <2>2. CASE ~broken
    BY <1>3, <2>2, JobWritesHalf
  <2> QED
    BY <2>1, <2>2
<1>4. CASE JobSent(j)
  <2>1. CASE broken
    BY <1>4, <2>1, JobGivesUp DEF JobSent, Put, Unlock, Writing
  <2>2. CASE ~broken
    BY <1>4, <2>2, JobSends
  <2> QED
    BY <2>1, <2>2
<1>5. CASE Count(j)
  BY <1>5, JobCounts
<1>6. CASE VerifyGroupFails(j)
  BY <1>6, JobVerifiesNot
<1>7. ASSUME NEW rows \in Rows, VerifyGroup(j, rows)
      PROVE  IInv'
  BY <1>7, JobVerifies
<1> QED
  BY <1>1, <1>2, <1>3, <1>4, <1>5, <1>6, <1>7 DEF JobStep

-----------------------------------------------------------------------------
(* The steps of the environment, of the loop, and of main.                 *)

\* What is about output and jobs only.
LEMMA OutputAndJobsSame ==
  ASSUME IInv, UNCHANGED <<stdout, jobs, ok, failed>>
  PROVE  /\ WholeLines' /\ AboutItsScan' /\ FromJobs' /\ Counted'
         /\ Answers' = Answers /\ Jobs' = Jobs
<1>1. Answers' = Answers /\ Notified' = Notified /\ Jobs' = Jobs
  BY SameOutput DEF Jobs
<1>2. Told' = Told
  BY <1>1 DEF Told
<1>3. Sent' = Sent /\ Untold' = Untold /\ FailedGroups' = FailedGroups
  BY <1>1, <1>2 DEF Sent, Untold, FailedGroups
<1>4. WholeLines'
  BY DEF IInv, WholeLines, Complete
<1>5. AboutItsScan'
  BY <1>1 DEF IInv, AboutItsScan
<1>6. FromJobs'
  BY <1>1, <1>2 DEF IInv, FromJobs, Notification
<1>7. Counted'
  BY <1>1, <1>3 DEF IInv, Counted
<1> QED
  BY <1>1, <1>4, <1>5, <1>6, <1>7

\* Who writes, and what is half written, if the loop goes on without writing.
LEMMA LoopDoesNotWrite ==
  ASSUME IInv, UNCHANGED <<stdout, jobs, mu, broken>>,
         loop \notin Writing, loop' \notin Writing
  PROVE  Exclusive' /\ HalfWritten'
<1>1. Jobs' = Jobs
  BY DEF Jobs
<1>2. Exclusive'
  BY <1>1 DEF IInv, Exclusive
<1>3. loop # "second half" /\ loop' # "second half"
  BY DEF Writing
<1>4. HalfWritten'
  BY <1>1, <1>3 DEF IInv, HalfWritten, Notification, Half
<1> QED
  BY <1>2, <1>4

\* Lines that ask for a response stay, and their ranks, if no line has been read.
LEMMA SameAsked ==
  ASSUME IInv, UNCHANGED <<lines, next, stdout>>
  PROVE  Asked' = Asked /\ Matching'
<1>1. Asked' = Asked /\ Answers' = Answers
  BY SameOutput DEF Asked
<1> QED
  BY <1>1 DEF IInv, Matching

\* The client writes a line.
LEMMA ClientWrites ==
  ASSUME IInv, NEW line \in Lines, Write(line)
  PROVE  IInv'
<1>1. /\ lines' = Append(lines, line) /\ Len(lines) < MaxLines
      /\ UNCHANGED <<next, eof, stopped, loop, reply, mu, stdout, broken, jobs, ok, failed, main>>
  BY DEF Write
<1>2. /\ lines \in Seq(Lines) /\ Len(lines) \in Nat /\ next \in Nat \ {0} /\ next <= Len(lines) + 1
      /\ Asked \subseteq 1..(next - 1)
  BY Numbers DEF IInv, TypeOK
<1>3. /\ lines' \in Seq(Lines) /\ Len(lines') = Len(lines) + 1
      /\ \A n \in 1..Len(lines) : lines'[n] = lines[n]
  BY <1>1, <1>2, AppendProperties
<1>4. \A n \in 1..(next - 1) : lines'[n] = lines[n]
  BY <1>2, <1>3
<1>5. /\ WholeLines' /\ AboutItsScan' /\ FromJobs' /\ Counted'
      /\ Answers' = Answers /\ Jobs' = Jobs
  BY <1>1, OutputAndJobsSame
<1>6. Asked' = Asked
  BY <1>1, <1>4 DEF Asked
<1>7. TypeOK'
  <2>1. next' \in 1..Len(lines')+1 /\ Len(lines') <= MaxLines
    BY <1>1, <1>2, <1>3, StdioAssumption
  <2> QED
    BY <1>1, <1>3, <1>5, <2>1 DEF IInv, TypeOK
<1>8. Answering'
  <2>1. loop \in {"handle", "lock"} \cup Writing => lines'[next-1] = lines[next-1]
    BY <1>2, <1>4 DEF IInv, Answering
  <2> QED
    BY <1>1, <1>5, <1>6, <2>1 DEF IInv, Answering
<1>9. Matching'
  BY <1>1, <1>2, <1>4, <1>5, <1>6 DEF IInv, Matching
<1>10. Exclusive' /\ HalfWritten' /\ Waiting'
  BY <1>1, <1>5 DEF IInv, Exclusive, HalfWritten, Notification, Half, Waiting
<1> QED
  BY <1>5, <1>7, <1>8, <1>9, <1>10 DEF IInv

\* The input ends, a signal comes, or output breaks; or main goes on.
LEMMA OthersKeep ==
  ASSUME IInv, UNCHANGED <<lines, next, loop, reply, mu, stdout, jobs, ok, failed>>,
         eof' \in BOOLEAN, stopped' \in BOOLEAN, broken' \in BOOLEAN, broken => broken',
         main' \in {"serving", "draining", "cancelled", "ended"}, Waiting'
  PROVE  IInv'
<1>1. /\ WholeLines' /\ AboutItsScan' /\ FromJobs' /\ Counted'
      /\ Answers' = Answers /\ Jobs' = Jobs
  BY OutputAndJobsSame
<1>2. Asked' = Asked /\ Matching'
  BY SameAsked
<1>3. TypeOK'
  BY <1>1 DEF IInv, TypeOK
<1>4. Answering'
  BY <1>1, <1>2 DEF IInv, Answering
<1>5. Exclusive'
  BY <1>1 DEF IInv, Exclusive
<1>6. HalfWritten'
  BY <1>1 DEF IInv, HalfWritten, Notification, Half
<1> QED
  BY <1>1, <1>2, <1>3, <1>4, <1>5, <1>6 DEF IInv

\* Closing the input, a signal, and output that breaks change nothing that counts.
LEMMA EnvironmentPreserves ==
  ASSUME IInv, CloseInput \/ Signal \/ Break
  PROVE  IInv'
<1>1. /\ UNCHANGED <<lines, next, loop, reply, mu, stdout, jobs, ok, failed, main>>
      /\ eof' \in BOOLEAN /\ stopped' \in BOOLEAN /\ broken' \in BOOLEAN
      /\ broken => broken'
  <2>1. eof \in BOOLEAN /\ stopped \in BOOLEAN /\ broken \in BOOLEAN
    BY DEF IInv, TypeOK
  <2> QED
    BY <2>1 DEF CloseInput, Signal, Break
<1>2. main' \in {"serving", "draining", "cancelled", "ended"} /\ Waiting'
  BY <1>1 DEF IInv, TypeOK, Waiting, Jobs
<1> QED
  BY <1>1, <1>2, OthersKeep

\* Main goes on only after those that it waits for.
LEMMA MainPreserves ==
  ASSUME IInv, Return \/ DrainTimeout \/ End
  PROVE  IInv'
<1>1. /\ UNCHANGED <<lines, next, loop, reply, mu, stdout, jobs, ok, failed, eof, stopped, broken>>
      /\ main' \in {"serving", "draining", "cancelled", "ended"}
  BY DEF Return, DrainTimeout, End, Ending, client
<1>2. eof \in BOOLEAN /\ stopped \in BOOLEAN /\ broken \in BOOLEAN
  BY DEF IInv, TypeOK
<1>3. Waiting'
  BY <1>1 DEF IInv, Waiting, Jobs, Return, DrainTimeout, End, Ending
<1> QED
  BY <1>1, <1>2, <1>3, OthersKeep

\* A line that asks for a response has been read.
LEMMA LineAsks ==
  ASSUME IInv, UNCHANGED <<lines, stdout>>, next' = next + 1, lines[next].kind # "blank",
         Cardinality(Asked) = Cardinality(Answers)
  PROVE  /\ Matching'
         /\ Cardinality(Asked') = Cardinality(Answers') + 1
         /\ next \in Asked'
<1>1. /\ next \in Nat /\ next - 1 + 1 = next /\ Asked \subseteq 1..(next - 1)
      /\ Asked \subseteq Nat /\ IsFiniteSet(Asked) /\ next \in Nat \ {0}
      /\ IsFiniteSet(Answers) /\ Answers \subseteq Nat /\ Cardinality(Answers) \in Nat
  BY Numbers DEF IInv
<1>2. Answers' = Answers
  BY SameOutput
<1>3. Asked' = Asked \cup {next}
  BY <1>1 DEF Asked
<1>4. \A m \in Asked : m < next
  BY <1>1
<1>5. /\ Cardinality(Asked \cup {next}) = Cardinality(Asked) + 1
      /\ Rank(Asked \cup {next}, next) = Cardinality(Asked) + 1
      /\ \A n \in Asked : Rank(Asked \cup {next}, n) = Rank(Asked, n)
  BY <1>1, <1>4, RankAdded
<1>6. \A n \in Answers : Rank(Answers, n) # Cardinality(Asked) + 1
  <2>1. TAKE n \in Answers
  <2>2. Rank(Answers, n) \in Nat /\ Rank(Answers, n) <= Cardinality(Answers)
    BY <1>1, RankBound
  <2> QED
    BY <1>1, <2>2
<1>7. \A i \in Asked \cup {next}, n \in Answers :
         Rank(Asked \cup {next}, i) = Rank(Answers, n) => stdout[n].message.id = IdOf(lines[i])
  BY <1>5, <1>6 DEF IInv, Matching
<1>8. Matching'
  BY <1>2, <1>3, <1>7 DEF Matching
<1> QED
  BY <1>2, <1>3, <1>5, <1>8

\* Only a message that is a request can be parsed.
LEMMA ParsedKinds ==
  ASSUME NEW line \in Lines, line.kind \notin {"blank", "long"}
  PROVE  /\ ParseError(line) = None <=> line.kind = "request"
         /\ ParseError(line) # None =>
               /\ Response(None, ParseError(line)) \in Replies
               /\ Response(None, ParseError(line)).id = IdOf(line)
<1>1. line.kind \in {"garbage", "invalid", "request"}
  BY LinesAssumption
<1>2. None # "parse error" /\ None # "invalid request"
  BY NoneAssumption DEF Statuses
<1>3. CASE line.kind = "request"
  BY <1>3 DEF ParseError
<1>4. CASE line.kind = "garbage"
  BY <1>2, <1>4 DEF ParseError, Response, Replies, Statuses, IdOf
<1>5. CASE line.kind = "invalid"
  BY <1>2, <1>5 DEF ParseError, Response, Replies, Statuses, IdOf
<1> QED
  BY <1>1, <1>3, <1>4, <1>5

\* A response is not None.
LEMMA RepliesAreSome ==
  ASSUME NEW response \in Replies
  PROVE  response # None
BY NoneAssumption

\* The loop reads a line.
LEMMA LoopReads ==
  ASSUME IInv, Scan
  PROVE  IInv'
<1> DEFINE line == lines[next]
<1>1. /\ loop = "scan" /\ next <= Len(lines)
      /\ UNCHANGED <<lines, eof, stopped, broken, mu, stdout, jobs, ok, failed, main>>
  BY DEF Scan, client
<1>2. /\ next \in Nat \ {0} /\ next \in 1..Len(lines) /\ lines \in Seq(Lines)
      /\ Len(lines) \in Nat /\ line \in Lines
      /\ Cardinality(Asked) \in Nat /\ Cardinality(Answers) \in Nat
  <2>1. lines \in Seq(Lines) /\ next \in Nat \ {0} /\ Len(lines) \in Nat
    BY Numbers DEF IInv, TypeOK
  <2>2. next \in 1..Len(lines)
    BY <1>1, <2>1
  <2>3. line \in Lines
    BY <2>1, <2>2, ElementOfSeq
  <2> QED
    BY <2>1, <2>2, <2>3, Numbers DEF IInv
<1>3. Cardinality(Asked) = Cardinality(Answers)
  BY <1>1 DEF IInv, Answering
<1>4. /\ WholeLines' /\ AboutItsScan' /\ FromJobs' /\ Counted'
      /\ Answers' = Answers /\ Jobs' = Jobs
  BY <1>1, OutputAndJobsSame
<1>5. main = "serving" /\ Waiting'
  BY <1>1, <1>4 DEF IInv, Waiting, TypeOK
<1>6. SUFFICES /\ next' \in {next, next + 1}
               /\ loop' \in {"scan", "handle", "lock", "returned"}
               /\ reply' \in Replies \cup {None}
               /\ Answering' /\ Matching'
  <2>1. next' \in 1..Len(lines')+1
    BY <1>1, <1>2, <1>6
  <2>2. TypeOK'
    BY <1>1, <1>4, <1>6, <2>1 DEF IInv, TypeOK
  <2>3. loop \notin Writing /\ loop' \notin Writing
    BY <1>1, <1>6 DEF Writing
  <2>4. Exclusive' /\ HalfWritten'
    BY <1>1, <2>3, LoopDoesNotWrite
  <2> QED
    BY <1>4, <1>5, <1>6, <2>2, <2>4 DEF IInv
<1>7. reply \in Replies \cup {None}
  BY DEF IInv, TypeOK
<1>8. CASE line.kind = "long"
  <2>1. loop' = "returned" /\ next' = next /\ reply' = reply
    BY <1>8 DEF Scan
  <2>2. Asked' = Asked /\ Matching'
    BY <1>1, <2>1, SameAsked
  <2>3. Answering'
    BY <1>3, <1>4, <2>1, <2>2 DEF Answering, Writing
  <2> QED
    BY <1>7, <2>1, <2>2, <2>3
<1>9. CASE line.kind = "blank"
  <2>1. next' = next + 1 /\ reply' = reply /\ loop' \in {"scan", "returned"}
    BY <1>1, <1>9 DEF Scan
  <2>2. Asked' = Asked
    BY <1>1, <1>2, <1>9, <2>1 DEF Asked
  <2>3. Matching'
    BY <1>1, <1>4, <2>2 DEF IInv, Matching
  <2>4. Answering'
    BY <1>3, <1>4, <2>1, <2>2 DEF Answering, Writing
  <2> QED
    BY <1>7, <2>1, <2>3, <2>4
<1>10. CASE line.kind \notin {"long", "blank"}
  <2>1. next' = next + 1
    BY <1>10 DEF Scan
  <2>2. Matching' /\ Cardinality(Asked') = Cardinality(Answers') + 1 /\ next' - 1 \in Asked'
    <3>1. next' - 1 = next
      BY <1>2, <2>1
    <3> QED
      BY <1>1, <1>3, <1>10, <2>1, <3>1, LineAsks
  <2>3. lines'[next'-1] = line
    BY <1>1, <1>2, <2>1
  <2>4. CASE stopped
    <3>1. loop' = "returned" /\ reply' = reply
      BY <1>10, <2>4 DEF Scan
    <3>2. Answering'
      BY <2>2, <3>1 DEF Answering, Writing
    <3> QED
      BY <1>7, <2>1, <2>2, <3>1, <3>2
  <2>5. CASE ~stopped /\ ParseError(line) # None
    <3> DEFINE response == Response(None, ParseError(line))
    <3>1. Reply(response)
      BY <1>10, <2>5 DEF Scan
    <3>2. response \in Replies /\ response # None /\ response.id = IdOf(line)
      BY <1>2, <1>10, <2>5, ParsedKinds, RepliesAreSome
    <3> HIDE DEF response
    <3>3. loop' = "lock" /\ reply' = response
      BY <3>1, <3>2 DEF Reply
    <3>4. Answering'
      BY <2>2, <2>3, <3>2, <3>3 DEF Answering, Writing
    <3> QED
      BY <2>1, <2>2, <3>2, <3>3, <3>4
  <2>6. CASE ~stopped /\ ParseError(line) = None
    <3>1. loop' = "handle" /\ reply' = reply
      BY <1>10, <2>6 DEF Scan
    <3>2. line.kind = "request"
      BY <1>2, <1>10, <2>6, ParsedKinds
    <3>3. Answering'
      BY <2>2, <2>3, <3>1, <3>2 DEF Answering, Writing
    <3> QED
      BY <1>7, <2>1, <2>2, <3>1, <3>3
  <2> QED
    BY <2>4, <2>5, <2>6
<1> QED
  BY <1>8, <1>9, <1>10

\* The loop ends with the input.
LEMMA LoopEnds ==
  ASSUME IInv, ScanEnds
  PROVE  IInv'
<1>1. /\ loop = "scan" /\ loop' = "returned"
      /\ UNCHANGED <<lines, eof, stopped, broken, next, reply, mu, stdout, jobs, ok, failed, main>>
  BY DEF ScanEnds, client
<1>2. /\ WholeLines' /\ AboutItsScan' /\ FromJobs' /\ Counted'
      /\ Answers' = Answers /\ Jobs' = Jobs
  BY <1>1, OutputAndJobsSame
<1>3. Asked' = Asked /\ Matching'
  BY <1>1, SameAsked
<1>4. TypeOK' /\ Waiting'
  BY <1>1, <1>2 DEF IInv, TypeOK, Waiting
<1>5. Answering'
  BY <1>1, <1>2, <1>3 DEF IInv, Answering, Writing
<1>6. Exclusive' /\ HalfWritten'
  BY <1>1, LoopDoesNotWrite DEF Writing
<1> QED
  BY <1>2, <1>3, <1>4, <1>5, <1>6 DEF IInv

\* The dispatcher always makes a response, with the id of the request.
LEMMA DispatchReplies ==
  ASSUME NEW request \in Lines, request.kind = "request", NEW outcome \in Outcomes
  PROVE  /\ Dispatch(request, outcome) \in Replies
         /\ Dispatch(request, outcome).id = IdOf(request)
<1> DEFINE ends == IF request.method = "tools/call" THEN HandleToolsCall(request, outcome)
                   ELSE outcome
           status ==
             CASE request.method \notin Registered -> "method not found"
               [] request.method \in Registered /\ ends = "validation error" -> "invalid params"
               [] request.method \in Registered /\ ends \in {"error", "panic"} -> "internal error"
               [] request.method \in Registered /\ ends \in {"result", "tool error"} -> ends
<1>1. ends \in Outcomes \cup {"tool error"}
  <2> DEFINE innermost == Innermost(request, outcome)
  <2>1. \A e \in Outcomes \cup {"tool error"} : Passed(e) \in Outcomes \cup {"tool error"}
    BY DEF Passed, Outcomes
  <2>2. innermost \in Outcomes \cup {"tool error"}
    <3>1. CASE request.name \in {None, ""}
      BY <2>1, <3>1 DEF Innermost, Outcomes
    <3>2. CASE request.name \notin {None, ""} /\ request.name \notin Registered
      BY <3>2 DEF Innermost
    <3>3. CASE request.name \notin {None, ""} /\ request.name \in Registered
      BY <2>1, <3>3 DEF Innermost
    <3> QED
      BY <3>1, <3>2, <3>3
  <2>3. CASE request.method = "tools/call"
    <3>1. /\ Passed(innermost) \in Outcomes \cup {"tool error"}
          /\ Passed(Passed(innermost)) \in Outcomes \cup {"tool error"}
      BY <2>1, <2>2
    <3>2. HandleToolsCall(request, outcome) \in Outcomes \cup {"tool error"}
      BY <2>2, <3>1, Zenon DEF HandleToolsCall
    <3> QED
      BY <2>3, <3>2
  <2>4. CASE request.method # "tools/call"
    BY <2>4
  <2> QED
    BY <2>3, <2>4
<1> HIDE DEF ends
<1>2. status \in Statuses
  BY <1>1 DEF Outcomes, Statuses
<1>3. Dispatch(request, outcome) = Response(request.id, status)
  BY DEF Dispatch, ends
<1> HIDE DEF status
<1>4. IdOf(request) = request.id
  BY DEF IdOf
<1> QED
  BY <1>2, <1>3, <1>4 DEF Response, Replies

\* A verification that is started has a job of its own, behind the others.
LEMMA JobAdded ==
  ASSUME IInv, NEW r \in JobRecords, r.at = "slot", r.errors = 0,
         r.left = DOMAIN r.scan, r.verdicts = {},
         NEW k \in Nat \ {0}, Jobs' = Jobs \cup {k}, k \notin Jobs, jobs'[k] = r,
         \A i \in Jobs : jobs'[i] = jobs[i],
         UNCHANGED <<stdout, mu, broken, ok, failed>>,
         loop \notin Writing, loop' \notin Writing
  PROVE  AboutItsScan' /\ FromJobs' /\ Counted' /\ Exclusive' /\ HalfWritten'
<1>3. Jobs' = Jobs \cup {k} /\ k \notin Jobs /\ k \in Nat \ {0}
  OBVIOUS
<1>4. jobs'[k] = r /\ \A i \in Jobs : jobs'[i] = jobs[i]
  OBVIOUS
<1>5. Answers' = Answers /\ Notified' = Notified
  BY SameOutput
<1>6. Told' = Told
  BY <1>5 DEF Told
<1>7. Sent' = Sent /\ Untold' = Untold
  BY <1>3, <1>4, <1>6 DEF Sent, Untold
<1>8. FailedGroups' = FailedGroups
  <2>1. \A i \in Jobs : jobs'[i].errors = jobs[i].errors
    BY <1>4
  <2>2. jobs'[k].errors = 0
    BY <1>4
  <2>3. Failures(Jobs \cup {k}, jobs') = Failures(Jobs, jobs)
    BY <2>1, <2>2, NoNewFailures
  <2> QED
    BY <1>3, <2>3 DEF FailedGroups, Failures
<1>9. AboutItsScan'
  <2>1. AboutItsScan
    BY DEF IInv
  <2>2. ASSUME NEW i \in Jobs'
        PROVE  /\ jobs'[i].left \subseteq DOMAIN jobs'[i].scan
               /\ jobs'[i].verdicts \subseteq {Verdict(jobs'[i].scan[n]) : n \in DOMAIN jobs'[i].scan}
    <3>1. CASE i = k
      BY <1>4, <3>1
    <3>2. CASE i # k
      <4>1. i \in Jobs /\ jobs'[i] = jobs[i]
        BY <1>3, <1>4, <3>2
      <4>2. /\ jobs[i].left \subseteq DOMAIN jobs[i].scan
            /\ jobs[i].verdicts \subseteq {Verdict(jobs[i].scan[n]) : n \in DOMAIN jobs[i].scan}
        BY <2>1, <4>1 DEF AboutItsScan
      <4> QED
        BY <4>1, <4>2
    <3> QED
      BY <3>1, <3>2
  <2> QED
    BY <2>2 DEF AboutItsScan
<1>10. FromJobs'
  <2>1. \A n \in Notified :
           /\ stdout[n].message.job \in Jobs
           /\ jobs[stdout[n].message.job].at \in {"sent", "done"}
           /\ stdout[n].message = [job |-> stdout[n].message.job,
                                   verdicts |-> jobs[stdout[n].message.job].verdicts]
    BY DEF IInv, FromJobs, Notification
  <2>2. \A n \in Notified' :
           /\ stdout'[n].message.job \in Jobs'
           /\ jobs'[stdout'[n].message.job].at \in {"sent", "done"}
           /\ stdout'[n].message = [job |-> stdout'[n].message.job,
                                    verdicts |-> jobs'[stdout'[n].message.job].verdicts]
    BY <1>3, <1>4, <1>5, <2>1
  <2>3. \A i \in Jobs' : jobs'[i].at = "sent" => i \in Told'
    BY <1>3, <1>4, <1>6 DEF IInv, FromJobs
  <2> QED
    BY <2>2, <2>3 DEF FromJobs, Notification
<1>11. Counted'
  BY <1>5, <1>7, <1>8 DEF IInv, Counted
<1>12. Exclusive'
  <2>1. Exclusive /\ mu \in {None, 0} \cup Jobs
    BY DEF IInv, TypeOK
  <2>2. mu # k /\ r.at \notin Writing
    <3>1. None \notin Nat
      BY NoneAssumption
    <3>2. k \in Nat
      BY <1>3
    <3>3. None # k
      BY <3>1, <3>2, Zenon
    <3>4. k # 0 /\ k \notin Jobs
      BY <1>3
    <3>5. mu # k
      BY <2>1, <3>3, <3>4, Zenon
    <3>6. r.at \notin Writing
      BY DEF Writing
    <3> QED
      BY <3>5, <3>6
  <2> QED
    BY <1>3, <1>4, <2>1, <2>2 DEF Exclusive
<1>13. HalfWritten'
  <2>1. HalfWritten /\ loop # "second half" /\ loop' # "second half"
    BY DEF IInv, Writing
  <2>2. \A i \in Jobs' : jobs'[i].at = "second half" => i \in Jobs /\ jobs'[i] = jobs[i]
    BY <1>3, <1>4
  <2> QED
    BY <1>3, <1>4, <2>1, <2>2 DEF HalfWritten, Notification, Half
<1> QED
  BY <1>9, <1>10, <1>11, <1>12, <1>13

\* The loop has the response of the handler; that of piiguard may have started a
\* verification.
LEMMA LoopHandles ==
  ASSUME IInv, NEW outcome \in Outcomes, NEW tree \in Trees, Handle(outcome, tree)
  PROVE  IInv'
<1> DEFINE request == lines[next-1]
           response == Dispatch(request, outcome)
           scan == Scanned[tree].findings
           r == [at |-> "slot", scan |-> scan, left |-> DOMAIN scan, verdicts |-> {}, errors |-> 0]
<1>1. /\ loop = "handle" /\ Reply(response)
      /\ UNCHANGED <<lines, eof, stopped, broken, next, mu, stdout, ok, failed, main>>
      /\ jobs' = jobs \/ jobs' = Append(jobs, r)
  BY DEF Handle, client
<1>2. /\ Cardinality(Asked) = Cardinality(Answers) + 1 /\ next - 1 \in Asked
      /\ request.kind = "request"
  BY <1>1 DEF IInv, Answering
<1>3. request \in Lines
  <2>2. /\ Asked \subseteq 1..(next - 1) /\ next \in Nat /\ Len(lines) \in Nat
        /\ next <= Len(lines) + 1
    BY Numbers DEF IInv
  <2>3. lines \in Seq(Lines)
    BY DEF IInv, TypeOK
  <2>1. lines \in Seq(Lines) /\ next - 1 \in 1..Len(lines)
    BY <1>2, <2>2, <2>3
  <2> QED
    BY <2>1, ElementOfSeq
<1>4. response \in Replies /\ response # None /\ response.id = IdOf(request)
  BY <1>2, <1>3, DispatchReplies, RepliesAreSome
<1>5. loop' = "lock" /\ reply' = response
  BY <1>1, <1>4 DEF Reply
<1>6. Asked' = Asked /\ Matching' /\ Answers' = Answers
  BY <1>1, SameAsked, SameOutput
<1>7. lines'[next'-1] = request
  BY <1>1
<1> HIDE DEF response, request
<1>8. Answering'
  BY <1>2, <1>4, <1>5, <1>6, <1>7, <1>1 DEF Answering, Writing
<1>9. WholeLines'
  BY <1>1 DEF IInv, WholeLines, Complete
<1>10. main' = "serving" /\ Waiting'
  BY <1>1 DEF IInv, Waiting, TypeOK
<1>11. loop \notin Writing /\ loop' \notin Writing
  BY <1>1, <1>5 DEF Writing
<1>12. CASE jobs' = jobs
  <2>1. AboutItsScan' /\ FromJobs' /\ Counted' /\ Jobs' = Jobs
    BY <1>1, <1>12, OutputAndJobsSame
  <2>2. Exclusive' /\ HalfWritten'
    BY <1>1, <1>11, <1>12, LoopDoesNotWrite
  <2>3. TypeOK'
    BY <1>1, <1>4, <1>5, <1>12, <2>1 DEF IInv, TypeOK
  <2> QED
    BY <1>6, <1>8, <1>9, <1>10, <2>1, <2>2, <2>3 DEF IInv
<1>13. CASE jobs' = Append(jobs, r)
  <2>1. scan \in Scans
    BY DEF Scans
  <2>2. DOMAIN scan \in SUBSET UNION {DOMAIN s : s \in Scans}
    BY <2>1
  <2> HIDE DEF scan
  <2>3. /\ r \in JobRecords /\ r.at = "slot" /\ r.errors = 0
        /\ r.left = DOMAIN r.scan /\ r.verdicts = {}
    BY <2>1, <2>2 DEF JobRecords
  <2> HIDE DEF r
  <2>4. /\ jobs' \in Seq(JobRecords)
        /\ Jobs \subseteq Jobs'
        /\ AboutItsScan' /\ FromJobs' /\ Counted' /\ Exclusive' /\ HalfWritten'
    <3> DEFINE k == Len(jobs) + 1
    <3>1. jobs \in Seq(JobRecords) /\ Jobs = 1..Len(jobs) /\ Len(jobs) \in Nat
      BY Numbers DEF IInv, TypeOK
    <3>2. /\ jobs' \in Seq(JobRecords) /\ Len(jobs') = k
          /\ \A i \in 1..Len(jobs) : jobs'[i] = jobs[i]
          /\ jobs'[k] = r
      BY <1>13, <2>3, <3>1, AppendProperties
    <3>3. DOMAIN jobs' = 1..k
      BY <3>2, LenProperties
    <3>4. Jobs' = Jobs \cup {k} /\ k \notin Jobs /\ k \in Nat \ {0}
      BY <3>1, <3>3 DEF Jobs
    <3>5. jobs'[k] = r /\ \A i \in Jobs : jobs'[i] = jobs[i]
      BY <3>1, <3>2
    <3> HIDE DEF k
    <3>6. AboutItsScan' /\ FromJobs' /\ Counted' /\ Exclusive' /\ HalfWritten'
      BY <1>1, <1>11, <2>3, <3>4, <3>5, JobAdded
    <3> QED
      BY <3>2, <3>4, <3>6
  <2>5. TypeOK'
    <3>1. mu' \in {None, 0} \cup Jobs'
      BY <1>1, <2>4 DEF IInv, TypeOK
    <3> QED
      BY <1>1, <1>4, <1>5, <2>4, <3>1 DEF IInv, TypeOK
  <2> QED
    BY <1>6, <1>8, <1>9, <1>10, <2>4, <2>5 DEF IInv
<1> QED
  BY <1>1, <1>12, <1>13

\* The loop takes the mutex.
LEMMA LoopTakesMutex ==
  ASSUME IInv, LoopLocks
  PROVE  IInv'
<1>1. /\ loop = "lock" /\ loop' = "first half" /\ mu = None /\ mu' = 0
      /\ UNCHANGED <<lines, eof, stopped, broken, next, reply, stdout, jobs, ok, failed, main>>
  BY DEF LoopLocks, Lock, client
<1>2. /\ WholeLines' /\ AboutItsScan' /\ FromJobs' /\ Counted'
      /\ Answers' = Answers /\ Jobs' = Jobs
  BY <1>1, OutputAndJobsSame
<1>3. Asked' = Asked /\ Matching'
  BY <1>1, SameAsked
<1>4. TypeOK'
  BY <1>1, <1>2 DEF IInv, TypeOK
<1>5. Waiting'
  BY <1>1, <1>2 DEF IInv, Waiting
<1>6. Answering'
  BY <1>1, <1>2, <1>3 DEF IInv, Answering, Writing
<1>7. \A i \in Jobs : i # 0 /\ i # None /\ jobs[i].at \notin Writing
  <2>1. \A i \in Jobs : i # 0 /\ i # None
    BY JobFacts
  <2>2. Exclusive
    BY DEF IInv
  <2> QED
    BY <1>1, <2>1, <2>2 DEF Exclusive
<1>8. Exclusive'
  BY <1>1, <1>2, <1>7 DEF Exclusive, Writing
<1>9. HalfWritten'
  <2>1. loop # "second half" /\ loop' # "second half"
    BY <1>1
  <2> QED
    BY <1>1, <1>2, <2>1 DEF IInv, HalfWritten, Notification, Half
<1> QED
  BY <1>2, <1>3, <1>4, <1>5, <1>6, <1>8, <1>9 DEF IInv

\* While the loop writes, it has the output for itself.
LEMMA LoopWritesAlone ==
  ASSUME IInv, loop \in Writing
  PROVE  /\ mu = 0 /\ main = "serving" /\ reply \in Replies
         /\ \A i \in Jobs : jobs[i].at \notin Writing
         /\ \A i \in Jobs : i # 0
         /\ None # 0 /\ None \notin Jobs
<1>1. mu = 0
  BY DEF IInv, Exclusive
<1>2. \A i \in Jobs : i # 0
  BY JobFacts
<1>3. \A i \in Jobs : jobs[i].at \notin Writing
  BY <1>1, <1>2 DEF IInv, Exclusive
<1>4. main = "serving" /\ reply \in Replies
  BY DEF IInv, Waiting, Answering, TypeOK, Writing
<1>5. None # 0 /\ None \notin Jobs
  <2>1. Jobs = 1..Len(jobs) /\ Len(jobs) \in Nat
    BY Numbers DEF IInv
  <2>2. Jobs \subseteq Nat /\ 0 \in Nat
    BY <2>1
  <2>3. None \notin Nat
    BY NoneAssumption
  <2> QED
    BY <2>2, <2>3, Zenon
<1> QED
  BY <1>1, <1>2, <1>3, <1>4, <1>5

\* If output is broken, the loop gives up the mutex and returns.
LEMMA LoopGivesUp ==
  ASSUME IInv, loop \in Writing, broken, loop' = "returned", mu' = None,
         UNCHANGED <<client, next, reply, stdout, jobs, ok, failed, main>>
  PROVE  IInv'
<1>1. UNCHANGED <<lines, eof, stopped, broken, next, reply, stdout, jobs, ok, failed, main>>
  BY DEF client
<1>2. /\ WholeLines' /\ AboutItsScan' /\ FromJobs' /\ Counted'
      /\ Answers' = Answers /\ Jobs' = Jobs
  BY <1>1, OutputAndJobsSame
<1>3. Asked' = Asked /\ Matching'
  BY <1>1, SameAsked
<1>4. TypeOK'
  BY <1>1, <1>2 DEF IInv, TypeOK
<1>5. Waiting'
  BY <1>1, <1>2 DEF IInv, Waiting
<1>6. Answering'
  BY <1>1, <1>2, <1>3 DEF IInv, Answering, Writing
<1>7. /\ mu' # 0 /\ loop' \notin Writing
      /\ \A i \in Jobs : mu' # i /\ jobs'[i].at \notin Writing
  BY <1>1, LoopWritesAlone DEF Writing
<1>8. Exclusive'
  BY <1>2, <1>7 DEF Exclusive
<1>9. HalfWritten'
  BY <1>1, <1>2, <1>7 DEF HalfWritten, Writing
<1> QED
  BY <1>2, <1>3, <1>4, <1>5, <1>6, <1>8, <1>9 DEF IInv

\* A response, as a message.
LEMMA ReplyIsMessage ==
  ASSUME NEW response \in Replies, NEW part \in {1, 2}
  PROVE  /\ Half(response, part) \in Halves
         /\ response \notin Notifications
         /\ Half(response, part).part = part
         /\ Half(response, part).message = response
BY MessageKinds DEF Half, Halves

\* What a half of a response that is written leaves as it is.
LEMMA LoopPutKeeps ==
  ASSUME IInv, NEW h \in Halves, h.message \notin Notifications, stdout' = Append(stdout, h),
         UNCHANGED <<jobs, ok, failed>>
  PROVE  /\ stdout' \in Seq(Halves)
         /\ Len(stdout') = Len(stdout) + 1
         /\ \A n \in 1..Len(stdout) : stdout'[n] = stdout[n]
         /\ stdout'[Len(stdout) + 1] = h
         /\ Answers' = IF h.part = 2 THEN Answers \cup {Len(stdout) + 1} ELSE Answers
         /\ Jobs' = Jobs /\ AboutItsScan' /\ FromJobs' /\ Counted'
<1>1. TypeOK
  BY DEF IInv
<1>2. /\ stdout' \in Seq(Halves)
      /\ Len(stdout') = Len(stdout) + 1
      /\ \A n \in 1..Len(stdout) : stdout'[n] = stdout[n]
      /\ stdout'[Len(stdout) + 1] = h
      /\ Answers' = IF h.part = 2 /\ h.message \in Replies
                    THEN Answers \cup {Len(stdout) + 1} ELSE Answers
      /\ Notified' = IF h.part = 2 /\ h.message \in Notifications
                     THEN Notified \cup {Len(stdout) + 1} ELSE Notified
  BY <1>1, Appended
<1>3. h.message \in Replies
  BY DEF Halves
<1>4. /\ Answers' = IF h.part = 2 THEN Answers \cup {Len(stdout) + 1} ELSE Answers
      /\ Notified' = Notified
  BY <1>2, <1>3
<1>5. \A n \in Notified : stdout'[n] = stdout[n]
  BY <1>1, <1>2, Numbers
<1>6. Jobs' = Jobs /\ jobs' = jobs
  BY DEF Jobs
<1>7. Told' = Told
  BY <1>4, <1>5 DEF Told
<1>8. Sent' = Sent /\ Untold' = Untold /\ FailedGroups' = FailedGroups
  BY <1>6, <1>7 DEF Sent, Untold, FailedGroups
<1>9. AboutItsScan'
  BY <1>6 DEF IInv, AboutItsScan
<1>10. FromJobs'
  BY <1>4, <1>5, <1>6, <1>7 DEF IInv, FromJobs, Notification
<1>11. Counted'
  BY <1>4, <1>8 DEF IInv, Counted
<1> QED
  BY <1>2, <1>4, <1>6, <1>9, <1>10, <1>11

\* The loop writes the first half of a response, after whole lines only.
LEMMA LoopWritesHalf ==
  ASSUME IInv, LoopWrites, ~broken
  PROVE  IInv'
<1> DEFINE h == Half(reply, 1)
<1>1. /\ loop = "first half" /\ loop' = "second half" /\ stdout' = Append(stdout, h)
      /\ UNCHANGED <<lines, eof, stopped, broken, next, reply, mu, jobs, ok, failed, main>>
  BY DEF LoopWrites, Put, client
<1>2. /\ mu = 0 /\ main = "serving" /\ reply \in Replies
      /\ \A i \in Jobs : jobs[i].at \notin Writing
  BY <1>1, LoopWritesAlone DEF Writing
<1>3. h \in Halves /\ h.part = 1 /\ h.message \notin Notifications
  BY <1>2, ReplyIsMessage
<1> HIDE DEF h
<1>4. /\ stdout' \in Seq(Halves)
      /\ Len(stdout') = Len(stdout) + 1
      /\ \A n \in 1..Len(stdout) : stdout'[n] = stdout[n]
      /\ stdout'[Len(stdout) + 1] = h
      /\ Answers' = Answers
      /\ Jobs' = Jobs /\ AboutItsScan' /\ FromJobs' /\ Counted'
  <2>1. /\ stdout' \in Seq(Halves)
        /\ Len(stdout') = Len(stdout) + 1
        /\ \A n \in 1..Len(stdout) : stdout'[n] = stdout[n]
        /\ stdout'[Len(stdout) + 1] = h
        /\ Answers' = IF h.part = 2 THEN Answers \cup {Len(stdout) + 1} ELSE Answers
        /\ Jobs' = Jobs /\ AboutItsScan' /\ FromJobs' /\ Counted'
    BY <1>1, <1>3, LoopPutKeeps
  <2>2. h.part # 2
    BY <1>3
  <2> QED
    BY <2>1, <2>2
<1>5. /\ Len(stdout) \in Nat /\ Answers \subseteq 1..Len(stdout)
  BY Numbers DEF IInv
<1>6. Len(stdout) % 2 = 0
  <2>1. HalfWritten
    BY DEF IInv
  <2>2. loop # "second half" /\ \A i \in Jobs : jobs[i].at # "second half"
    BY <1>1, <1>2 DEF Writing
  <2> QED
    BY <2>1, <2>2 DEF HalfWritten
<1>7. WholeLines'
  BY <1>1, <1>3, <1>6, LinesStayWhole DEF IInv
<1>8. TypeOK'
  BY <1>1, <1>4 DEF IInv, TypeOK, Halves
<1>9. Asked' = Asked
  BY <1>1 DEF Asked
<1>10. Answering'
  BY <1>1, <1>4, <1>9 DEF IInv, Answering, Writing
<1>11. Matching'
  <2>1. \A n \in Answers : stdout'[n] = stdout[n]
    BY <1>4, <1>5
  <2>2. Answers' = Answers /\ lines' = lines
    BY <1>1, <1>4
  <2>3. Matching
    BY DEF IInv
  <2> QED
    BY <1>9, <2>1, <2>2, <2>3 DEF Matching
<1>12. Exclusive'
  BY <1>1, <1>4 DEF IInv, Exclusive, Writing
<1>13. HalfWritten'
  <2>1. Len(stdout') % 2 = 1 /\ stdout'[Len(stdout')] = h
    BY <1>4, <1>5, <1>6, Parity
  <2>2. \A i \in Jobs : jobs[i].at # "second half"
    BY <1>2 DEF Writing
  <2> QED
    BY <1>1, <1>4, <2>1, <2>2 DEF HalfWritten, h, Half
<1>14. Waiting'
  BY <1>1, <1>2 DEF Waiting
<1> QED
  BY <1>4, <1>7, <1>8, <1>10, <1>11, <1>12, <1>13, <1>14 DEF IInv

\* The loop writes the other half: the line that has been read last has its response.
LEMMA LoopSends ==
  ASSUME IInv, LoopSent, ~broken
  PROVE  IInv'
<1> DEFINE h == Half(reply, 2)
           last == Len(stdout) + 1
<1>1. /\ loop = "second half" /\ loop' = "scan" /\ stdout' = Append(stdout, h) /\ mu' = None
      /\ UNCHANGED <<lines, eof, stopped, broken, next, reply, jobs, ok, failed, main>>
  BY DEF LoopSent, Put, Unlock, client
<1>2. /\ mu = 0 /\ main = "serving" /\ reply \in Replies
      /\ \A i \in Jobs : jobs[i].at \notin Writing
      /\ None # 0 /\ None \notin Jobs
  BY <1>1, LoopWritesAlone DEF Writing
<1>3. h \in Halves /\ h.part = 2 /\ h.message = reply /\ h.message \notin Notifications
  BY <1>2, ReplyIsMessage
<1> HIDE DEF h
<1>4. /\ stdout' \in Seq(Halves)
      /\ Len(stdout') = last
      /\ \A n \in 1..Len(stdout) : stdout'[n] = stdout[n]
      /\ stdout'[last] = h
      /\ Answers' = Answers \cup {last}
      /\ Jobs' = Jobs /\ AboutItsScan' /\ FromJobs' /\ Counted'
  BY <1>1, <1>3, LoopPutKeeps
<1>5. /\ Len(stdout) \in Nat /\ Answers \subseteq 1..Len(stdout) /\ Answers \subseteq Nat
      /\ IsFiniteSet(Answers) /\ Cardinality(Answers) \in Nat
      /\ IsFiniteSet(Asked) /\ Asked \subseteq Nat /\ Asked \subseteq 1..(next - 1)
      /\ next \in Nat /\ Cardinality(Asked) \in Nat
  BY Numbers DEF IInv
<1>6. Len(stdout) % 2 = 1 /\ stdout[Len(stdout)].message = reply
  <2>1. HalfWritten
    BY DEF IInv
  <2>2. Len(stdout) % 2 = 1 /\ stdout[Len(stdout)] = Half(reply, 1)
    BY <1>1, <2>1 DEF HalfWritten
  <2> QED
    BY <2>2 DEF Half
<1>7. WholeLines'
  BY <1>1, <1>3, <1>6, LinesStayWhole DEF IInv
<1>8. TypeOK'
  BY <1>1, <1>4 DEF IInv, TypeOK, Halves
<1>9. Asked' = Asked
  BY <1>1 DEF Asked
<1>10. /\ Cardinality(Asked) = Cardinality(Answers) + 1 /\ next - 1 \in Asked
       /\ reply.id = IdOf(lines[next-1])
  BY <1>1 DEF IInv, Answering, Writing
<1>11. /\ Cardinality(Answers \cup {last}) = Cardinality(Answers) + 1
       /\ Rank(Answers \cup {last}, last) = Cardinality(Answers) + 1
       /\ \A n \in Answers : Rank(Answers \cup {last}, n) = Rank(Answers, n)
  <2>1. last \in Nat /\ \A m \in Answers : m < last
    BY <1>5
  <2> HIDE DEF last
  <2> QED
    BY <1>5, <2>1, RankAdded
<1>12. Answering'
  BY <1>1, <1>4, <1>9, <1>10, <1>11 DEF Answering, Writing
<1>13. Matching'
  <2>1. \A n \in Answers : stdout'[n] = stdout[n]
    BY <1>4, <1>5
  <2>2. \A i \in Asked, n \in Answers :
           Rank(Asked, i) = Rank(Answers \cup {last}, n) => stdout'[n].message.id = IdOf(lines[i])
    BY <1>11, <2>1 DEF IInv, Matching
  <2>3. ASSUME NEW i \in Asked, Rank(Asked, i) = Rank(Answers \cup {last}, last)
        PROVE  stdout'[last].message.id = IdOf(lines[i])
    <3>1. Rank(Asked, i) = Cardinality(Asked)
      BY <1>10, <1>11, <2>3
    <3>2. \A m \in Asked : m <= i
      BY <1>5, <3>1, RankBound
    <3>3. i = next - 1
      BY <1>5, <1>10, <3>2
    <3> QED
      BY <1>3, <1>4, <1>10, <3>3
  <2>4. \A i \in Asked, n \in Answers \cup {last} :
           Rank(Asked, i) = Rank(Answers \cup {last}, n) => stdout'[n].message.id = IdOf(lines[i])
    BY <2>2, <2>3
  <2> QED
    BY <1>1, <1>4, <1>9, <2>4 DEF Matching
<1>14. /\ mu' # 0 /\ loop' \notin Writing
       /\ \A i \in Jobs : mu' # i /\ jobs'[i].at \notin Writing
  BY <1>1, <1>2 DEF Writing
<1>15. Exclusive'
  BY <1>4, <1>14 DEF Exclusive
<1>16. HalfWritten'
  <2>1. Len(stdout') % 2 = 0
    BY <1>4, <1>5, <1>6, Parity
  <2> QED
    BY <1>4, <1>14, <2>1 DEF HalfWritten, Writing
<1>17. Waiting'
  BY <1>1, <1>2 DEF Waiting
<1> QED
  BY <1>4, <1>7, <1>8, <1>12, <1>13, <1>15, <1>16, <1>17 DEF IInv

\* All steps of the loop.
LEMMA LoopPreserves ==
  ASSUME IInv, Loop
  PROVE  IInv'
<1>1. CASE Scan
  BY <1>1, LoopReads
<1>2. CASE ScanEnds
  BY <1>2, LoopEnds
<1>3. CASE LoopLocks
  BY <1>3, LoopTakesMutex
<1>4. CASE LoopWrites
  <2>1. CASE broken
    BY <1>4, <2>1, LoopGivesUp DEF LoopWrites, Put, Unlock, Writing
  <2>2. CASE ~broken
    BY <1>4, <2>2, LoopWritesHalf
  <2> QED
    BY <2>1, <2>2
<1>5. CASE LoopSent
  <2>1. CASE broken
    BY <1>5, <2>1, LoopGivesUp DEF LoopSent, Put, Unlock, Writing
  <2>2. CASE ~broken
    BY <1>5, <2>2, LoopSends
  <2> QED
    BY <2>1, <2>2
<1>6. ASSUME NEW outcome \in Outcomes, NEW tree \in Trees, Handle(outcome, tree)
      PROVE  IInv'
  BY <1>6, LoopHandles
<1> QED
  BY <1>1, <1>2, <1>3, <1>4, <1>5, <1>6 DEF Loop

-----------------------------------------------------------------------------
(* The theorems.                                                           *)

\* At the start nothing has been read, written or begun.
LEMMA InitIInv == Init => IInv
<1> SUFFICES ASSUME Init
             PROVE  IInv
  OBVIOUS
<1>1. /\ lines = <<>> /\ next = 1 /\ eof = FALSE /\ stopped = FALSE /\ broken = FALSE
      /\ loop = "scan" /\ reply = None /\ mu = None /\ stdout = <<>>
      /\ jobs = <<>> /\ ok = 0 /\ failed = 0 /\ main = "serving"
  BY DEF Init
<1>2. Jobs = {} /\ DOMAIN stdout = {} /\ Len(stdout) = 0 /\ Len(lines) = 0
  BY <1>1 DEF Jobs
<1>3. Asked = {} /\ Answers = {} /\ Notified = {}
  BY <1>1, <1>2 DEF Asked, Answers, Notified
<1>4. Sent = {} /\ Untold = {} /\ FailedGroups = {} /\ Cardinality({}) = 0 /\ IsFiniteSet({})
  BY <1>2, FS_EmptySet DEF Sent, Untold, FailedGroups
<1>5. TypeOK
  <2>1. /\ lines \in Seq(Lines) /\ jobs \in Seq(JobRecords)
        /\ stdout \in Seq([message : Replies \cup Notifications, part : {1, 2}])
    BY <1>1, EmptySeq
  <2>2. Len(lines) <= MaxLines /\ next \in 1..Len(lines)+1
    BY <1>1, <1>2, StdioAssumption
  <2> QED
    BY <1>1, <2>1, <2>2 DEF TypeOK
<1>6. Answering /\ Matching
  BY <1>1, <1>3 DEF Answering, Matching, Writing
<1>7. Exclusive
  <2>1. None # 0
    BY NoneAssumption
  <2> QED
    BY <1>1, <1>2, <2>1 DEF Exclusive, Writing
<1>8. HalfWritten /\ WholeLines
  BY <1>1, <1>2 DEF HalfWritten, WholeLines
<1>9. AboutItsScan /\ FromJobs /\ Waiting
  BY <1>1, <1>2, <1>3 DEF AboutItsScan, FromJobs, Waiting
<1>10. Counted
  BY <1>1, <1>3, <1>4 DEF Counted
<1> QED
  BY <1>5, <1>6, <1>7, <1>8, <1>9, <1>10 DEF IInv

\* Every step of the system keeps the invariant.
LEMMA NextIInv ==
  ASSUME IInv, [Next]_vars
  PROVE  IInv'
<1>1. ASSUME NEW line \in Lines, Write(line)
      PROVE  IInv'
  BY <1>1, ClientWrites
<1>2. CASE CloseInput \/ Signal \/ Break
  BY <1>2, EnvironmentPreserves
<1>3. CASE Loop
  BY <1>3, LoopPreserves
<1>4. ASSUME NEW j \in Jobs, JobStep(j)
      PROVE  IInv'
  BY <1>4, JobStepPreserves
<1>5. CASE Return \/ DrainTimeout \/ End
  BY <1>5, MainPreserves
<1>6. CASE UNCHANGED vars
  <2>1. UNCHANGED <<lines, next, eof, stopped, loop, reply, mu, stdout, broken, jobs, ok, failed,
                    main>>
    BY <1>6 DEF vars
  <2>2. eof \in BOOLEAN /\ stopped \in BOOLEAN /\ broken \in BOOLEAN
        /\ main \in {"serving", "draining", "cancelled", "ended"}
    BY DEF IInv, TypeOK
  <2>3. Waiting'
    BY <2>1 DEF IInv, Waiting, Jobs
  <2> QED
    BY <2>1, <2>2, <2>3, OthersKeep
<1> QED
  BY <1>1, <1>2, <1>3, <1>4, <1>5, <1>6 DEF Next

\* The inductive invariant holds of the program.
THEOREM Invariance == Spec => []IInv
<1>1. Init => IInv
  BY InitIInv
<1>2. IInv /\ [Next]_vars => IInv'
  BY NextIInv
<1> QED
  BY <1>1, <1>2, PTL DEF Spec

\* The types of the variables, for any lines and any answers of the model.
THEOREM TypeCorrect == Spec => []TypeOK
<1>1. IInv => TypeOK
  BY DEF IInv
<1> QED
  BY <1>1, Invariance, PTL

\* Start answers every line that asks for it once, in their order, with its id, and no
\* line of output is cut by a notification, whatever the handlers and the verifications do.
THEOREM RepliesAreInOrder == Spec => []RepliesInOrder
<1>1. IInv => RepliesInOrder
  <2> SUFFICES ASSUME IInv
               PROVE  RepliesInOrder
    OBVIOUS
  <2>1. Cardinality(Asked) \in Nat /\ Cardinality(Answers) \in Nat
    BY Numbers DEF IInv
  <2>2. Answering /\ loop \in {"scan", "handle", "lock", "first half", "second half", "returned"}
    BY DEF IInv, TypeOK
  <2>3. Cardinality(Asked) - Cardinality(Answers) \in (IF loop = "scan" THEN {0} ELSE {0, 1})
    <3>1. CASE loop = "scan"
      BY <2>1, <2>2, <3>1 DEF Answering
    <3>2. CASE loop = "returned"
      BY <2>1, <2>2, <3>2 DEF Answering
    <3>3. CASE loop \in {"handle", "lock", "first half", "second half"}
      <4>1. Cardinality(Asked) = Cardinality(Answers) + 1
        BY <2>2, <3>3 DEF Answering, Writing
      <4>2. Cardinality(Asked) - Cardinality(Answers) = 1
        BY <2>1, <4>1
      <4>3. loop # "scan"
        BY <3>3
      <4> QED
        BY <4>2, <4>3
    <3> QED
      BY <2>2, <3>1, <3>2, <3>3
  <2> QED
    BY <2>3 DEF IInv, Matching, RepliesInOrder
<1> QED
  BY <1>1, Invariance, PTL

\* When the program ends, the goroutines of startBackgroundVerification have counted what
\* became of each notification and of each group, and what they have sent is about the
\* findings of their own scan.
THEOREM VerificationIsCounted == Spec => []VerificationCounted
<1>1. IInv => VerificationCounted
  <2> SUFFICES ASSUME IInv, main = "ended"
               PROVE  /\ ok = Cardinality(Notified)
                      /\ failed = Cardinality({j \in Jobs \ Told : jobs[j].at = "done"})
                                  + Cardinality(FailedGroups)
                      /\ \A n \in Notified : \A v \in stdout[n].message.verdicts :
                            \E f \in Range(jobs[stdout[n].message.job].scan) : v = Verdict(f)
    BY DEF VerificationCounted
  <2>1. \A j \in Jobs : jobs[j].at \in Done
    BY DEF IInv, Waiting
  <2>2. Sent = {}
    BY <2>1 DEF Sent, Done
  <2>3. ok = Cardinality(Notified)
    <3>1. Cardinality(Sent) = 0 /\ ok \in Nat
      BY <2>2, FS_EmptySet DEF IInv, TypeOK
    <3> QED
      BY <3>1 DEF IInv, Counted
  <2>4. failed = Cardinality({j \in Jobs \ Told : jobs[j].at = "done"})
                 + Cardinality(FailedGroups)
    BY DEF IInv, Counted, Untold
  <2>5. ASSUME NEW n \in Notified, NEW v \in stdout[n].message.verdicts
        PROVE  \E f \in Range(jobs[stdout[n].message.job].scan) : v = Verdict(f)
    <3>1. /\ stdout[n].message.job \in Jobs
          /\ stdout[n].message = [job |-> stdout[n].message.job,
                                  verdicts |-> jobs[stdout[n].message.job].verdicts]
      BY DEF IInv, FromJobs, Notification
    <3> DEFINE j == stdout[n].message.job
    <3>2. j \in Jobs /\ v \in jobs[j].verdicts
      BY <3>1
    <3> HIDE DEF j
    <3>3. PICK m \in DOMAIN jobs[j].scan : v = Verdict(jobs[j].scan[m])
      BY <3>2 DEF IInv, AboutItsScan
    <3>4. jobs[j].scan[m] \in Range(jobs[j].scan)
      BY DEF Range
    <3>5. \E f \in Range(jobs[j].scan) : v = Verdict(f)
      BY <3>3, <3>4
    <3> QED
      BY <3>5 DEF j
  <2> QED
    BY <2>3, <2>4, <2>5
<1> QED
  BY <1>1, Invariance, PTL

=============================================================================
