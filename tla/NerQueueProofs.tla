--------------------------- MODULE NerQueueProofs ---------------------------
(***************************************************************************)
(* What NerQueue guarantees for every number of jobs, attempts and         *)
(* workers, every retry budget, lease and lag of the clock readings.       *)
(*                                                                         *)
(* Consistent states the invariants of a pair of tables J, A.  A claim     *)
(* first sweeps the expired leases out of the stored tables and then       *)
(* hands out one of the swept jobs: SweptConsistent is the first half,     *)
(* HandedOutConsistent the second.                                         *)
(***************************************************************************)
EXTENDS NerQueue, FiniteSetTheorems, TLAPS

Rows(J, A) == J \in [Job -> JobRow] /\ A \in [Attempt -> AttemptRow]

\* An attempt that was issued belongs to a job.
JobOf(A) ==
  \A k \in Attempt : IF A[k].status = "absent" THEN A[k].job = None ELSE A[k].job \in Job

\* RunningIsCurrent, and a job that is not running holds no token.
Running(J, A) ==
  /\ \A k \in Attempt : A[k].status = "running" =>
       J[A[k].job].state = "running" /\ J[A[k].job].token = k
  /\ \A j \in Job : IF J[j].state = "running"
                    THEN /\ J[j].token \in Attempt
                         /\ A[J[j].token].status = "running" /\ A[J[j].token].job = j
                    ELSE J[j].token = None

\* BudgetKept, with the finiteness that counting needs.
Of(A, j) == {k \in Attempt : A[k].job = j}
Budget(J, A) ==
  \A j \in Job :
    /\ J[j].state = "queued" => J[j].tries < J[j].max
    /\ J[j].tries <= J[j].max
    /\ {A[k].ordinal : k \in Of(A, j)} = 1..J[j].tries
    /\ IsFiniteSet(Of(A, j)) /\ Cardinality(Of(A, j)) = J[j].tries

\* A job that was never submitted, or was superseded, has no result and no attempt.
Unstarted(J, A) ==
  \A j \in Job : J[j].state \in {"absent", "superseded"} => J[j].result = None /\ Of(A, j) = {}

OneAudit(J) ==
  \A i, j \in Job :
    /\ WorkflowOf[i] = Audit /\ WorkflowOf[j] = Audit /\ IdentityOf[i] = IdentityOf[j]
    /\ J[i].state # "absent" /\ J[j].state # "absent"
    => i = j

Consistent(J, A) ==
  Rows(J, A) /\ JobOf(A) /\ Running(J, A) /\ Budget(J, A) /\ Unstarted(J, A) /\ OneAudit(J)

\* What a worker holds in memory was issued by the queue.
HeldIssued == \A w \in Worker : held[w] # None => att[held[w]].status # "absent"

QInv == QTypeOK /\ Consistent(job, att) /\ HeldIssued
-----------------------------------------------------------------------------
(* The sweep of expired leases. *)

\* What the sweep does to a row.
LEMMA AfterExpiryRow ==
  ASSUME NEW q \in JobRow
  PROVE  LET p == AfterExpiry(q) IN
         /\ p \in JobRow
         /\ p.state = (IF q.tries < q.max THEN "queued" ELSE "failed")
         /\ p.token = None /\ p.tries = q.tries /\ p.max = q.max /\ p.result = q.result
         /\ p.error = "lease_expired" /\ p.created = q.created /\ p.avail = q.avail
BY QueueAssumption DEF AfterExpiry, JobRow

\* The rows of the swept tables.
LEMMA SweptRows ==
  ASSUME Consistent(job, att), NEW t
  PROVE  LET J == SweptJobs(t)
             A == SweptAttempts(t) IN
         /\ Rows(J, A)
         /\ \A j \in Job :
              /\ J[j].tries = job[j].tries /\ J[j].max = job[j].max /\ J[j].result = job[j].result
              /\ IF j \in Expired(t)
                 THEN /\ J[j].state = (IF job[j].tries < job[j].max THEN "queued" ELSE "failed")
                      /\ J[j].token = None /\ job[j].state = "running" /\ J[j].error = "lease_expired"
                 ELSE J[j] = job[j]
         /\ \A k \in Attempt :
              /\ A[k].job = att[k].job /\ A[k].ordinal = att[k].ordinal
              /\ A[k].status = IF att[k].status = "running" /\ att[k].job \in Expired(t)
                               THEN "lease_expired" ELSE att[k].status
<1> DEFINE J == SweptJobs(t)
           A == SweptAttempts(t)
<1>1. job \in [Job -> JobRow] /\ att \in [Attempt -> AttemptRow]
  BY DEF Consistent, Rows
<1>2. ASSUME NEW j \in Job
      PROVE  /\ J[j] \in JobRow
             /\ J[j].tries = job[j].tries /\ J[j].max = job[j].max /\ J[j].result = job[j].result
             /\ IF j \in Expired(t)
                THEN /\ J[j].state = (IF job[j].tries < job[j].max THEN "queued" ELSE "failed")
                     /\ J[j].token = None /\ job[j].state = "running" /\ J[j].error = "lease_expired"
                ELSE J[j] = job[j]
  <2>1. CASE j \in Expired(t)
    <3>1. J[j] = AfterExpiry(job[j]) /\ job[j].state = "running"
      BY <2>1 DEF SweptJobs, Expired
    <3> QED
      BY <1>1, <2>1, <3>1, AfterExpiryRow
  <2>2. CASE j \notin Expired(t)
    BY <1>1, <2>2 DEF SweptJobs
  <2> QED
    BY <2>1, <2>2
<1>3. ASSUME NEW k \in Attempt
      PROVE  /\ A[k] \in AttemptRow
             /\ A[k].job = att[k].job /\ A[k].ordinal = att[k].ordinal
             /\ A[k].status = IF att[k].status = "running" /\ att[k].job \in Expired(t)
                              THEN "lease_expired" ELSE att[k].status
  <2>1. att[k].status = "running" =>
          ((\E j \in Expired(t) : job[j].token = k) <=> att[k].job \in Expired(t))
    <3>1. \A j \in Expired(t) : j \in Job /\ job[j].state = "running"
      BY DEF Expired
    <3> QED
      BY <3>1, QueueAssumption DEF Consistent, Running
  <2>2. CASE att[k].status = "running" /\ att[k].job \in Expired(t)
    <3>1. A[k] = [att[k] EXCEPT !.status = "lease_expired"]
      BY <2>1, <2>2 DEF SweptAttempts
    <3> QED
      BY <1>1, <2>2, <3>1 DEF AttemptRow
  <2>3. CASE ~(att[k].status = "running" /\ att[k].job \in Expired(t))
    <3>1. A[k] = att[k]
      BY <2>1, <2>3 DEF SweptAttempts
    <3> QED
      BY <1>1, <2>3, <3>1
  <2> QED
    BY <2>2, <2>3
<1>4. Rows(J, A)
  BY <1>2, <1>3 DEF Rows, SweptJobs, SweptAttempts
<1> QED
  BY <1>2, <1>3, <1>4

\* The sweep keeps the tables consistent: an attempt and its job end together.
LEMMA SweptConsistent ==
  ASSUME Consistent(job, att), NEW t
  PROVE  Consistent(SweptJobs(t), SweptAttempts(t))
<1> DEFINE J == SweptJobs(t)
           A == SweptAttempts(t)
<1>1. Rows(J, A)
  BY SweptRows
<1>2. \A j \in Job :
        /\ J[j].tries = job[j].tries /\ J[j].max = job[j].max /\ J[j].result = job[j].result
        /\ IF j \in Expired(t)
           THEN /\ J[j].state = (IF job[j].tries < job[j].max THEN "queued" ELSE "failed")
                /\ J[j].token = None /\ job[j].state = "running"
           ELSE J[j] = job[j]
  BY SweptRows
<1>3. \A k \in Attempt :
        /\ A[k].job = att[k].job /\ A[k].ordinal = att[k].ordinal
        /\ A[k].status = IF att[k].status = "running" /\ att[k].job \in Expired(t)
                         THEN "lease_expired" ELSE att[k].status
  BY SweptRows
<1> HIDE DEF J, A
<1>4. "failed" \notin {"absent", "queued", "running", "superseded"} /\ "failed" \in Outcome
  BY QueueAssumption
<1>5. JobOf(A)
  BY <1>3 DEF Consistent, JobOf
<1>6. Running(J, A)
  BY <1>2, <1>3, <1>4 DEF Consistent, Running, JobOf
<1>7. \A j \in Job : Of(A, j) = Of(att, j)
  BY <1>3 DEF Of
<1>8. Budget(J, A)
  <2> SUFFICES ASSUME NEW j \in Job
               PROVE  /\ J[j].state = "queued" => J[j].tries < J[j].max
                      /\ J[j].tries <= J[j].max
                      /\ {A[k].ordinal : k \in Of(A, j)} = 1..J[j].tries
                      /\ IsFiniteSet(Of(A, j)) /\ Cardinality(Of(A, j)) = J[j].tries
    BY DEF Budget
  <2>1. {A[k].ordinal : k \in Of(A, j)} = {att[k].ordinal : k \in Of(att, j)}
    BY <1>3, <1>7 DEF Of
  <2>2. /\ job[j].state = "queued" => job[j].tries < job[j].max
        /\ job[j].tries <= job[j].max
        /\ {att[k].ordinal : k \in Of(att, j)} = 1..job[j].tries
        /\ IsFiniteSet(Of(att, j)) /\ Cardinality(Of(att, j)) = job[j].tries
    BY DEF Consistent, Budget
  <2> QED
    BY <1>2, <1>4, <1>7, <2>1, <2>2
<1>9. Unstarted(J, A)
  BY <1>2, <1>4, <1>7 DEF Consistent, Unstarted
<1>10. OneAudit(J)
  BY <1>2 DEF Consistent, OneAudit
<1> QED
  BY <1>1, <1>5, <1>6, <1>8, <1>9, <1>10 DEF Consistent, J, A
-----------------------------------------------------------------------------
(* The other writes. *)

\* The tables after job j is handed out to attempt k: the second half of ClaimJob.
JobsOut(J, j, k, until) ==
  [J EXCEPT ![j].state = "running", ![j].tries = @ + 1, ![j].token = k, ![j].lease = until]
AttemptsOut(J, A, j, k) ==
  [A EXCEPT ![k] = [status |-> "running", job |-> j, ordinal |-> J[j].tries + 1]]

\* Handing out a queued job of consistent tables, to an attempt id never used before.
LEMMA HandedOutConsistent ==
  ASSUME NEW J, NEW A, Consistent(J, A), NEW j \in Job, NEW k \in Attempt, NEW until \in Nat,
         J[j].state = "queued", A[k].status = "absent",
         NEW K, NEW B, K = JobsOut(J, j, k, until), B = AttemptsOut(J, A, j, k)
  PROVE  /\ Consistent(K, B)
         /\ K[j].state = "running" /\ K[j].token = k /\ K[j].error = J[j].error
         /\ K[j].result = J[j].result /\ K[j].tries = J[j].tries + 1 /\ K[j].max = J[j].max
         /\ \A i \in Job : i # j => K[i] = J[i]
         /\ B[k].status = "running" /\ B[k].job = j /\ \A a \in Attempt : a # k => B[a] = A[a]
<1> DEFINE q == J[j]
           n == q.tries + 1
           p == [q EXCEPT !.state = "running", !.tries = n, !.token = k, !.lease = until]
           b == [status |-> "running", job |-> j, ordinal |-> n]
<1>1. J \in [Job -> JobRow] /\ A \in [Attempt -> AttemptRow] /\ q \in JobRow
  BY DEF Consistent, Rows
<1>2. q.tries < q.max /\ q.tries \in 0..5 /\ q.max \in 1..5
  BY <1>1 DEF Consistent, Budget, JobRow
<1>3. n \in 0..5 /\ n <= q.max
  BY <1>2
<1>4. K = [J EXCEPT ![j] = p] /\ B = [A EXCEPT ![k] = b]
  BY <1>1 DEF JobsOut, AttemptsOut
<1>5. /\ p \in JobRow /\ p.state = "running" /\ p.tries = n /\ p.token = k /\ p.max = q.max
      /\ p.result = q.result /\ p.error = q.error
  <2>1. \A x \in 0..5 : [q EXCEPT !.state = "running", !.tries = x, !.token = k, !.lease = until] \in JobRow
    BY <1>1 DEF JobRow
  <2>2. p \in JobRow
    BY <1>3, <2>1
  <2> QED
    BY <1>1, <2>2 DEF JobRow
<1>6. b \in AttemptRow /\ b.status = "running" /\ b.job = j /\ b.ordinal = n
  BY <1>3 DEF AttemptRow
<1> HIDE DEF p, b
<1>7. /\ K[j] = p /\ \A i \in Job : i # j => K[i] = J[i]
      /\ B[k] = b /\ \A a \in Attempt : a # k => B[a] = A[a]
      /\ Rows(K, B)
  <2>1. K[j] = p /\ \A i \in Job : i # j => K[i] = J[i]
    BY <1>1, <1>4
  <2>2. B[k] = b /\ \A a \in Attempt : a # k => B[a] = A[a]
    BY <1>1, <1>4
  <2>3. K \in [Job -> JobRow] /\ B \in [Attempt -> AttemptRow]
    BY <1>1, <1>4, <1>5, <1>6
  <2> QED
    BY <2>1, <2>2, <2>3 DEF Rows
<1>8. A[k].job = None
  BY DEF Consistent, JobOf
<1>9. JobOf(B)
  BY <1>6, <1>7 DEF Consistent, JobOf
<1>10. Running(K, B)
  <2>1. \A i \in Job : J[i].state = "running" => J[i].token # k /\ J[i].token \in Attempt
    BY DEF Consistent, Running
  <2>2. \A a \in Attempt : a # k /\ A[a].status = "running" => A[a].job # j /\ A[a].job \in Job
    BY DEF Consistent, Running, JobOf
  <2>3. \A a \in Attempt : B[a].status = "running" =>
          K[B[a].job].state = "running" /\ K[B[a].job].token = a
    BY <1>5, <1>6, <1>7, <2>2 DEF Consistent, Running
  <2>4. \A i \in Job : IF K[i].state = "running"
                       THEN /\ K[i].token \in Attempt
                            /\ B[K[i].token].status = "running" /\ B[K[i].token].job = i
                       ELSE K[i].token = None
    BY <1>5, <1>6, <1>7, <2>1 DEF Consistent, Running
  <2> QED
    BY <2>3, <2>4 DEF Running
<1>11. /\ Of(B, j) = Of(A, j) \cup {k} /\ k \notin Of(A, j)
       /\ \A i \in Job : i # j => Of(B, i) = Of(A, i) /\ k \notin Of(A, i)
  BY <1>6, <1>7, <1>8, QueueAssumption DEF Of
<1>12. Budget(K, B)
  <2> SUFFICES ASSUME NEW i \in Job
               PROVE  /\ K[i].state = "queued" => K[i].tries < K[i].max
                      /\ K[i].tries <= K[i].max
                      /\ {B[a].ordinal : a \in Of(B, i)} = 1..K[i].tries
                      /\ IsFiniteSet(Of(B, i)) /\ Cardinality(Of(B, i)) = K[i].tries
    BY DEF Budget
  <2>1. /\ J[i].state = "queued" => J[i].tries < J[i].max
        /\ J[i].tries <= J[i].max
        /\ {A[a].ordinal : a \in Of(A, i)} = 1..J[i].tries
        /\ IsFiniteSet(Of(A, i)) /\ Cardinality(Of(A, i)) = J[i].tries
    BY DEF Consistent, Budget
  <2>2. CASE i # j
    <3>1. {B[a].ordinal : a \in Of(B, i)} = {A[a].ordinal : a \in Of(A, i)}
      BY <1>7, <1>11, <2>2 DEF Of
    <3> QED
      BY <1>7, <1>11, <2>1, <2>2, <3>1
  <2>3. CASE i = j
    <3>1. {B[a].ordinal : a \in Of(B, j)} = {A[a].ordinal : a \in Of(A, j)} \cup {n}
      BY <1>6, <1>7, <1>11 DEF Of
    <3>2. (1..q.tries) \cup {n} = 1..n
      BY <1>2
    <3>3. IsFiniteSet(Of(B, j)) /\ Cardinality(Of(B, j)) = Cardinality(Of(A, j)) + 1
      <4>1. IsFiniteSet(Of(A, j)) /\ k \notin Of(A, j) /\ Of(B, j) = Of(A, j) \cup {k}
        BY <1>11, <2>1, <2>3
      <4> HIDE DEF Of
      <4>2. Cardinality(Of(A, j) \cup {k}) =
              IF k \in Of(A, j) THEN Cardinality(Of(A, j)) ELSE Cardinality(Of(A, j)) + 1
        BY <4>1, FS_AddElement
      <4>3. IsFiniteSet(Of(A, j) \cup {k})
        BY <4>1, FS_AddElement
      <4> QED
        BY <4>1, <4>2, <4>3
    <3> QED
      BY <1>3, <1>5, <1>7, <2>1, <2>3, <3>1, <3>2, <3>3
  <2> QED
    BY <2>2, <2>3
<1>13. Unstarted(K, B)
  BY <1>5, <1>7, <1>11 DEF Consistent, Unstarted
<1>14. OneAudit(K)
  BY <1>5, <1>7 DEF Consistent, OneAudit
<1> QED
  BY <1>5, <1>6, <1>7, <1>9, <1>10, <1>12, <1>13, <1>14 DEF Consistent

\* Enqueue: a job that is new, and no second audit pass of an identity.
LEMMA EnqueueConsistent ==
  ASSUME QInv, NEW w \in Worker, NEW j \in Job, NEW max \in Budgets, NEW t \in Nat, Enqueue(w, j, max, t),
         job' # job
  PROVE  Consistent(job', att')
<1> DEFINE q == [NoJob EXCEPT !.state = "queued", !.max = max, !.created = t]
<1>1. /\ PriorAudit(j) = {} /\ job[j].state = "absent" /\ job' = [job EXCEPT ![j] = q] /\ att' = att
  BY DEF Enqueue
<1>2. max \in 1..5
  BY QueueAssumption
<1>3. /\ q \in JobRow /\ q.state = "queued" /\ q.tries = 0 /\ q.max = max /\ q.token = None
      /\ q.result = None
  <2>1. NoJob \in JobRow /\ NoJob.tries = 0 /\ NoJob.token = None /\ NoJob.result = None
    BY DEF NoJob, JobRow
  <2> QED
    BY <1>2, <2>1 DEF JobRow
<1> HIDE DEF q
<1>4. job \in [Job -> JobRow] /\ att \in [Attempt -> AttemptRow] /\ Consistent(job, att)
  BY DEF QInv, QTypeOK
<1>5. job'[j] = q /\ (\A i \in Job : i # j => job'[i] = job[i]) /\ Rows(job', att')
  BY <1>1, <1>3, <1>4 DEF Rows
<1>6. Of(att, j) = {}
  BY <1>1, <1>4 DEF Consistent, Unstarted
<1>7. JobOf(att') /\ Running(job', att') /\ Unstarted(job', att')
  <2>1. \A k \in Attempt : att[k].job # j
    BY <1>6 DEF Of
  <2> QED
    BY <1>1, <1>3, <1>4, <1>5, <1>6, <2>1 DEF Consistent, JobOf, Running, Unstarted
<1>8. Budget(job', att')
  <2>1. {att[k].ordinal : k \in Of(att, j)} = {} /\ 1..0 = {}
    BY <1>6
  <2>2. IsFiniteSet({}) /\ Cardinality({}) = 0 /\ 0 < max
    BY <1>2, FS_EmptySet
  <2> QED
    <3> SUFFICES ASSUME NEW i \in Job
                 PROVE  /\ job'[i].state = "queued" => job'[i].tries < job'[i].max
                        /\ job'[i].tries <= job'[i].max
                        /\ {att[k].ordinal : k \in Of(att, i)} = 1..job'[i].tries
                        /\ IsFiniteSet(Of(att, i)) /\ Cardinality(Of(att, i)) = job'[i].tries
      BY <1>1 DEF Budget
    <3>1. CASE i = j
      BY <1>2, <1>3, <1>5, <1>6, <2>1, <2>2, <3>1
    <3>2. CASE i # j
      BY <1>4, <1>5, <3>2 DEF Consistent, Budget
    <3> QED
      BY <3>1, <3>2
<1>9. OneAudit(job')
  <2>1. \A i \in Job : WorkflowOf[j] = Audit /\ WorkflowOf[i] = Audit /\ IdentityOf[i] = IdentityOf[j]
                       => job[i].state = "absent"
    BY <1>1 DEF PriorAudit
  <2> QED
    BY <1>4, <1>5, <2>1 DEF Consistent, OneAudit
<1> QED
  BY <1>5, <1>7, <1>8, <1>9 DEF Consistent

\* Supersession touches only jobs that no attempt belongs to.
LEMMA SupersedeConsistent ==
  ASSUME QInv, NEW S \in SUBSET Job, SupersedeUnstarted(S)
  PROVE  /\ Consistent(job', att')
         /\ \A j \in Job :
              /\ job'[j].token = job[j].token
              /\ job'[j] = job[j] \/ (job[j].state = "queued" /\ job'[j].state = "superseded")
<1>1. /\ job \in [Job -> JobRow] /\ att' = att /\ Consistent(job, att) /\ Rows(job, att)
      /\ job' = [j \in Job |-> IF j \in S
                               THEN [job[j] EXCEPT !.state = "superseded", !.error = "superseded"]
                               ELSE job[j]]
  BY DEF QInv, QTypeOK, SupersedeUnstarted, Consistent
<1>2. \A j \in S : /\ job[j].state = "queued" /\ job[j].tries = 0 /\ job[j].result = None
                   /\ j \in Job
  BY DEF SupersedeUnstarted
<1>3. ASSUME NEW j \in S
      PROVE  Of(att, j) = {} /\ job[j].token = None
  <2>1. IsFiniteSet(Of(att, j)) /\ Cardinality(Of(att, j)) = 0
    BY <1>1, <1>2 DEF Consistent, Budget
  <2>2. Of(att, j) = {}
    BY <2>1, FS_EmptySet
  <2> QED
    BY <1>1, <1>2, <2>2 DEF Consistent, Running
<1>4. ASSUME NEW j \in Job
      PROVE  /\ job'[j] \in JobRow
             /\ job'[j].tries = job[j].tries /\ job'[j].max = job[j].max
             /\ job'[j].token = job[j].token /\ job'[j].result = job[j].result
             /\ IF j \in S THEN job'[j].state = "superseded" ELSE job'[j] = job[j]
  <2>1. CASE j \in S
    <3>1. job'[j] = [job[j] EXCEPT !.state = "superseded", !.error = "superseded"]
      BY <1>1, <2>1
    <3>2. job[j] \in JobRow
      BY <1>1
    <3> QED
      BY <2>1, <3>1, <3>2 DEF JobRow
  <2>2. CASE j \notin S
    BY <1>1, <2>2
  <2> QED
    BY <2>1, <2>2
<1>5. Rows(job', att')
  <2>1. job' \in [Job -> JobRow]
    BY <1>1, <1>4
  <2> QED
    BY <1>1, <2>1 DEF Rows
<1>6. JobOf(att')
  BY <1>1 DEF Consistent
<1>7. Running(job', att')
  <2>1. \A k \in Attempt : att[k].status = "running" => att[k].job \in Job
    BY <1>1 DEF Consistent, JobOf
  <2>2. \A j \in Job : job[j].state = "running" => j \notin S
    BY <1>2
  <2> QED
    BY <1>1, <1>3, <1>4, <2>1, <2>2 DEF Consistent, Running
<1>8. Budget(job', att')
  <2>1. \A j \in Job : job'[j].state = "queued" => job[j].state = "queued"
    BY <1>4
  <2>2. ASSUME NEW j \in Job
        PROVE  /\ job'[j].state = "queued" => job'[j].tries < job'[j].max
               /\ job'[j].tries <= job'[j].max
               /\ {att[k].ordinal : k \in Of(att, j)} = 1..job'[j].tries
               /\ IsFiniteSet(Of(att, j)) /\ Cardinality(Of(att, j)) = job'[j].tries
    <3>1. job'[j].tries = job[j].tries /\ job'[j].max = job[j].max
      BY <1>4
    <3> QED
      BY <1>1, <2>1, <3>1 DEF Consistent, Budget
  <2> QED
    BY <1>1, <2>2 DEF Budget
<1>9. Unstarted(job', att')
  BY <1>1, <1>2, <1>3, <1>4 DEF Consistent, Unstarted
<1>10. OneAudit(job')
  BY <1>1, <1>2, <1>4 DEF Consistent, OneAudit
<1>11. ASSUME NEW j \in Job
       PROVE  /\ job'[j].token = job[j].token
              /\ job'[j] = job[j] \/ (job[j].state = "queued" /\ job'[j].state = "superseded")
  <2>1. CASE j \in S
    BY <1>2, <1>4, <2>1
  <2>2. CASE j \notin S
    BY <1>4, <2>2
  <2> QED
    BY <2>1, <2>2
<1>12. Consistent(job', att')
  BY <1>5, <1>6, <1>7, <1>8, <1>9, <1>10 DEF Consistent
<1> QED
  BY <1>11, <1>12

\* The holder of a live claim: its attempt runs, and its job has been tried.
LEMMA OwnerRuns ==
  ASSUME QInv, NEW w \in Worker, held[w] # None, NEW t, Owns(held[w], t)
  PROVE  LET k == held[w]
             j == att[k].job IN
         /\ k \in Attempt /\ j \in Job /\ job[j].state = "running" /\ job[j].token = k
         /\ att[k].status = "running" /\ job[j].tries \in 1..5
<1> DEFINE k == held[w]
           j == att[k].job
<1>1. k \in Attempt
  BY DEF QInv, QTypeOK
<1>2. j \in Job
  BY <1>1 DEF QInv, HeldIssued, Consistent, JobOf
<1>3. job[j].state = "running" /\ job[j].token = k
  BY DEF Owns
<1>4. att[k].status = "running"
  BY <1>2, <1>3 DEF QInv, Consistent, Running
<1>5. k \in Of(att, j) /\ {att[a].ordinal : a \in Of(att, j)} = 1..job[j].tries
  BY <1>1, <1>2 DEF QInv, Consistent, Budget, Of
<1>6. att[k].ordinal \in 1..job[j].tries /\ job[j].tries \in 0..5
  BY <1>2, <1>5 DEF QInv, QTypeOK, JobRow
<1> QED
  BY <1>1, <1>2, <1>3, <1>4, <1>6

\* A renewal moves the end of the lease, and nothing else.
LEMMA HeartbeatConsistent ==
  ASSUME QInv, NEW w \in Worker, NEW t \in Nat, Heartbeat(w, t)
  PROVE  /\ Consistent(job', att')
         /\ \A j \in Job : /\ job'[j].token = job[j].token /\ job'[j].state = job[j].state
                           /\ job'[j].error = job[j].error /\ job'[j].result = job[j].result
<1> DEFINE k == held[w]
           j == att[k].job
           until == t + LeaseSeconds
           p == [job[j] EXCEPT !.lease = until]
<1>1. k # None /\ Owns(k, t) /\ att' = att /\ job' = [job EXCEPT ![j].lease = until]
  BY DEF Heartbeat
<1>2. j \in Job
  BY <1>1, OwnerRuns
<1>3. until \in Nat
  BY QueueAssumption
<1>4. job \in [Job -> JobRow] /\ job[j] \in JobRow /\ Consistent(job, att) /\ Rows(job, att)
  BY <1>2 DEF QInv, QTypeOK, Consistent
<1>5. job' = [job EXCEPT ![j] = p]
  BY <1>1, <1>4
<1> HIDE DEF until, j
<1>6. /\ p \in JobRow /\ p.state = job[j].state /\ p.tries = job[j].tries /\ p.max = job[j].max
      /\ p.token = job[j].token /\ p.error = job[j].error /\ p.result = job[j].result
  BY <1>3, <1>4 DEF JobRow
<1> HIDE DEF p
<1>7. \A i \in Job :
        /\ job'[i] \in JobRow /\ job'[i].state = job[i].state /\ job'[i].tries = job[i].tries
        /\ job'[i].max = job[i].max /\ job'[i].token = job[i].token
        /\ job'[i].error = job[i].error /\ job'[i].result = job[i].result
  BY <1>2, <1>4, <1>5, <1>6
<1>8. Rows(job', att')
  <2>1. job' \in [Job -> JobRow]
    BY <1>4, <1>5, <1>6
  <2> QED
    BY <1>1, <1>4, <2>1 DEF Rows
<1>9. JobOf(att') /\ Unstarted(job', att') /\ OneAudit(job')
  BY <1>1, <1>4, <1>7 DEF Consistent, Unstarted, OneAudit
<1>10. Running(job', att')
  <2>1. \A a \in Attempt : att[a].status = "running" => att[a].job \in Job
    BY <1>4 DEF Consistent, JobOf
  <2> QED
    BY <1>1, <1>4, <1>7, <2>1 DEF Consistent, Running
<1>11. Budget(job', att')
  BY <1>1, <1>4, <1>7 DEF Consistent, Budget
<1> QED
  BY <1>7, <1>8, <1>9, <1>10, <1>11 DEF Consistent

\* Ending the attempt k of job j, with p as the job's new row and b as the attempt's.
LEMMA EndedConsistent ==
  ASSUME Consistent(job, att), NEW j \in Job, NEW k \in Attempt, att[k].job = j,
         job[j].state = "running" => job[j].token = k,
         NEW p \in JobRow, NEW b \in AttemptRow,
         job' = [job EXCEPT ![j] = p], att' = [att EXCEPT ![k] = b],
         p.state \in Outcome \cup {"queued"}, p.state = "queued" => p.tries < p.max,
         p.tries = job[j].tries, p.max = job[j].max, p.token = None,
         b.status \in Outcome, b.job = j, b.ordinal = att[k].ordinal
  PROVE  /\ Consistent(job', att')
         /\ job'[j] = p /\ \A i \in Job : i # j => job'[i] = job[i]
         /\ \A a \in Attempt : /\ att'[a].status = "absent" <=> att[a].status = "absent"
                               /\ att'[a].job = att[a].job
<1>1. job \in [Job -> JobRow] /\ att \in [Attempt -> AttemptRow] /\ att[k].status # "absent"
  BY QueueAssumption DEF Consistent, Rows, JobOf
<1>2. job'[j] = p /\ \A i \in Job : i # j => job'[i] = job[i]
  BY <1>1
<1>3. att'[k] = b /\ \A a \in Attempt : a # k => att'[a] = att[a]
  BY <1>1
<1>4. Rows(job', att')
  BY <1>1 DEF Rows
<1>5. \A x \in Outcome : x \notin {"absent", "running", "queued", "superseded"}
  BY QueueAssumption
<1>6. \A a \in Attempt : /\ att'[a].job = att[a].job /\ att'[a].ordinal = att[a].ordinal
                         /\ att'[a].status = IF a = k THEN b.status ELSE att[a].status
  BY <1>3
<1>7. JobOf(att')
  BY <1>1, <1>5, <1>6 DEF Consistent, JobOf
<1>8. Running(job', att')
  <2>1. \A a \in Attempt : a # k /\ att[a].status = "running" => att[a].job \in Job /\ att[a].job # j
    BY DEF Consistent, JobOf, Running
  <2>2. \A i \in Job : i # j /\ job[i].state = "running" => job[i].token \in Attempt /\ job[i].token # k
    BY DEF Consistent, Running
  <2>3. \A a \in Attempt : att'[a].status = "running" =>
          job'[att'[a].job].state = "running" /\ job'[att'[a].job].token = a
    BY <1>2, <1>5, <1>6, <2>1 DEF Consistent, Running
  <2>4. p.state # "running"
    BY <1>5
  <2>5. ASSUME NEW i \in Job
        PROVE  IF job'[i].state = "running"
               THEN /\ job'[i].token \in Attempt
                    /\ att'[job'[i].token].status = "running" /\ att'[job'[i].token].job = i
               ELSE job'[i].token = None
    <3>1. CASE i = j
      BY <1>2, <2>4, <3>1
    <3>2. CASE i # j
      BY <1>2, <1>6, <2>2, <3>2 DEF Consistent, Running
    <3> QED
      BY <3>1, <3>2
  <2> QED
    BY <2>3, <2>5 DEF Running
<1>9. \A i \in Job : Of(att', i) = Of(att, i)
  BY <1>6 DEF Of
<1>10. Budget(job', att')
  <2> SUFFICES ASSUME NEW i \in Job
               PROVE  /\ job'[i].state = "queued" => job'[i].tries < job'[i].max
                      /\ job'[i].tries <= job'[i].max
                      /\ {att'[a].ordinal : a \in Of(att', i)} = 1..job'[i].tries
                      /\ IsFiniteSet(Of(att', i)) /\ Cardinality(Of(att', i)) = job'[i].tries
    BY DEF Budget
  <2>1. {att'[a].ordinal : a \in Of(att', i)} = {att[a].ordinal : a \in Of(att, i)}
    BY <1>6, <1>9 DEF Of
  <2>2. /\ job[i].state = "queued" => job[i].tries < job[i].max
        /\ job[i].tries <= job[i].max
        /\ {att[a].ordinal : a \in Of(att, i)} = 1..job[i].tries
        /\ IsFiniteSet(Of(att, i)) /\ Cardinality(Of(att, i)) = job[i].tries
    BY DEF Consistent, Budget
  <2>3. job'[i].tries = job[i].tries /\ job'[i].max = job[i].max
    BY <1>2
  <2>4. job'[i].state = "queued" => job'[i].tries < job'[i].max
    BY <1>2, <2>2
  <2> QED
    BY <1>9, <2>1, <2>2, <2>3, <2>4
<1>11. Unstarted(job', att')
  BY <1>2, <1>5, <1>9 DEF Consistent, Unstarted
<1>12. OneAudit(job')
  <2>1. k \in Of(att, j)
    BY DEF Of
  <2>2. job[j].state # "absent"
    BY <2>1 DEF Consistent, Unstarted
  <2> QED
    BY <1>2, <2>2 DEF Consistent, OneAudit
<1>13. \A a \in Attempt : att'[a].status = "absent" <=> att[a].status = "absent"
  BY <1>1, <1>5, <1>6
<1> QED
  BY <1>2, <1>4, <1>6, <1>7, <1>8, <1>10, <1>11, <1>12, <1>13 DEF Consistent

\* A delivery ends the attempt and its job's lease together; the job is queued
\* again only with an attempt left.
LEMMA FinishConsistent ==
  ASSUME QInv, NEW w \in Worker, NEW o \in Outcome, NEW r \in BOOLEAN, NEW t \in Nat,
         Finish(w, o, r, t)
  PROVE  LET k == held[w]
             j == att[k].job IN
         /\ Consistent(job', att')
         /\ k \in Attempt /\ j \in Job /\ job[j].token = k /\ job[j].state = "running"
         /\ job'[j].token = None /\ job'[j].error = "reported" /\ job'[j].result = k
         /\ job'[j].state \in Outcome \cup {"queued"}
         /\ job'[j].tries = job[j].tries /\ job'[j].max = job[j].max
         /\ \A i \in Job : i # j => job'[i] = job[i]
         /\ \A a \in Attempt : /\ att'[a].status = "absent" <=> att[a].status = "absent"
                               /\ att'[a].job = att[a].job
<1> DEFINE k == held[w]
           j == att[k].job
           q == job[j]
           s == NextState(q, o, r)
           v == t + RetryDelay[q.tries]
           p == [q EXCEPT !.state = s, !.token = None, !.lease = 0, !.avail = v,
                          !.error = "reported", !.result = k]
           b == [att[k] EXCEPT !.status = o]
<1>1. /\ k # None /\ Owns(k, t) /\ job' = [job EXCEPT ![j] = p]
      /\ att' = [att EXCEPT ![k].status = IF att[k].status = "running" THEN o ELSE att[k].status]
  BY DEF Finish
<1>2. /\ k \in Attempt /\ j \in Job /\ q.state = "running" /\ q.token = k
      /\ att[k].status = "running" /\ q.tries \in 1..5
  BY <1>1, OwnerRuns
<1>3. /\ job \in [Job -> JobRow] /\ q \in JobRow /\ Consistent(job, att)
      /\ att \in [Attempt -> AttemptRow] /\ att[k] \in AttemptRow
  BY <1>2 DEF QInv, QTypeOK
<1>4. att' = [att EXCEPT ![k] = b]
  BY <1>1, <1>2, <1>3
<1>5. v \in Nat
  <2>1. RetryDelay[q.tries] \in Nat
    BY <1>2, QueueAssumption
  <2> QED
    BY <2>1
<1>6. s \in Outcome \cup {"queued"} /\ (s = "queued" => q.tries < q.max)
  BY QueueAssumption DEF NextState
<1> HIDE DEF s, v, j, k
<1>7. /\ p \in JobRow /\ p.state = s /\ p.tries = q.tries /\ p.max = q.max /\ p.token = None
      /\ p.error = "reported" /\ p.result = k
  BY <1>2, <1>3, <1>5, <1>6 DEF JobRow
<1>8. b \in AttemptRow /\ b.status = o /\ b.job = att[k].job /\ b.ordinal = att[k].ordinal
  BY <1>3 DEF AttemptRow
<1> HIDE DEF p, b
<1>9. /\ Consistent(job', att')
      /\ job'[j] = p /\ \A i \in Job : i # j => job'[i] = job[i]
      /\ \A a \in Attempt : /\ att'[a].status = "absent" <=> att[a].status = "absent"
                            /\ att'[a].job = att[a].job
  <2>1. att[k].job = j
    BY DEF j
  <2>2. /\ Consistent(job, att) /\ p.state \in Outcome \cup {"queued"}
        /\ p.state = "queued" => p.tries < p.max
        /\ b.status \in Outcome /\ b.job = j /\ b.ordinal = att[k].ordinal
        /\ p \in JobRow /\ b \in AttemptRow
        /\ p.tries = job[j].tries /\ p.max = job[j].max /\ p.token = None
    BY <1>3, <1>6, <1>7, <1>8, <2>1
  <2>3. k \in Attempt /\ j \in Job /\ job[j].token = k /\ job' = [job EXCEPT ![j] = p]
        /\ att' = [att EXCEPT ![k] = b]
    BY <1>1, <1>2, <1>4
  <2> QED
    BY <2>1, <2>2, <2>3, EndedConsistent
<1> QED
  BY <1>2, <1>6, <1>7, <1>9 DEF j, k
-----------------------------------------------------------------------------
(* The invariant. *)

\* The readings of the clock are numbers.
LEMMA ReadingsNat == QTypeOK => Readings \subseteq Nat
BY DEF QTypeOK, Readings

LEMMA InitInv == QInit => QInv
<1> SUFFICES ASSUME QInit PROVE QInv
  OBVIOUS
<1>1. NoJob \in JobRow /\ NoAttempt \in AttemptRow
  BY DEF NoJob, NoAttempt, JobRow, AttemptRow
<1>2. /\ NoJob.state = "absent" /\ NoJob.tries = 0 /\ NoJob.max = 1 /\ NoJob.token = None
      /\ NoJob.result = None /\ NoAttempt.status = "absent" /\ NoAttempt.job = None
  BY DEF NoJob, NoAttempt
<1> HIDE DEF NoJob, NoAttempt
<1>3. QTypeOK
  BY <1>1 DEF QInit, QTypeOK
<1>4. (\A j \in Job : job[j] = NoJob) /\ \A k \in Attempt : att[k] = NoAttempt
  BY DEF QInit
<1>5. \A j \in Job : Of(att, j) = {}
  BY <1>2, <1>4, QueueAssumption DEF Of
<1>6. Rows(job, att) /\ JobOf(att) /\ Running(job, att) /\ Unstarted(job, att) /\ OneAudit(job)
  BY <1>2, <1>3, <1>4, <1>5 DEF QTypeOK, Rows, JobOf, Running, Unstarted, OneAudit
<1>7. Budget(job, att)
  <2>1. IsFiniteSet({}) /\ Cardinality({}) = 0 /\ 1..0 = {}
    BY FS_EmptySet
  <2>2. \A j \in Job : {att[k].ordinal : k \in Of(att, j)} = {}
    BY <1>5
  <2> QED
    BY <1>2, <1>4, <1>5, <2>1, <2>2 DEF Budget
<1>8. HeldIssued
  BY DEF QInit, HeldIssued
<1> QED
  BY <1>3, <1>6, <1>7, <1>8 DEF QInv, Consistent

\* The step of a claim that finds a job, in terms of the swept tables.
LEMMA ClaimConsistent ==
  ASSUME QInv, NEW w \in Worker, NEW ask, NEW j \in Job, NEW k \in Attempt, NEW t \in Nat,
         ClaimJob(w, ask, j, k, t)
  PROVE  LET J == SweptJobs(t)
             A == SweptAttempts(t) IN
         /\ Consistent(job', att')
         /\ J[j].state = "queued" /\ att[k].status = "absent"
         /\ job'[j].state = "running" /\ job'[j].token = k
         /\ \A i \in Job : i # j => job'[i] = J[i]
         /\ att'[k].status = "running" /\ \A a \in Attempt : a # k => att'[a] = A[a]
<1> DEFINE J == SweptJobs(t)
           A == SweptAttempts(t)
           until == t + LeaseSeconds
<1>1. Consistent(J, A)
  BY SweptConsistent DEF QInv
<1>2. att[k].status = "absent" /\ J[j].state = "queued"
  BY DEF ClaimJob, First, Claimable
<1>3. A[k].status = "absent"
  BY <1>2, SweptRows DEF QInv
<1>4. job' = JobsOut(J, j, k, until) /\ att' = AttemptsOut(J, A, j, k)
  BY DEF ClaimJob, JobsOut, AttemptsOut
<1>5. until \in Nat
  BY QueueAssumption
<1> HIDE DEF J, A, until
<1> QED
  BY <1>1, <1>2, <1>3, <1>4, <1>5, HandedOutConsistent DEF J, A

\* The same step, as far as it counts tries.
LEMMA ClaimCounts ==
  ASSUME QInv, NEW w \in Worker, NEW ask, NEW j \in Job, NEW k \in Attempt, NEW t \in Nat,
         ClaimJob(w, ask, j, k, t)
  PROVE  /\ job'[j].tries = job[j].tries + 1 /\ job'[j].max = job[j].max
         /\ job[j].tries < job[j].max /\ att'[k].job = j
<1> DEFINE J == SweptJobs(t)
           A == SweptAttempts(t)
           until == t + LeaseSeconds
<1>1. Consistent(J, A)
  BY SweptConsistent DEF QInv
<1>2. att[k].status = "absent" /\ J[j].state = "queued" /\ J[j].tries < J[j].max
  BY DEF ClaimJob, First, Claimable
<1>3. A[k].status = "absent" /\ J[j].tries = job[j].tries /\ J[j].max = job[j].max
  BY <1>2, SweptRows DEF QInv
<1>4. job' = JobsOut(J, j, k, until) /\ att' = AttemptsOut(J, A, j, k)
  BY DEF ClaimJob, JobsOut, AttemptsOut
<1>5. until \in Nat
  BY QueueAssumption
<1> HIDE DEF J, A, until
<1>6. /\ job'[j].tries = J[j].tries + 1 /\ job'[j].max = J[j].max
      /\ att'[k].job = j
  BY <1>1, <1>2, <1>3, <1>4, <1>5, HandedOutConsistent
<1> QED
  BY <1>2, <1>3, <1>6

\* The sweep invents no attempt and loses none.
LEMMA SweptStatus ==
  ASSUME QInv, NEW t, NEW k \in Attempt
  PROVE  SweptAttempts(t)[k].status = "absent" <=> att[k].status = "absent"
BY SweptRows DEF QInv

\* A step that leaves the tables alone.
LEMMA SameTables ==
  ASSUME Consistent(job, att), job' = job, att' = att
  PROVE  Consistent(job', att')
OBVIOUS

LEMMA NextInv == QInv /\ [QNext]_qvars => QInv'
<1> SUFFICES ASSUME QInv, [QNext]_qvars PROVE QInv'
  OBVIOUS
<1>1. QTypeOK /\ Consistent(job, att) /\ HeldIssued /\ Readings \subseteq Nat
  BY ReadingsNat DEF QInv
<1> DEFINE Rest == /\ now' \in Nat /\ hold' \in BOOLEAN /\ cleared' \in SUBSET Worker
                   /\ held' \in [Worker -> Attempt \cup {None}]
<1>2. ASSUME Consistent(job', att'), Rest, HeldIssued' PROVE QInv'
  BY <1>2 DEF QInv, QTypeOK, Consistent, Rows
<1>3. ASSUME job' = job, att' = att, Rest, \A w \in Worker : held'[w] \in {None, held[w]}
      PROVE  QInv'
  <2>1. Consistent(job', att')
    BY <1>1, <1>3
  <2>2. HeldIssued'
    BY <1>1, <1>3 DEF HeldIssued
  <2> QED
    BY <1>2, <1>3, <2>1, <2>2
<1>4. ASSUME NEW w \in Worker, PassGate(w) \/ Crash(w) \/ (\E t \in Readings : LoseLease(w, t))
      PROVE  QInv'
  <2>1. job' = job /\ att' = att /\ Rest /\ \A x \in Worker : held'[x] \in {None, held[x]}
    BY <1>1, <1>4 DEF QTypeOK, PassGate, Crash, LoseLease
  <2> QED
    BY <1>3, <2>1
<1>5. ASSUME Hold \/ Resume \/ Tick \/ UNCHANGED qvars PROVE QInv'
  <2>1. job' = job /\ att' = att /\ Rest /\ \A x \in Worker : held'[x] \in {None, held[x]}
    <3>1. now' \in Nat
      BY <1>1, <1>5 DEF QTypeOK, Hold, Resume, Tick, qvars
    <3>2. hold' \in BOOLEAN
      BY <1>1, <1>5 DEF QTypeOK, Hold, Resume, Tick, qvars
    <3>3. job' = job /\ att' = att /\ cleared' = cleared /\ held' = held
      BY <1>5 DEF Hold, Resume, Tick, qvars
    <3> QED
      BY <1>1, <3>1, <3>2, <3>3 DEF QTypeOK
  <2> QED
    BY <1>3, <2>1
<1>6. ASSUME NEW w \in Worker, NEW j \in Job, NEW max \in Budgets, NEW t \in Readings,
             Enqueue(w, j, max, t)
      PROVE  QInv'
  <2>1. Rest /\ att' = att /\ held' = held
    BY <1>1, <1>6 DEF QTypeOK, Enqueue
  <2>2. Consistent(job', att')
    BY <1>1, <1>6, <2>1, EnqueueConsistent
  <2>3. HeldIssued'
    BY <1>1, <2>1 DEF HeldIssued
  <2> QED
    BY <1>2, <2>1, <2>2, <2>3
<1>7. ASSUME NEW S \in SUBSET Job, SupersedeUnstarted(S) PROVE QInv'
  <2>1. Rest /\ att' = att /\ held' = held
    BY <1>1, <1>7 DEF QTypeOK, SupersedeUnstarted
  <2>2. Consistent(job', att')
    BY <1>7, SupersedeConsistent
  <2>3. HeldIssued'
    BY <1>1, <2>1 DEF HeldIssued
  <2> QED
    BY <1>2, <2>1, <2>2, <2>3
<1>8. ASSUME NEW w \in Worker, NEW ask, NEW t \in Readings, ClaimNothing(w, ask, t) PROVE QInv'
  <2>1. /\ Rest /\ held' = held /\ job' = SweptJobs(t) /\ att' = SweptAttempts(t)
    BY <1>1, <1>8 DEF QTypeOK, ClaimNothing
  <2>2. Consistent(job', att')
    BY <1>1, <2>1, SweptConsistent
  <2>3. HeldIssued'
    <3>1. \A x \in Worker : held[x] # None => held[x] \in Attempt
      BY <1>1 DEF QTypeOK
    <3> QED
      BY <1>1, <2>1, <3>1, SweptStatus DEF HeldIssued
  <2> QED
    BY <1>2, <2>1, <2>2, <2>3
<1>9. ASSUME NEW w \in Worker, NEW ask, NEW j \in Job, NEW k \in Attempt, NEW t \in Readings,
             ClaimJob(w, ask, j, k, t)
      PROVE  QInv'
  <2>1. Rest /\ held' = [held EXCEPT ![w] = k] /\ held \in [Worker -> Attempt \cup {None}]
    BY <1>1, <1>9 DEF QTypeOK, ClaimJob
  <2>2. /\ Consistent(job', att') /\ att'[k].status = "running"
        /\ \A a \in Attempt : a # k => att'[a] = SweptAttempts(t)[a]
    BY <1>1, <1>9, ClaimConsistent
  <2>3. \A a \in Attempt : a # k => (att'[a].status = "absent" <=> att[a].status = "absent")
    BY <2>2, SweptStatus
  <2>4. HeldIssued'
    BY <1>1, <2>1, <2>2, <2>3 DEF HeldIssued
  <2> QED
    BY <1>2, <2>1, <2>2, <2>4
<1>10. ASSUME NEW w \in Worker, NEW t \in Readings, Heartbeat(w, t) PROVE QInv'
  <2>1. Rest /\ att' = att /\ held' = held
    BY <1>1, <1>10 DEF QTypeOK, Heartbeat
  <2>2. Consistent(job', att')
    BY <1>1, <1>10, HeartbeatConsistent
  <2>3. HeldIssued'
    BY <1>1, <2>1 DEF HeldIssued
  <2> QED
    BY <1>2, <2>1, <2>2, <2>3
<1>11. ASSUME NEW w \in Worker, NEW o \in Outcome, NEW r \in BOOLEAN, NEW t \in Readings,
              Finish(w, o, r, t)
       PROVE  QInv'
  <2>1. Rest /\ held' = [held EXCEPT ![w] = None] /\ held \in [Worker -> Attempt \cup {None}]
    BY <1>1, <1>11 DEF QTypeOK, Finish
  <2>2. /\ Consistent(job', att')
        /\ \A a \in Attempt : att'[a].status = "absent" <=> att[a].status = "absent"
    BY <1>1, <1>11, FinishConsistent
  <2>3. HeldIssued'
    BY <1>1, <2>1, <2>2 DEF HeldIssued
  <2> QED
    BY <1>2, <2>1, <2>2, <2>3
<1> QED
  BY <1>4, <1>5, <1>6, <1>7, <1>8, <1>9, <1>10, <1>11
     DEF QNext, WorkerNext, ClaimNext, Deliver

\* Every reachable state satisfies the invariant.
LEMMA QInvAlways == QSpec => []QInv
BY InitInv, NextInv, PTL DEF QSpec

\* The jobs and attempts tables always agree: an attempt runs exactly while its
\* job runs under its token, budgets are kept and ordinals never repeat, a
\* superseded job was never started, and an audit identity is queued once.
THEOREM QueueStaysConsistent == QSpec => []QueueConsistent
<1>1. ASSUME QInv PROVE QueueConsistent
  <2>1. QTypeOK /\ Consistent(job, att)
    BY <1>1 DEF QInv
  <2>2. RunningIsCurrent
    <3>1. \A k \in Attempt : att[k].status = "running" => att[k].job \in Job
      BY <2>1 DEF Consistent, JobOf
    <3> QED
      BY <2>1, <3>1, QueueAssumption DEF Consistent, Running, RunningIsCurrent
  <2>3. BudgetKept
    BY <2>1 DEF Consistent, Budget, BudgetKept, Of
  <2>4. SupersededUnstarted
    BY <2>1 DEF Consistent, Unstarted, SupersededUnstarted, Of
  <2>5. OneAuditPerIdentity
    BY <2>1 DEF Consistent, OneAudit, OneAuditPerIdentity
  <2> QED
    BY <2>1, <2>2, <2>3, <2>4, <2>5 DEF QueueConsistent
<1> QED
  BY <1>1, QInvAlways, PTL
-----------------------------------------------------------------------------
(* The queue implements the exclusive lease. *)

HolderOf(J) == [j \in Job |-> J[j].token]
Settled(row) == IF row.state \in Outcome /\ row.error = "reported" THEN row.result ELSE None
ResultOf(J) == [j \in Job |-> Settled(J[j])]
IssuedOf(A) == {k \in Attempt : A[k].status # "absent"}

\* The refinement mapping, by names.
LEMMA LeaseMapping ==
  /\ Lease!Init <=> /\ HolderOf(job) = [j \in Job |-> None] /\ ResultOf(job) = [j \in Job |-> None]
                    /\ IssuedOf(att) = {}
  /\ \A S : Lease!Released(S) = [j \in Job |-> IF j \in S THEN None ELSE HolderOf(job)[j]]
  /\ \A S : Lease!Release(S) <=>
              /\ HolderOf(job') = Lease!Released(S)
              /\ ResultOf(job') = ResultOf(job) /\ IssuedOf(att') = IssuedOf(att)
  /\ \A S, j, k : Lease!Acquire(S, j, k) <=>
              /\ Lease!Released(S)[j] = None /\ ResultOf(job)[j] = None /\ k \notin IssuedOf(att)
              /\ HolderOf(job') = [Lease!Released(S) EXCEPT ![j] = k]
              /\ IssuedOf(att') = IssuedOf(att) \cup {k} /\ ResultOf(job') = ResultOf(job)
  /\ \A S, j : Lease!Accept(S, j) <=>
              /\ j \notin S /\ HolderOf(job)[j] # None /\ ResultOf(job)[j] = None
              /\ ResultOf(job') = [ResultOf(job) EXCEPT ![j] = HolderOf(job)[j]]
              /\ HolderOf(job') = Lease!Released(S \cup {j}) /\ IssuedOf(att') = IssuedOf(att)
BY DEF Lease!Init, Lease!Released, Lease!Release, Lease!Acquire, Lease!Accept,
       HolderOf, ResultOf, Settled, IssuedOf, SettledBy

\* Leases that end without a result, no new attempt: a release.
LEMMA ReleaseStep ==
  ASSUME NEW S \in SUBSET Job,
         \A j \in Job : job'[j].token = IF j \in S THEN None ELSE job[j].token,
         \A j \in Job : Settled(job'[j]) = Settled(job[j]),
         \A k \in Attempt : att'[k].status = "absent" <=> att[k].status = "absent"
  PROVE  Lease!Next
<1>1. HolderOf(job') = [j \in Job |-> IF j \in S THEN None ELSE HolderOf(job)[j]]
  BY DEF HolderOf
<1>2. ResultOf(job') = ResultOf(job)
  BY DEF ResultOf
<1>3. IssuedOf(att') = IssuedOf(att)
  BY DEF IssuedOf
<1>4. Lease!Release(S)
  BY <1>1, <1>2, <1>3, LeaseMapping
<1> QED
  BY <1>4 DEF Lease!Next

\* A job that is not over has no result.
LEMMA NotSettled ==
  ASSUME NEW row, row.state \in {"absent", "queued", "running", "superseded"}
  PROVE  Settled(row) = None
BY QueueAssumption DEF Settled

\* The sweep releases the expired leases and settles nothing.
LEMMA SweptLease ==
  ASSUME QInv, NEW t, NEW j \in Job
  PROVE  /\ SweptJobs(t)[j].token = IF j \in Expired(t) THEN None ELSE job[j].token
         /\ Settled(SweptJobs(t)[j]) = Settled(job[j])
<1>1. /\ Consistent(job, att)
      /\ IF j \in Expired(t)
         THEN /\ SweptJobs(t)[j].token = None /\ job[j].state = "running"
              /\ SweptJobs(t)[j].error = "lease_expired"
         ELSE SweptJobs(t)[j] = job[j]
  BY SweptRows DEF QInv
<1>2. CASE j \in Expired(t)
  <2>1. Settled(job[j]) = None /\ Settled(SweptJobs(t)[j]) = None
    BY <1>1, <1>2, NotSettled DEF Settled
  <2> QED
    BY <1>1, <1>2, <2>1
<1>3. CASE j \notin Expired(t)
  BY <1>1, <1>3
<1> QED
  BY <1>2, <1>3

\* A claim that finds a job acquires it, after the leases its sweep ended.
LEMMA ClaimAcquires ==
  ASSUME QInv, NEW w \in Worker, NEW ask, NEW j \in Job, NEW k \in Attempt, NEW t \in Nat,
         ClaimJob(w, ask, j, k, t)
  PROVE  Lease!Next
<1> DEFINE J == SweptJobs(t)
           A == SweptAttempts(t)
<1>1. /\ J[j].state = "queued" /\ att[k].status = "absent"
      /\ job'[j].state = "running" /\ job'[j].token = k
      /\ \A i \in Job : i # j => job'[i] = J[i]
      /\ att'[k].status = "running" /\ \A a \in Attempt : a # k => att'[a] = A[a]
  BY ClaimConsistent
<1>2. PICK S \in SUBSET Job : S = Expired(t)
  BY DEF Expired
<1>3. \A i \in Job : /\ J[i].token = IF i \in S THEN None ELSE job[i].token
                     /\ Settled(J[i]) = Settled(job[i])
  BY <1>2, SweptLease
<1>4. \A a \in Attempt : A[a].status = "absent" <=> att[a].status = "absent"
  BY SweptStatus
<1>5. J[j].token = None
  BY <1>1, SweptConsistent DEF QInv, Consistent, Running
<1> HIDE DEF J, A
<1>6. Lease!Released(S) = HolderOf(J)
  <2>1. [i \in Job |-> IF i \in S THEN None ELSE HolderOf(job)[i]] = HolderOf(J)
    BY <1>3 DEF HolderOf
  <2> QED
    BY <2>1, LeaseMapping
<1>7. Settled(job[j]) = None /\ Settled(job'[j]) = None
  BY <1>1, <1>3, NotSettled
<1>8. ResultOf(job') = ResultOf(job)
  <2>1. \A i \in Job : Settled(job'[i]) = Settled(job[i])
    BY <1>1, <1>3, <1>7
  <2> QED
    BY <2>1 DEF ResultOf
<1>9. HolderOf(job') = [HolderOf(J) EXCEPT ![j] = k] /\ HolderOf(J)[j] = None
  BY <1>1, <1>5 DEF HolderOf
<1>10. IssuedOf(att') = IssuedOf(att) \cup {k} /\ k \notin IssuedOf(att)
  BY <1>1, <1>4 DEF IssuedOf
<1>11. ResultOf(job)[j] = None
  BY <1>7 DEF ResultOf
<1>12. Lease!Acquire(S, j, k)
  BY <1>6, <1>8, <1>9, <1>10, <1>11, LeaseMapping
<1> QED
  BY <1>12 DEF Lease!Next

\* A delivery is the acceptance of the holder's result, or it ends the lease
\* of a job that is tried again.
LEMMA FinishAccepts ==
  ASSUME QInv, NEW w \in Worker, NEW o \in Outcome, NEW r \in BOOLEAN, NEW t \in Nat,
         Finish(w, o, r, t)
  PROVE  Lease!Next
<1> DEFINE h == held[w]
<1>1. PICK k \in Attempt : k = h
  BY FinishConsistent
<1>2. PICK j \in Job : j = att[k].job
  BY <1>1, FinishConsistent
<1>3. /\ job[j].token = k /\ job[j].state = "running"
      /\ job'[j].token = None /\ job'[j].error = "reported" /\ job'[j].result = k
      /\ job'[j].state \in Outcome \cup {"queued"}
      /\ \A i \in Job : i # j => job'[i] = job[i]
      /\ \A a \in Attempt : att'[a].status = "absent" <=> att[a].status = "absent"
  BY <1>1, <1>2, FinishConsistent
<1>4. Settled(job[j]) = None /\ k # None
  BY <1>3, NotSettled, QueueAssumption
<1>5. CASE job'[j].state \in Outcome
  <2>1. Settled(job'[j]) = k
    BY <1>3, <1>5 DEF Settled
  <2>2. HolderOf(job)[j] = k /\ ResultOf(job)[j] = None
    BY <1>3, <1>4 DEF HolderOf, ResultOf
  <2>3. ResultOf(job') = [ResultOf(job) EXCEPT ![j] = k]
    <3>1. \A i \in Job : Settled(job'[i]) = IF i = j THEN k ELSE Settled(job[i])
      BY <1>3, <2>1
    <3> QED
      BY <3>1 DEF ResultOf
  <2>4. PICK S \in SUBSET Job : S = {}
    OBVIOUS
  <2>5. HolderOf(job') = [i \in Job |-> IF i \in S \cup {j} THEN None ELSE HolderOf(job)[i]]
    BY <1>3, <2>4 DEF HolderOf
  <2>6. IssuedOf(att') = IssuedOf(att)
    BY <1>3 DEF IssuedOf
  <2>7. HolderOf(job') = Lease!Released(S \cup {j})
    BY <2>5, LeaseMapping
  <2>8. /\ j \notin S /\ HolderOf(job)[j] # None
        /\ ResultOf(job') = [ResultOf(job) EXCEPT ![j] = HolderOf(job)[j]]
    BY <1>4, <2>2, <2>3, <2>4
  <2>9. Lease!Accept(S, j)
    <3>1. Lease!Accept(S, j) <=>
            /\ j \notin S /\ HolderOf(job)[j] # None /\ ResultOf(job)[j] = None
            /\ ResultOf(job') = [ResultOf(job) EXCEPT ![j] = HolderOf(job)[j]]
            /\ HolderOf(job') = Lease!Released(S \cup {j}) /\ IssuedOf(att') = IssuedOf(att)
      BY LeaseMapping
    <3> QED
      BY <2>2, <2>6, <2>7, <2>8, <3>1
  <2> QED
    BY <2>9 DEF Lease!Next
<1>6. CASE job'[j].state = "queued"
  <2>1. Settled(job'[j]) = None
    BY <1>6, NotSettled
  <2>2. \A i \in Job : Settled(job'[i]) = Settled(job[i])
    BY <1>3, <1>4, <2>1
  <2>3. PICK S \in SUBSET Job : S = {j}
    OBVIOUS
  <2>4. \A i \in Job : job'[i].token = IF i \in S THEN None ELSE job[i].token
    BY <1>3, <2>3
  <2> QED
    BY <1>3, <2>2, <2>4, ReleaseStep
<1> QED
  BY <1>3, <1>5, <1>6

\* Submission, supersession and renewal move no lease and settle nothing.
LEMMA OtherWrites ==
  ASSUME QInv, att' = att,
         \A j \in Job : \/ job'[j] = job[j]
                        \/ /\ job'[j].token = job[j].token
                           /\ Settled(job'[j]) = Settled(job[j])
  PROVE  Lease!Next
<1>1. PICK S \in SUBSET Job : S = {}
  OBVIOUS
<1>2. \A j \in Job : /\ job'[j].token = IF j \in S THEN None ELSE job[j].token
                     /\ Settled(job'[j]) = Settled(job[j])
  BY <1>1
<1> QED
  BY <1>2, ReleaseStep

\* The NER queue implements the exclusive lease: at most one holder and one
\* accepted result per job, for every number of jobs, workers and attempts,
\* every budget, and clock readings as old as Lag allows.
THEOREM QueueRefinesLease == QSpec => QueueIsLease
<1>1. QInit => Lease!Init
  <2> SUFFICES ASSUME QInit PROVE Lease!Init
    OBVIOUS
  <2>1. /\ \A j \in Job : job[j].token = None /\ job[j].state = "absent"
        /\ \A k \in Attempt : att[k].status = "absent"
    BY DEF QInit, NoJob, NoAttempt
  <2>2. \A j \in Job : Settled(job[j]) = None
    BY <2>1, NotSettled
  <2>3. HolderOf(job) = [j \in Job |-> None] /\ ResultOf(job) = [j \in Job |-> None] /\ IssuedOf(att) = {}
    BY <2>1, <2>2 DEF HolderOf, ResultOf, IssuedOf
  <2> QED
    BY <2>3, LeaseMapping
<1>2. QInv /\ [QNext]_qvars => [Lease!Next]_(Lease!lvars)
  <2> SUFFICES ASSUME QInv, [QNext]_qvars PROVE Lease!Next
    OBVIOUS
  <2>1. Readings \subseteq Nat
    BY ReadingsNat DEF QInv
  <2>2. ASSUME job' = job, att' = att PROVE Lease!Next
    BY <2>2, OtherWrites
  <2>3. ASSUME NEW w \in Worker, PassGate(w) \/ Crash(w) \/ (\E t \in Readings : LoseLease(w, t))
        PROVE  Lease!Next
    BY <2>2, <2>3 DEF PassGate, Crash, LoseLease
  <2>4. ASSUME Hold \/ Resume \/ Tick \/ UNCHANGED qvars PROVE Lease!Next
    BY <2>2, <2>4 DEF Hold, Resume, Tick, qvars
  <2>5. ASSUME NEW w \in Worker, NEW j \in Job, NEW max \in Budgets, NEW t \in Readings,
               Enqueue(w, j, max, t)
        PROVE  Lease!Next
    <3>1. CASE job' = job
      BY <2>2, <2>5, <3>1 DEF Enqueue
    <3>2. CASE job' # job
      <4>1. /\ job[j].state = "absent" /\ att' = att
            /\ job' = [job EXCEPT ![j] = [NoJob EXCEPT !.state = "queued", !.max = max, !.created = t]]
        BY <2>5, <3>2 DEF Enqueue
      <4>2. job \in [Job -> JobRow] /\ job[j].token = None
        BY <4>1 DEF QInv, QTypeOK, Consistent, Running
      <4>3. job'[j].state = "queued" /\ job'[j].token = None
        BY <4>1, <4>2 DEF NoJob
      <4>4. \A i \in Job : i # j => job'[i] = job[i]
        BY <4>1, <4>2
      <4>5. Settled(job'[j]) = None /\ Settled(job[j]) = None
        <5>1. job'[j].state \in {"absent", "queued", "running", "superseded"}
          BY <4>3
        <5>2. job[j].state \in {"absent", "queued", "running", "superseded"}
          BY <4>1
        <5> QED
          BY <5>1, <5>2, NotSettled
      <4> QED
        BY <4>1, <4>2, <4>3, <4>4, <4>5, OtherWrites
    <3> QED
      BY <3>1, <3>2
  <2>6. ASSUME NEW S \in SUBSET Job, SupersedeUnstarted(S) PROVE Lease!Next
    <3>1. \A j \in Job :
            /\ job'[j].token = job[j].token
            /\ job'[j] = job[j] \/ (job[j].state = "queued" /\ job'[j].state = "superseded")
      BY <2>6, SupersedeConsistent
    <3>2. \A j \in Job : job'[j] = job[j] \/ Settled(job'[j]) = Settled(job[j])
      BY <3>1, NotSettled
    <3>3. att' = att
      BY <2>6 DEF SupersedeUnstarted
    <3> QED
      BY <3>1, <3>2, <3>3, OtherWrites
  <2>7. ASSUME NEW w \in Worker, NEW t \in Readings, Heartbeat(w, t) PROVE Lease!Next
    <3>1. \A j \in Job : /\ job'[j].token = job[j].token /\ job'[j].state = job[j].state
                         /\ job'[j].error = job[j].error /\ job'[j].result = job[j].result
      BY <2>1, <2>7, HeartbeatConsistent
    <3>2. att' = att
      BY <2>7 DEF Heartbeat
    <3>3. \A j \in Job : Settled(job'[j]) = Settled(job[j])
      BY <3>1 DEF Settled
    <3> QED
      BY <3>1, <3>2, <3>3, OtherWrites
  <2>8. ASSUME NEW w \in Worker, NEW ask, NEW t \in Readings, ClaimNothing(w, ask, t)
        PROVE  Lease!Next
    <3>1. job' = SweptJobs(t) /\ att' = SweptAttempts(t)
      BY <2>8 DEF ClaimNothing
    <3>2. PICK S \in SUBSET Job : S = Expired(t)
      BY DEF Expired
    <3>3. \A j \in Job : /\ job'[j].token = IF j \in S THEN None ELSE job[j].token
                         /\ Settled(job'[j]) = Settled(job[j])
      BY <3>1, <3>2, SweptLease
    <3>4. \A k \in Attempt : att'[k].status = "absent" <=> att[k].status = "absent"
      BY <3>1, SweptStatus
    <3> QED
      BY <3>3, <3>4, ReleaseStep
  <2>9. ASSUME NEW w \in Worker, NEW ask, NEW j \in Job, NEW k \in Attempt, NEW t \in Readings,
               ClaimJob(w, ask, j, k, t)
        PROVE  Lease!Next
    BY <2>1, <2>9, ClaimAcquires
  <2>10. ASSUME NEW w \in Worker, NEW o \in Outcome, NEW r \in BOOLEAN, NEW t \in Readings,
                Finish(w, o, r, t)
         PROVE  Lease!Next
    BY <2>1, <2>10, FinishAccepts
  <2> QED
    BY <2>3, <2>4, <2>5, <2>6, <2>7, <2>8, <2>9, <2>10
       DEF QNext, WorkerNext, ClaimNext, Deliver
<1> QED
  BY <1>1, <1>2, QInvAlways, PTL DEF QSpec, QueueIsLease, Lease!Spec
=============================================================================
