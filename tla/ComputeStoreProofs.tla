------------------------- MODULE ComputeStoreProofs -------------------------
(***************************************************************************)
(* What ComputeStore guarantees for every set of jobs, nodes and attempts, *)
(* every limit and every movement of the clock inside a transaction.       *)
(*                                                                         *)
(* The inductive invariant relates the tables to each other: Linked says   *)
(* which attempt a job points at, and what the status of one row implies   *)
(* for the other.  It is stated of a pair of tables J, A, since every      *)
(* operation first reconciles the stored tables and then changes the       *)
(* reconciled ones: ReconciledLinked carries it over the first half, one   *)
(* lemma per action over the second.                                       *)
(*                                                                         *)
(* What becomes of jobs and attempts follows from two summaries of a step. *)
(* HandsNothingOut says what any operation but a successful claim may do   *)
(* to each row of the two tables, _reconcile included; ClaimStep says what *)
(* a claim does to the reconciled tables.  Every step from a state of IInv *)
(* is one or the other (StepCases), so each property is proved in two      *)
(* steps, not in fifteen.                                                  *)
(***************************************************************************)
EXTENDS ComputeStore, FiniteSumProofs, TLAPS

Rows(J, A) == J \in [Job -> JobRow] /\ A \in [Attempt -> AttemptRow]

\* A job that was admitted keeps its specification.
SpecKept(J) == \A j \in Job : J[j].status # "absent" => J[j].spec \in JobSpecs

\* The current attempt of a job is an attempt of that job, and a job that is
\* leased, lost or returned has one.
CurrentKept(J, A) ==
  \A j \in Job :
    /\ J[j].current # None => A[J[j].current].status # "absent" /\ A[J[j].current].job = j
    /\ J[j].status \in {"leased", "lost", "returned"} => J[j].current # None

\* An attempt belongs to an admitted job.
JobOfAttempt(J, A) ==
  \A a \in Attempt :
    /\ A[a].status # "absent" => A[a].job \in Job /\ J[A[a].job].status # "absent"
    /\ A[a].status = "absent" => A[a].job = None

\* Exactly the returned and the quarantined attempts have a receipt.
Receipted(A, R) ==
  \A a \in Attempt : R[a] # None <=> A[a].status \in {"returned", "quarantined"}

\* An active attempt is current and holds its job's present fence.
Holding(J, A) ==
  \A a \in Attempt : A[a].status \in ActiveStates =>
    /\ J[A[a].job].status = "leased"
    /\ J[A[a].job].current = a /\ J[A[a].job].fence = A[a].fence

\* An accepted result and a returned job belong together.
Accepted(J, A) ==
  /\ \A a \in Attempt : A[a].status = "returned" =>
       J[A[a].job].status = "returned" /\ J[A[a].job].current = a
  /\ \A j \in Job : J[j].status = "returned" => A[J[j].current].status = "returned"

Linked(J, A, R) ==
  /\ SpecKept(J) /\ CurrentKept(J, A) /\ JobOfAttempt(J, A)
  /\ Receipted(A, R) /\ Holding(J, A) /\ Accepted(J, A)
-----------------------------------------------------------------------------
(* What the updates of one row keep and change. *)

\* A change of status leaves the other columns of a job alone.
LEMMA WithStatusJob ==
  ASSUME NEW q \in JobRow, NEW st \in JobStates
  PROVE  LET p == WithStatus(q, st) IN
         /\ p \in JobRow
         /\ p.status = st /\ p.fence = q.fence
         /\ p.spec = q.spec /\ p.count = q.count /\ p.current = q.current
BY DEF JobRow, WithStatus

\* Superseding a job raises its fence and keeps its specification and attempt.
LEMMA SupersededJob ==
  ASSUME NEW q \in JobRow, NEW st \in JobStates
  PROVE  LET p == Superseded(q, st) IN
         /\ p \in JobRow
         /\ p.status = st /\ p.fence = q.fence + 1
         /\ p.spec = q.spec /\ p.count = q.count /\ p.current = q.current
<1>1. \A f \in Nat : [q EXCEPT !.status = st, !.fence = f] \in JobRow
  BY DEF JobRow
<1>2. q.fence + 1 \in Nat
  BY DEF JobRow
<1>3. Superseded(q, st) = [q EXCEPT !.status = st, !.fence = q.fence + 1]
  BY DEF Superseded, JobRow
<1>4. Superseded(q, st) \in JobRow
  BY <1>1, <1>2, <1>3
<1> QED
  BY <1>4 DEF JobRow, Superseded

\* Handing a job out gives it a new fence, one more attempt and that attempt.
LEMMA HandedOutJob ==
  ASSUME NEW q \in JobRow, NEW a \in Attempt
  PROVE  LET p == HandedOut(q, a) IN
         /\ p \in JobRow
         /\ p.status = "leased" /\ p.fence = q.fence + 1
         /\ p.spec = q.spec /\ p.count = q.count + 1 /\ p.current = a
<1> DEFINE d == Superseded(q, "leased")
<1>1. /\ d \in JobRow /\ d.status = "leased" /\ d.fence = q.fence + 1
      /\ d.spec = q.spec /\ d.count = q.count
  BY SupersededJob DEF JobStates
<1>2. HandedOut(q, a) = [d EXCEPT !.count = d.count + 1, !.current = a]
  BY DEF HandedOut
<1> HIDE DEF d
<1>3. \A c \in Nat : [d EXCEPT !.count = c, !.current = a] \in JobRow
  BY <1>1 DEF JobRow
<1>4. d.count + 1 \in Nat
  BY <1>1 DEF JobRow
<1>5. HandedOut(q, a) \in JobRow
  BY <1>2, <1>3, <1>4
<1> QED
  BY <1>1, <1>2, <1>5 DEF JobRow

\* No update of an attempt changes its job, its node or its fence.
LEMMA AttemptUpdates ==
  ASSUME NEW q \in AttemptRow, NEW st \in AttemptStates, NEW u \in Nat,
         NEW why \in {"none", "lease_expired", "reported"},
         NEW p \in {WithStatus(q, st), Ended(q, st, why), Renewed(q, st, u)}
  PROVE  /\ p \in AttemptRow
         /\ p.status = st /\ p.job = q.job /\ p.node = q.node /\ p.fence = q.fence
         /\ p.started = q.started
BY DEF AttemptRow, WithStatus, Ended, Renewed

\* A renewed lease never outlasts its term, its wall budget or the deadline.
LEMMA LeaseEndBounded ==
  ASSUME NEW s \in JobSpecs, NEW t0 \in Nat, NEW t \in Nat
  PROVE  /\ LeaseEnd(s, t0, t) \in Nat
         /\ LeaseEnd(s, t0, t) <= t + LeaseSeconds
         /\ LeaseEnd(s, t0, t) <= t0 + s.wall
         /\ LeaseEnd(s, t0, t) <= s.deadline
<1> DEFINE S == {t + LeaseSeconds, t0 + s.wall, s.deadline}
<1>1. /\ S \subseteq Nat
      /\ t + LeaseSeconds \in Nat /\ t0 + s.wall \in Nat /\ s.deadline \in Nat
  BY StoreAssumption DEF Specs
<1>2. \E x \in S : \A y \in S : x <= y
  <2>1. \A x, y, z \in Nat : \E m \in {x, y, z} : m <= x /\ m <= y /\ m <= z
    OBVIOUS
  <2> QED
    BY <1>1, <2>1
<1>3. Min(S) \in S /\ \A y \in S : Min(S) <= y
  BY <1>2 DEF Min
<1> QED
  BY <1>1, <1>3 DEF LeaseEnd

\* The reservation of a job is a natural number.
LEMMA CostNat ==
  ASSUME NEW s \in JobSpecs
  PROVE  Cost(s) \in Nat
<1>1. s.cores \in Nat /\ s.wall \in Nat
  BY StoreAssumption DEF Specs
<1> QED
  BY <1>1 DEF Cost
-----------------------------------------------------------------------------
(* Reconciliation. *)

\* What _reconcile may do to the status of a job: keep it, unless it is leased and
\* its current attempt has expired, or move it on towards its end.
LEMMA AfterDeadlineCases ==
  ASSUME NEW J, NEW A, Rows(J, A), NEW j \in Job, NEW t \in Nat, NEW t1 \in Nat
  PROVE  LET s == AfterDeadline(J, A, j, t, t1)
             expired == \E a \in Attempt : Expired(A, a, t) /\ A[a].job = j /\ J[j].current = a IN
         /\ s \in JobStates
         /\ \/ s = J[j].status /\ ~(s = "leased" /\ expired)
            \/ s \in {"lost", "queued", "failed"} /\ J[j].status = "leased" /\ expired
            \/ s \in {"queued", "failed"} /\ J[j].status = "lost"
            \/ s = "failed" /\ J[j].status = "queued"
BY DEF AfterDeadline, AfterGrace, AfterExpiry, Rows, JobRow, JobStates

\* The columns of the reconciled tables.
LEMMA ReconciledRows ==
  ASSUME NEW J, NEW A, Rows(J, A), NEW t \in Nat, NEW t1 \in Nat
  PROVE  LET J1 == ReconciledJobs(J, A, t, t1)
             A1 == ReconciledAttempts(A, t) IN
         /\ Rows(J1, A1)
         /\ \A j \in Job :
              /\ J1[j].status = AfterDeadline(J, A, j, t, t1)
              /\ J1[j].spec = J[j].spec /\ J1[j].current = J[j].current
              /\ J1[j].fence = J[j].fence /\ J1[j].count = J[j].count
         /\ \A a \in Attempt :
              /\ A1[a].status = IF Expired(A, a, t) THEN "lost" ELSE A[a].status
              /\ A1[a].job = A[a].job /\ A1[a].node = A[a].node
              /\ A1[a].fence = A[a].fence /\ A1[a].started = A[a].started
<1> DEFINE J1 == ReconciledJobs(J, A, t, t1)
           A1 == ReconciledAttempts(A, t)
<1>1. J1 \in [Job -> JobRow]
      /\ \A j \in Job :
           /\ J1[j].status = AfterDeadline(J, A, j, t, t1)
           /\ J1[j].spec = J[j].spec /\ J1[j].current = J[j].current
           /\ J1[j].fence = J[j].fence /\ J1[j].count = J[j].count
  BY AfterDeadlineCases, WithStatusJob DEF ReconciledJobs, Rows
<1>2. A1 \in [Attempt -> AttemptRow]
      /\ \A a \in Attempt :
           /\ A1[a].status = IF Expired(A, a, t) THEN "lost" ELSE A[a].status
           /\ A1[a].job = A[a].job /\ A1[a].node = A[a].node
           /\ A1[a].fence = A[a].fence /\ A1[a].started = A[a].started
  BY DEF ReconciledAttempts, Rows, Ended, AttemptRow, AttemptStates
<1> QED
  BY <1>1, <1>2 DEF Rows

\* _reconcile keeps jobs, attempts and receipts linked: an attempt and its job are
\* lost together.
LEMMA ReconciledLinked ==
  ASSUME NEW J, NEW A, NEW R, Rows(J, A), Linked(J, A, R), NEW t \in Nat, NEW t1 \in Nat
  PROVE  Linked(ReconciledJobs(J, A, t, t1), ReconciledAttempts(A, t), R)
<1> DEFINE J1 == ReconciledJobs(J, A, t, t1)
           A1 == ReconciledAttempts(A, t)
<1>1. \A j \in Job :
        /\ J1[j].status = AfterDeadline(J, A, j, t, t1)
        /\ J1[j].spec = J[j].spec /\ J1[j].current = J[j].current
        /\ J1[j].fence = J[j].fence
  BY ReconciledRows
<1>2. \A a \in Attempt :
        /\ A1[a].status = IF Expired(A, a, t) THEN "lost" ELSE A[a].status
        /\ A1[a].job = A[a].job /\ A1[a].fence = A[a].fence
  BY ReconciledRows
<1>3. \A j \in Job : J[j].current # None => J[j].current \in Attempt
  BY DEF Rows, JobRow
<1> HIDE DEF J1, A1
<1>4. SpecKept(J1)
  BY <1>1, AfterDeadlineCases DEF Linked, SpecKept
<1>5. CurrentKept(J1, A1)
  BY <1>1, <1>2, <1>3, AfterDeadlineCases DEF Linked, CurrentKept
<1>6. JobOfAttempt(J1, A1)
  BY <1>1, <1>2, AfterDeadlineCases DEF Linked, JobOfAttempt, Expired, ActiveStates
<1>7. Receipted(A1, R)
  BY <1>2 DEF Linked, Receipted, Expired, ActiveStates
<1>8. Holding(J1, A1)
  BY <1>1, <1>2, AfterDeadlineCases DEF Linked, Holding, JobOfAttempt, Expired, ActiveStates
<1>9. Accepted(J1, A1)
  BY <1>1, <1>2, <1>3, AfterDeadlineCases
     DEF Linked, Accepted, CurrentKept, JobOfAttempt, Expired, ActiveStates
<1> QED
  BY <1>4, <1>5, <1>6, <1>7, <1>8, <1>9 DEF Linked, J1, A1
-----------------------------------------------------------------------------
(* The inductive invariant and its steps. *)

IInv == TypeOK /\ Linked(job, att, rcpt)

\* A later reading of the clock is not an earlier one.
LEMMA LaterNat ==
  ASSUME now \in Nat, NEW t \in Nat, NEW u \in Later(t)
  PROVE  u \in Nat /\ t <= u
BY StoreAssumption DEF Later

\* So what a transaction sees after _reconcile satisfies the invariant.
LEMMA ReconciledInv ==
  ASSUME IInv, NEW t1 \in Nat
  PROVE  Rows(Jobs(t1), Attempts) /\ Linked(Jobs(t1), Attempts, rcpt)
<1>1. Rows(job, att) /\ Linked(job, att, rcpt) /\ now \in Nat
  BY DEF IInv, TypeOK, Rows
<1> QED
  BY <1>1, ReconciledRows, ReconciledLinked DEF Jobs, Attempts

\* The empty tables satisfy the invariant.
LEMMA InitInv == Init => IInv
<1> SUFFICES ASSUME Init PROVE IInv
  OBVIOUS
<1>1. TypeOK
  BY DEF Init, TypeOK, NoJob, NoAttempt, NoManifest, JobRow, AttemptRow, JobStates,
         AttemptStates, Manifests
<1>2. Linked(job, att, rcpt)
  BY DEF Init, Linked, SpecKept, CurrentKept, JobOfAttempt, Receipted, Holding, Accepted,
         NoJob, NoAttempt, ActiveStates
<1> QED
  BY <1>1, <1>2 DEF IInv

\* The steps that commit a reconciliation and nothing else.
LEMMA OnlyReconciledInv ==
  ASSUME IInv, NEW t1 \in Later(now), OnlyReconciled(t1)
  PROVE  IInv'
<1>1. t1 \in Nat
  BY LaterNat DEF IInv, TypeOK
<1>2. Rows(job', att') /\ Linked(job', att', rcpt')
  BY <1>1, ReconciledInv DEF OnlyReconciled
<1> QED
  BY <1>1, <1>2 DEF IInv, TypeOK, OnlyReconciled, Rows

\* The steps that touch neither jobs, attempts nor receipts.
LEMMA QuietInv ==
  ASSUME IInv, TypeOK', UNCHANGED <<job, att, rcpt>>
  PROVE  IInv'
BY DEF IInv

\* Admitting a job keeps the invariant: the job is new and no attempt names it.
LEMMA EnqueueInv ==
  ASSUME IInv, NEW j \in Job, NEW s \in JobSpecs, Enqueue(j, s)
  PROVE  IInv'
<1> DEFINE q == [NoJob EXCEPT !.status = "queued", !.spec = s, !.created = now]
<1>1. /\ q \in JobRow /\ q.status = "queued" /\ q.spec = s /\ q.current = None
  BY DEF IInv, TypeOK, NoJob, JobRow, JobStates
<1>2. job' = [job EXCEPT ![j] = q] /\ job[j].status = "absent" /\ UNCHANGED <<att, rcpt>>
  BY DEF Enqueue
<1> HIDE DEF q
<1>3. job' \in [Job -> JobRow]
  BY <1>1, <1>2 DEF IInv, TypeOK
<1>4. Linked(job', att', rcpt')
  BY <1>1, <1>2 DEF IInv, TypeOK, Linked, SpecKept, CurrentKept, JobOfAttempt, Receipted,
                    Holding, Accepted, ActiveStates
<1> QED
  BY <1>3, <1>4 DEF Enqueue, IInv, TypeOK

\* Cancelling keeps the invariant: the current attempt ends with its job.
LEMMA CancelInv ==
  ASSUME IInv, NEW j \in Job, Cancel(j)
  PROVE  IInv'
<1> DEFINE q == Superseded(job[j], "cancelled")
<1>1. /\ q \in JobRow /\ q.status = "cancelled" /\ q.spec = job[j].spec
      /\ q.current = job[j].current
  BY SupersededJob DEF IInv, TypeOK, JobStates
<1> HIDE DEF q
<1>2. /\ job' = [job EXCEPT ![j] = q] /\ UNCHANGED rcpt
      /\ job[j].status \notin {"absent", "returned", "cancelled"}
  BY DEF Cancel, q
<1>3. /\ att' \in [Attempt -> AttemptRow]
      /\ \A a \in Attempt :
           /\ att'[a].job = att[a].job /\ att'[a].fence = att[a].fence
           /\ att'[a].status = IF job[j].current = a /\ rcpt[a] = None
                               THEN "cancelled" ELSE att[a].status
  <2>1. \A a \in Attempt : att[a] \in AttemptRow /\ WithStatus(att[a], "cancelled") \in AttemptRow
    BY AttemptUpdates DEF IInv, TypeOK, AttemptStates
  <2>2. att' \in [Attempt -> AttemptRow]
    BY <2>1 DEF Cancel
  <2>3. \A a \in Attempt : LET p == WithStatus(att[a], "cancelled") IN
          p.job = att[a].job /\ p.fence = att[a].fence /\ p.status = "cancelled"
    BY <2>1 DEF WithStatus, AttemptRow
  <2> QED
    BY <2>2, <2>3 DEF Cancel
<1>4. job' \in [Job -> JobRow]
  BY <1>1, <1>2 DEF IInv, TypeOK
<1>5. Linked(job', att', rcpt')
  <2>1. \A k \in Job : job[k].current # None => job[k].current \in Attempt
    BY DEF IInv, TypeOK, JobRow
  <2>2. SpecKept(job') /\ CurrentKept(job', att')
    BY <1>1, <1>2, <1>3, <2>1 DEF IInv, TypeOK, Linked, SpecKept, CurrentKept
  <2>3. JobOfAttempt(job', att') /\ Receipted(att', rcpt')
    <3>1. \A a \in Attempt : job[j].current = a => att[a].status # "absent"
      BY StoreAssumption DEF IInv, Linked, CurrentKept
    <3>2. JobOfAttempt(job', att')
      BY <1>1, <1>2, <1>3, <3>1 DEF IInv, TypeOK, Linked, JobOfAttempt
    <3>3. Receipted(att', rcpt')
      BY <1>2, <1>3, <3>1 DEF IInv, Linked, Receipted
    <3> QED
      BY <3>2, <3>3
  <2>4. Holding(job', att')
    BY <1>1, <1>2, <1>3 DEF IInv, TypeOK, Linked, Holding, Receipted, ActiveStates
  <2>5. Accepted(job', att')
    BY <1>1, <1>2, <1>3, <2>1 DEF IInv, TypeOK, Linked, Accepted, Receipted, CurrentKept
  <2> QED
    BY <2>2, <2>3, <2>4, <2>5 DEF Linked
<1> QED
  BY <1>3, <1>4, <1>5 DEF Cancel, IInv, TypeOK

\* A claim keeps the invariant: the job was queued, so no attempt of it was active.
LEMMA ClaimJobInv ==
  ASSUME IInv, NEW n \in Node, NEW r \in Request, NEW j \in Job, NEW a \in Attempt,
         NEW t1 \in Later(now), NEW t2 \in Later(t1), ClaimJob(n, r, j, a, t1, t2)
  PROVE  IInv'
<1> DEFINE J == Jobs(t1)
           A == Attempts
           s == J[j].spec
           q == HandedOut(J[j], a)
           b == [status |-> "leased", job |-> j, node |-> n, fence |-> J[j].fence + 1,
                 lease |-> LeaseEnd(s, t2, t2), started |-> t2, failure |-> "none"]
<1>1. t1 \in Nat /\ t2 \in Nat
  BY LaterNat DEF IInv, TypeOK
<1>2. Rows(J, A) /\ Linked(J, A, rcpt)
  BY <1>1, ReconciledInv
<1>3. /\ J[j].status = "queued" /\ s \in JobSpecs /\ rcpt[a] = None
      /\ A[a].status = "absent"
  BY <1>2 DEF ClaimJob, Oldest, Claimable, Linked, SpecKept, Receipted, Attempts,
              ReconciledAttempts, Expired, ActiveStates
<1>4. LeaseEnd(s, t2, t2) \in Nat /\ Cost(s) \in Nat
  BY <1>1, <1>3, LeaseEndBounded, CostNat
<1>5. /\ q \in JobRow /\ q.status = "leased" /\ q.fence = J[j].fence + 1
      /\ q.spec = s /\ q.current = a
  BY <1>2, HandedOutJob DEF Rows
<1>6. J[j].fence + 1 \in Nat
  BY <1>2 DEF Rows, JobRow
<1>7. b \in AttemptRow /\ b.status = "leased" /\ b.job = j /\ b.fence = J[j].fence + 1
  BY <1>1, <1>4, <1>6 DEF AttemptRow, AttemptStates, ActiveStates
<1>8. /\ att' = [A EXCEPT ![a] = b] /\ job' = [J EXCEPT ![j] = q]
      /\ UNCHANGED <<reg, drained, rcpt, arts, blobs>> /\ now' = t2
      /\ reserved' = reserved + Cost(s)
      /\ claims' = [claims EXCEPT ![n][r] = a]
  BY DEF ClaimJob
<1> HIDE DEF J, A, s, q, b
<1>9. job' \in [Job -> JobRow] /\ att' \in [Attempt -> AttemptRow]
  BY <1>2, <1>5, <1>7, <1>8 DEF Rows
<1>10. Linked(job', att', rcpt')
  <2>1. \A k \in Job : J[k].current # None => J[k].current \in Attempt
    BY <1>2 DEF Rows, JobRow
  <2>2. SpecKept(job') /\ CurrentKept(job', att')
    BY <1>2, <1>3, <1>5, <1>7, <1>8, <2>1, StoreAssumption
       DEF Rows, Linked, SpecKept, CurrentKept
  <2>3. JobOfAttempt(job', att') /\ Receipted(att', rcpt')
    BY <1>2, <1>3, <1>5, <1>7, <1>8 DEF Rows, Linked, JobOfAttempt, Receipted
  <2>4. Holding(job', att')
    BY <1>2, <1>3, <1>5, <1>7, <1>8 DEF Rows, Linked, Holding, ActiveStates
  <2>5. Accepted(job', att')
    BY <1>2, <1>3, <1>5, <1>7, <1>8, <2>1 DEF Rows, Linked, Accepted, CurrentKept
  <2> QED
    BY <2>2, <2>3, <2>4, <2>5 DEF Linked
<1>11. claims' \in [Node -> [Request -> Attempt \cup {None, "unclaimed"}]]
  BY <1>8 DEF IInv, TypeOK
<1> QED
  BY <1>1, <1>4, <1>8, <1>9, <1>10, <1>11 DEF IInv, TypeOK

\* Renewing a live lease keeps the invariant.
LEMMA HeartbeatRenewInv ==
  ASSUME IInv, NEW n \in Node, NEW a \in Attempt, NEW token \in Nat, NEW phase \in ActiveStates,
         NEW t1 \in Later(now), NEW t2 \in Later(t1), HeartbeatRenew(n, a, token, phase, t1, t2)
  PROVE  IInv'
<1> DEFINE J == Jobs(t1)
           A == Attempts
           until == LeaseEnd(J[A[a].job].spec, A[a].started, t2)
           b == Renewed(A[a], phase, until)
<1>1. t1 \in Nat /\ t2 \in Nat
  BY LaterNat DEF IInv, TypeOK
<1>2. Rows(J, A) /\ Linked(J, A, rcpt)
  BY <1>1, ReconciledInv
<1>3. /\ A[a].status \in ActiveStates /\ att' = [A EXCEPT ![a] = b] /\ job' = J /\ now' = t2
      /\ UNCHANGED <<reg, drained, rcpt, arts, claims, blobs, reserved>>
  BY DEF HeartbeatRenew, Live
<1>4. J[A[a].job].spec \in JobSpecs /\ A[a].started \in Nat
  BY <1>2, <1>3 DEF Rows, AttemptRow, Linked, SpecKept, JobOfAttempt, ActiveStates
<1>5. until \in Nat
  BY <1>1, <1>4, LeaseEndBounded
<1> HIDE DEF J, A, until
<1>6. b \in AttemptRow /\ b.status = phase /\ b.job = A[a].job /\ b.fence = A[a].fence
  <2>1. A[a] \in AttemptRow /\ phase \in AttemptStates
    BY <1>2 DEF Rows, AttemptStates
  <2> QED
    BY <1>5, <2>1, AttemptUpdates
<1> HIDE DEF b
<1>7. att' \in [Attempt -> AttemptRow] /\ job' \in [Job -> JobRow]
  BY <1>2, <1>3, <1>6 DEF Rows
<1>8. Linked(job', att', rcpt')
  <2>1. \A k \in Job : J[k].current # None => J[k].current \in Attempt
    BY <1>2 DEF Rows, JobRow
  <2>2. /\ phase \notin {"absent", "returned", "quarantined"}
        /\ A[a].status \notin {"absent", "returned", "quarantined"}
    BY <1>3 DEF ActiveStates
  <2>3. SpecKept(job') /\ CurrentKept(job', att') /\ JobOfAttempt(job', att')
    BY <1>2, <1>3, <1>6, <2>1, <2>2 DEF Rows, Linked, SpecKept, CurrentKept, JobOfAttempt
  <2>4. Receipted(att', rcpt') /\ Holding(job', att') /\ Accepted(job', att')
    BY <1>2, <1>3, <1>6, <2>1, <2>2 DEF Rows, Linked, Receipted, Holding, Accepted, CurrentKept
  <2> QED
    BY <2>3, <2>4 DEF Linked
<1> QED
  BY <1>1, <1>3, <1>7, <1>8 DEF IInv, TypeOK

\* Completing keeps the invariant: only a live attempt returns its job, and a
\* quarantined attempt is no longer active, whatever becomes of its job.
LEMMA CompleteInv ==
  ASSUME IInv, NEW n \in Node, NEW a \in Attempt, NEW token \in Nat, NEW verdict \in Verdicts,
         NEW manifest \in Manifests, NEW t1 \in Later(now), NEW t2 \in Later(t1),
         Complete(n, a, token, verdict, manifest, t1, t2)
  PROVE  IInv'
<1> DEFINE J == Jobs(t1)
           A == Attempts
           j == A[a].job
           live == Live(J, A, a, token, t2)
           reason == Reason(live, verdict)
           status == IF reason = "none" THEN "returned" ELSE "quarantined"
           b == WithStatus(A[a], status)
           receipt == [status |-> status, reason |-> reason, verdict |-> verdict,
                       manifest |-> manifest]
           q == IF reason = "none" THEN WithStatus(J[j], "returned")
                ELSE IF reason # "stale" /\ J[j].current = a
                     THEN Superseded(J[j], "failed") ELSE J[j]
<1>1. t1 \in Nat /\ t2 \in Nat
  BY LaterNat DEF IInv, TypeOK
<1>2. Rows(J, A) /\ Linked(J, A, rcpt)
  BY <1>1, ReconciledInv
<1>3. /\ att' = [A EXCEPT ![a] = b] /\ job' = [J EXCEPT ![j] = q] /\ now' = t2
      /\ rcpt' = [rcpt EXCEPT ![a] = receipt] /\ rcpt[a] = None
      /\ UNCHANGED <<reg, drained, arts, claims, blobs, reserved>>
  BY DEF Complete
<1>4. A[a].status # "absent" /\ A[a] \in AttemptRow
  BY <1>2 DEF Complete, Owned, Attempts, ReconciledAttempts, Ended, Rows, AttemptRow, Expired, ActiveStates
<1>5. j \in Job /\ J[j].status # "absent" /\ J[j] \in JobRow
  BY <1>2, <1>4 DEF Linked, JobOfAttempt, Rows
<1>6. /\ reason \in {"none", "stale", "mismatch", "overrun"}
      /\ reason = "none" => live
  BY DEF Reason, Verdicts
<1>7. receipt \in Receipts /\ receipt # None
  BY <1>6, StoreAssumption DEF Receipts, Verdicts
<1>8. b \in AttemptRow /\ b.status = status /\ b.job = j /\ b.fence = A[a].fence
  BY <1>4, AttemptUpdates DEF AttemptStates
<1>9. /\ q \in JobRow /\ q.spec = J[j].spec /\ q.current = J[j].current
      /\ q.status = IF reason = "none" THEN "returned"
                    ELSE IF reason # "stale" /\ J[j].current = a THEN "failed" ELSE J[j].status
      /\ reason = "stale" \/ J[j].current # a => q.fence = J[j].fence \/ reason = "none"
  <2>1. CASE reason = "none"
    BY <2>1, <1>5, WithStatusJob DEF JobStates
  <2>2. CASE reason # "none" /\ reason # "stale" /\ J[j].current = a
    BY <2>2, <1>5, SupersededJob DEF JobStates
  <2>3. CASE reason # "none" /\ ~(reason # "stale" /\ J[j].current = a)
    BY <2>3, <1>5
  <2> QED
    BY <2>1, <2>2, <2>3
<1>10. live => /\ J[j].current = a /\ J[j].status = "leased" /\ A[a].status \in ActiveStates
  BY DEF Live
<1>11. A[a].status \notin {"returned", "quarantined"}
  BY <1>2, <1>3 DEF Linked, Receipted
<1>12. J[j].current = a => J[j].status # "returned"
  BY <1>2, <1>5, <1>11 DEF Linked, Accepted
<1> HIDE DEF J, A, live, reason, b, receipt, q
<1>13. /\ att' \in [Attempt -> AttemptRow] /\ job' \in [Job -> JobRow]
       /\ rcpt' \in [Attempt -> Receipts \cup {None}]
  BY <1>2, <1>3, <1>5, <1>7, <1>8, <1>9 DEF Rows, IInv, TypeOK
<1>14. Linked(job', att', rcpt')
  <2>1. \A k \in Job : J[k].current # None => J[k].current \in Attempt
    BY <1>2 DEF Rows, JobRow
  <2>2. SpecKept(job') /\ CurrentKept(job', att')
    BY <1>2, <1>3, <1>4, <1>5, <1>6, <1>8, <1>9, <1>10, <2>1
       DEF Rows, Linked, SpecKept, CurrentKept
  <2>3. JobOfAttempt(job', att')
    BY <1>2, <1>3, <1>4, <1>5, <1>8, <1>9 DEF Rows, Linked, JobOfAttempt
  <2>4. Receipted(att', rcpt')
    BY <1>2, <1>3, <1>7, <1>8 DEF Rows, Linked, Receipted, IInv, TypeOK
  <2>5. Holding(job', att')
    BY <1>2, <1>3, <1>5, <1>6, <1>8, <1>9, <1>10 DEF Rows, Linked, Holding, ActiveStates
  <2>6. Accepted(job', att')
    BY <1>2, <1>3, <1>5, <1>6, <1>8, <1>9, <1>10, <1>12, <2>1
       DEF Rows, Linked, Accepted, CurrentKept
  <2> QED
    BY <2>2, <2>3, <2>4, <2>5, <2>6 DEF Linked
<1> QED
  BY <1>1, <1>3, <1>13, <1>14 DEF IInv, TypeOK

\* A reported failure keeps the invariant: attempt and job leave the lease together.
LEMMA FailInv ==
  ASSUME IInv, NEW n \in Node, NEW a \in Attempt, NEW token \in Nat, NEW ok \in BOOLEAN,
         NEW t1 \in Later(now), NEW t2 \in Later(t1), Fail(n, a, token, ok, t1, t2)
  PROVE  IInv'
<1> DEFINE J == Jobs(t1)
           A == Attempts
           j == A[a].job
           st == IF ok /\ J[j].count < J[j].spec.maxAttempts /\ t2 < J[j].spec.deadline
                 THEN "queued" ELSE "failed"
           b == Ended(A[a], "failed", "reported")
           q == WithStatus(J[j], st)
<1>1. t1 \in Nat /\ t2 \in Nat
  BY LaterNat DEF IInv, TypeOK
<1>2. Rows(J, A) /\ Linked(J, A, rcpt)
  BY <1>1, ReconciledInv
<1>3. /\ att' = [A EXCEPT ![a] = b] /\ job' = [J EXCEPT ![j] = q] /\ now' = t2
      /\ A[a].status \in ActiveStates /\ J[j].current = a /\ J[j].status = "leased"
      /\ UNCHANGED <<reg, drained, rcpt, arts, claims, blobs, reserved>>
  BY DEF Fail, Live
<1>4. j \in Job /\ J[j] \in JobRow /\ A[a] \in AttemptRow /\ st \in {"queued", "failed"}
  BY <1>2, <1>3 DEF Linked, JobOfAttempt, Rows, ActiveStates
<1>5. b \in AttemptRow /\ b.status = "failed" /\ b.job = j /\ b.fence = A[a].fence
  BY <1>4, AttemptUpdates DEF AttemptStates
<1>6. /\ q \in JobRow /\ q.status = st /\ q.spec = J[j].spec /\ q.current = J[j].current
  BY <1>4, WithStatusJob DEF JobStates
<1> HIDE DEF J, A, st, b, q
<1>7. att' \in [Attempt -> AttemptRow] /\ job' \in [Job -> JobRow]
  BY <1>2, <1>3, <1>4, <1>5, <1>6 DEF Rows
<1>8. Linked(job', att', rcpt')
  <2>1. \A k \in Job : J[k].current # None => J[k].current \in Attempt
    BY <1>2 DEF Rows, JobRow
  <2>2. A[a].status \notin {"absent", "returned", "quarantined"}
    BY <1>3 DEF ActiveStates
  <2>3. SpecKept(job') /\ CurrentKept(job', att')
    BY <1>2, <1>3, <1>4, <1>5, <1>6, <2>1, <2>2 DEF Rows, Linked, SpecKept, CurrentKept
  <2>4. JobOfAttempt(job', att') /\ Receipted(att', rcpt')
    BY <1>2, <1>3, <1>4, <1>5, <1>6, <2>2 DEF Rows, Linked, JobOfAttempt, Receipted
  <2>5. Holding(job', att')
    BY <1>2, <1>3, <1>4, <1>5, <1>6 DEF Rows, Linked, Holding, ActiveStates
  <2>6. Accepted(job', att')
    BY <1>2, <1>3, <1>4, <1>5, <1>6, <2>1, <2>2 DEF Rows, Linked, Accepted, CurrentKept
  <2> QED
    BY <2>3, <2>4, <2>5, <2>6 DEF Linked
<1> QED
  BY <1>1, <1>3, <1>7, <1>8 DEF IInv, TypeOK

\* Fencing tokens are numbers the store has issued.
LEMMA TokenNat ==
  ASSUME IInv, NEW token \in Tokens
  PROVE  token \in Nat
BY DEF IInv, TypeOK, Tokens, AttemptRow

\* Every operation of the store keeps the invariant.
LEMMA NextInv == IInv /\ [Next]_vars => IInv'
<1> SUFFICES ASSUME IInv, [Next]_vars PROVE IInv'
  OBVIOUS
<1>1. CASE UNCHANGED vars
  BY <1>1 DEF vars, IInv, TypeOK
<1>2. CASE Tick
  BY <1>2, QuietInv DEF Tick, IInv, TypeOK
<1>3. CASE OperatorNext
  <2>1. ASSUME NEW c \in Content, PutBlob(c) PROVE IInv'
    BY <2>1, QuietInv DEF PutBlob, IInv, TypeOK
  <2>2. ASSUME NEW n \in Node, NEW e \in BOOLEAN, Drain(n, e) PROVE IInv'
    BY <2>2, QuietInv DEF Drain, IInv, TypeOK
  <2>3. ASSUME NEW t1 \in Later(now), Reconcile(t1) PROVE IInv'
    BY <2>3, OnlyReconciledInv DEF Reconcile
  <2> QED
    BY <1>3, <2>1, <2>2, <2>3, EnqueueInv, CancelInv DEF OperatorNext
<1>4. ASSUME NEW n \in Node, NEW reg1 \in Registrations, Register(n, reg1) PROVE IInv'
  BY <1>4, QuietInv DEF Register, IInv, TypeOK
<1>5. ASSUME NEW n \in Node, NEW r \in Request, ClaimNext(n, r) PROVE IInv'
  <2> PICK t1 \in Later(now) :
        \/ ClaimReplay(n, r, t1)
        \/ ClaimNothing(n, r, t1)
        \/ \E j \in Job, a \in Attempt, t2 \in Later(t1) : ClaimJob(n, r, j, a, t1, t2)
    BY <1>5 DEF ClaimNext
  <2>1. CASE ClaimReplay(n, r, t1)
    BY <2>1, OnlyReconciledInv DEF ClaimReplay
  <2>2. CASE ClaimNothing(n, r, t1)
    <3>1. t1 \in Nat
      BY LaterNat DEF IInv, TypeOK
    <3>2. Rows(job', att') /\ Linked(job', att', rcpt')
      BY <2>2, <3>1, ReconciledInv DEF ClaimNothing
    <3>3. claims' \in [Node -> [Request -> Attempt \cup {None, "unclaimed"}]]
      BY <2>2 DEF ClaimNothing, IInv, TypeOK
    <3> QED
      BY <2>2, <3>1, <3>2, <3>3 DEF ClaimNothing, IInv, TypeOK, Rows
  <2> QED
    BY <2>1, <2>2, ClaimJobInv
<1>6. ASSUME NEW n \in Node, NEW a \in Attempt, NEW token \in Tokens, AttemptNext(n, a, token)
      PROVE  IInv'
  <2>1. ASSUME NEW name \in Name, NEW c \in Content, AttachOutput(n, a, name, token, c)
        PROVE  IInv'
    <3>1. arts' \in [Attempt -> Manifests]
      BY <2>1 DEF AttachOutput, IInv, TypeOK, Manifests
    <3> QED
      BY <2>1, <3>1, QuietInv DEF AttachOutput, IInv, TypeOK
  <2>2. ASSUME NEW t1 \in Later(now), GetAttempt(n, a, t1) PROVE IInv'
    BY <2>2, OnlyReconciledInv DEF GetAttempt
  <2>3. ASSUME NEW t1 \in Later(now), HeartbeatStop(n, a, token, t1) PROVE IInv'
    BY <2>3, OnlyReconciledInv DEF HeartbeatStop
  <2>4. ASSUME NEW t1 \in Later(now), NEW v \in Verdicts, NEW m \in Manifests,
               CompleteReplay(n, a, token, v, m, t1)
        PROVE  IInv'
    BY <2>4, OnlyReconciledInv DEF CompleteReplay
  <2> QED
    BY <1>6, <2>1, <2>2, <2>3, <2>4, TokenNat, HeartbeatRenewInv, CompleteInv, FailInv
       DEF AttemptNext
<1> QED
  BY <1>1, <1>2, <1>3, <1>4, <1>5, <1>6 DEF Next, NodeNext

\* The tables keep their types: no sequence of calls, replays, expiries and
\* cancellations writes a row that a later reconciliation cannot read.
THEOREM TypeCorrect == Spec => []TypeOK
<1>1. IInv => TypeOK
  BY DEF IInv
<1> QED
  BY <1>1, InitInv, NextInv, PTL DEF Spec

\* Two attempts of one job are never active together: whatever the clock does
\* inside a transaction, an active attempt is its job's current one under its
\* present fence.
THEOREM ActiveExclusive == Spec => []ActiveIsCurrent
<1>1. IInv => ActiveIsCurrent
  BY DEF IInv, Linked, Holding, JobOfAttempt, ActiveIsCurrent, Active, ActiveStates
<1> QED
  BY <1>1, InitInv, NextInv, PTL DEF Spec

\* A job has at most one accepted result, from its current attempt.
THEOREM ReturnOnce == Spec => []SingleReturn
<1>1. IInv => SingleReturn
  BY DEF IInv, Linked, Accepted, CurrentKept, SingleReturn
<1> QED
  BY <1>1, InitInv, NextInv, PTL DEF Spec
-----------------------------------------------------------------------------
(* What a step that hands nothing out does to each row. *)

\* What a step that hands nothing out may do to an attempt: x before, y after.
AttemptKept(x, y, answered) ==
  /\ y.job = x.job /\ y.node = x.node /\ y.fence = x.fence /\ y.started = x.started
  /\ x.status = "absent" \/ answered => y = x
  /\ y.status = "absent" => x.status = "absent"
  /\ y.status \in ActiveStates => x.status \in ActiveStates
  /\ x.status \notin ActiveStates => y.lease = x.lease /\ y.failure = x.failure

\* And to a job: p before, q after.
JobKept(p, q) ==
  /\ p.status # "absent" =>
       /\ q.status # "absent" /\ q.spec = p.spec /\ q.current = p.current
       /\ q.count = p.count /\ p.fence <= q.fence
  /\ p.status = "absent" =>
       q = p \/ (q.status = "queued" /\ q.spec \in JobSpecs /\ q.current = None /\ q.count = 0)
  /\ p.status \in {"failed", "cancelled"} => q.status \in {"failed", "cancelled"}
  /\ p.status = "returned" => q = p
  /\ q.status = "leased" => p.status = "leased"
  /\ q.status = "returned" => p.status \in {"returned", "leased"}

\* A job that may be handed out at time t: it has attempts left, and the latest one
\* reported its failure or ended a retry grace ago.
Retriable(q, A, t) ==
  /\ q.count < q.spec.maxAttempts
  /\ \/ q.current = None
     \/ A[q.current].failure = "reported"
     \/ t >= A[q.current].lease + RetryGrace

NewlyReturned(J, K) == {j \in Job : K[j].status = "returned" /\ J[j].status # "returned"}

\* The tables J, A at time t become K, B at time u, and no attempt is new.
HandsNothingOut(J, A, R, t, K, B, u) ==
  /\ t <= u
  /\ \A a \in Attempt : AttemptKept(A[a], B[a], R[a] # None)
  /\ \A j \in Job : JobKept(J[j], K[j])
  /\ \A j \in Job : K[j].status = "queued" => J[j].status \in {"absent", "queued"} \/ Retriable(K[j], B, u)
  /\ \A j, k \in NewlyReturned(J, K) : j = k
-----------------------------------------------------------------------------
(* Every step but a successful claim hands nothing out. *)

\* _reconcile ends leases and moves jobs on, and touches nothing that is decided.
LEMMA ReconciledKept ==
  ASSUME NEW J, NEW A, NEW R, Rows(J, A), Linked(J, A, R), NEW t \in Nat, NEW u \in Nat, t <= u
  PROVE  /\ HandsNothingOut(J, A, R, t, ReconciledJobs(J, A, t, u), ReconciledAttempts(A, t), u)
         /\ NewlyReturned(J, ReconciledJobs(J, A, t, u)) = {}
<1> DEFINE K == ReconciledJobs(J, A, t, u)
           B == ReconciledAttempts(A, t)
<1>1. ASSUME NEW a \in Attempt PROVE AttemptKept(A[a], B[a], R[a] # None)
  <2>1. A[a] \in AttemptRow
    BY DEF Rows
  <2>2. CASE Expired(A, a, t)
    <3>1. B[a] = Ended(A[a], "lost", "lease_expired")
      BY <2>2 DEF ReconciledAttempts
    <3>2. /\ B[a].status = "lost" /\ B[a].job = A[a].job /\ B[a].node = A[a].node
          /\ B[a].fence = A[a].fence /\ B[a].started = A[a].started
      BY <2>1, <3>1 DEF Ended, AttemptRow
    <3>3. A[a].status \in ActiveStates /\ R[a] = None
      BY <2>2 DEF Expired, Linked, Receipted, ActiveStates
    <3> QED
      BY <3>2, <3>3 DEF AttemptKept, ActiveStates
  <2>3. CASE ~Expired(A, a, t)
    BY <2>3 DEF ReconciledAttempts, AttemptKept
  <2> QED
    BY <2>2, <2>3
<1>2. ASSUME NEW j \in Job PROVE JobKept(J[j], K[j])
  <2>1. J[j] \in JobRow /\ K[j] = WithStatus(J[j], AfterDeadline(J, A, j, t, u))
    BY DEF Rows, ReconciledJobs
  <2>2. /\ K[j].status = AfterDeadline(J, A, j, t, u)
        /\ K[j].spec = J[j].spec /\ K[j].current = J[j].current
        /\ K[j].fence = J[j].fence /\ K[j].count = J[j].count
    BY ReconciledRows
  <2>3. K[j].status = J[j].status => K[j] = J[j]
    BY <2>1, <2>2 DEF WithStatus, JobRow
  <2>4. J[j].fence <= K[j].fence
    BY <2>1, <2>2 DEF JobRow
  <2> HIDE DEF K
  <2> QED
    BY <2>2, <2>3, <2>4, AfterDeadlineCases DEF JobKept
<1>3. ASSUME NEW j \in Job, K[j].status = "queued", J[j].status \notin {"absent", "queued"}
      PROVE  Retriable(K[j], B, u)
  <2>1. /\ K[j].status = AfterDeadline(J, A, j, t, u) /\ K[j].spec = J[j].spec
        /\ K[j].current = J[j].current /\ K[j].count = J[j].count
    BY ReconciledRows
  <2>2. /\ AfterExpiry(J, A, j, t) = "lost" /\ t >= A[J[j].current].lease + RetryGrace
        /\ J[j].count < J[j].spec.maxAttempts
    BY <1>3, <2>1 DEF AfterDeadline, AfterGrace, AfterExpiry
  <2>3. J[j].status \in {"leased", "lost"}
    BY <2>2 DEF AfterExpiry
  <2>4. J[j].current \in Attempt
    BY <2>3 DEF Linked, CurrentKept, Rows, JobRow
  <2>5. B[J[j].current].lease = A[J[j].current].lease /\ A[J[j].current].lease \in Nat
    BY <2>4 DEF ReconciledAttempts, Ended, Rows, AttemptRow
  <2>6. u >= A[J[j].current].lease + RetryGrace
    BY <2>2, <2>5, StoreAssumption
  <2> QED
    BY <2>1, <2>2, <2>5, <2>6 DEF Retriable
<1>4. ASSUME NEW j \in Job, K[j].status = "returned"
      PROVE  J[j].status = "returned"
  <2>1. K[j].status = AfterDeadline(J, A, j, t, u)
    BY ReconciledRows
  <2> HIDE DEF K
  <2> QED
    BY <1>4, <2>1, AfterDeadlineCases
<1>5. NewlyReturned(J, K) = {}
  BY <1>4 DEF NewlyReturned
<1> QED
  BY <1>1, <1>2, <1>3, <1>5 DEF HandsNothingOut

\* What the rest of a transaction sees is what a reconciliation leaves.
LEMMA TransactionKept ==
  ASSUME IInv, NEW t1 \in Later(now)
  PROVE  /\ t1 \in Nat /\ now \in Nat /\ now <= t1
         /\ Rows(Jobs(t1), Attempts) /\ Linked(Jobs(t1), Attempts, rcpt)
         /\ HandsNothingOut(job, att, rcpt, now, Jobs(t1), Attempts, t1)
         /\ NewlyReturned(job, Jobs(t1)) = {}
<1>1. now \in Nat /\ t1 \in Nat /\ now <= t1
  BY LaterNat DEF IInv, TypeOK
<1>2. Rows(job, att) /\ Linked(job, att, rcpt)
  BY DEF IInv, TypeOK, Rows
<1>3. Rows(Jobs(t1), Attempts) /\ Linked(Jobs(t1), Attempts, rcpt)
  BY <1>1, ReconciledInv
<1>4. /\ HandsNothingOut(job, att, rcpt, now, Jobs(t1), Attempts, t1)
      /\ NewlyReturned(job, Jobs(t1)) = {}
  BY <1>1, <1>2, ReconciledKept DEF Jobs, Attempts
<1> QED
  BY <1>1, <1>3, <1>4

Quiet == HandsNothingOut(job, att, rcpt, now, job', att', now')

\* A step that touches neither table hands nothing out.
LEMMA UntouchedQuiet ==
  ASSUME IInv, UNCHANGED <<job, att>>, now <= now'
  PROVE  Quiet
<1>1. \A j \in Job : job[j].fence <= job[j].fence
  BY DEF IInv, TypeOK, JobRow
<1>2. \A j \in Job : JobKept(job[j], job'[j])
  BY <1>1 DEF JobKept
<1>3. \A a \in Attempt : AttemptKept(att[a], att'[a], rcpt[a] # None)
  BY DEF AttemptKept
<1> QED
  BY <1>2, <1>3 DEF Quiet, HandsNothingOut, NewlyReturned

\* Admission makes one new queued job, without an attempt.
LEMMA EnqueueQuiet ==
  ASSUME IInv, NEW j \in Job, NEW s \in JobSpecs, Enqueue(j, s)
  PROVE  Quiet
<1> DEFINE q == [NoJob EXCEPT !.status = "queued", !.spec = s, !.created = now]
<1>1. q.status = "queued" /\ q.spec = s /\ q.current = None /\ q.count = 0
  BY DEF NoJob
<1>2. job' = [job EXCEPT ![j] = q] /\ job[j].status = "absent" /\ att' = att /\ now' = now
  BY DEF Enqueue
<1> HIDE DEF q
<1>3. /\ job \in [Job -> JobRow] /\ now \in Nat
      /\ \A k \in Job : job[k].fence <= job[k].fence
  BY DEF IInv, TypeOK, JobRow
<1>4. \A k \in Job : JobKept(job[k], job'[k])
  BY <1>1, <1>2, <1>3 DEF JobKept
<1>5. \A a \in Attempt : AttemptKept(att[a], att'[a], rcpt[a] # None)
  BY <1>2 DEF AttemptKept
<1> QED
  BY <1>1, <1>2, <1>3, <1>4, <1>5 DEF Quiet, HandsNothingOut, NewlyReturned

\* Cancelling ends one job and its unanswered attempt.
LEMMA CancelQuiet ==
  ASSUME IInv, NEW j \in Job, Cancel(j)
  PROVE  Quiet
<1> DEFINE q == Superseded(job[j], "cancelled")
<1>1. /\ q.status = "cancelled" /\ q.spec = job[j].spec /\ q.fence = job[j].fence + 1
      /\ q.current = job[j].current /\ q.count = job[j].count
  BY SupersededJob DEF IInv, TypeOK, JobStates
<1>2. /\ job' = [job EXCEPT ![j] = q] /\ now' = now
      /\ job[j].status \notin {"absent", "returned", "cancelled"}
  BY DEF Cancel
<1> HIDE DEF q
<1>3. /\ job \in [Job -> JobRow] /\ now \in Nat
      /\ \A k \in Job : job[k].fence <= job[k].fence /\ job[k].fence <= job[k].fence + 1
  BY DEF IInv, TypeOK, JobRow
<1>4. \A k \in Job : JobKept(job[k], job'[k])
  BY <1>1, <1>2, <1>3 DEF JobKept
<1>5. ASSUME NEW a \in Attempt PROVE AttemptKept(att[a], att'[a], rcpt[a] # None)
  <2>1. att[a] \in AttemptRow
    BY DEF IInv, TypeOK
  <2>2. CASE job[j].current = a /\ rcpt[a] = None
    <3>1. att'[a] = WithStatus(att[a], "cancelled")
      BY <2>2 DEF Cancel
    <3>2. /\ att'[a].status = "cancelled" /\ att'[a].job = att[a].job /\ att'[a].node = att[a].node
          /\ att'[a].fence = att[a].fence /\ att'[a].started = att[a].started
          /\ att'[a].lease = att[a].lease /\ att'[a].failure = att[a].failure
      BY <2>1, <3>1 DEF WithStatus, AttemptRow
    <3>3. att[a].status # "absent"
      BY <2>2, StoreAssumption DEF IInv, Linked, CurrentKept
    <3> QED
      BY <2>2, <3>2, <3>3 DEF AttemptKept, ActiveStates
  <2>3. CASE ~(job[j].current = a /\ rcpt[a] = None)
    <3>1. att'[a] = att[a]
      BY <2>3 DEF Cancel
    <3> QED
      BY <3>1 DEF AttemptKept
  <2> QED
    BY <2>2, <2>3
<1> QED
  BY <1>1, <1>2, <1>3, <1>4, <1>5 DEF Quiet, HandsNothingOut, NewlyReturned

\* A transaction that, after its reconciliation, rewrites the row of attempt a
\* to b and that of its job to q.
LEMMA OneRowQuiet ==
  ASSUME IInv, NEW t1 \in Later(now), NEW t2 \in Later(t1), NEW a \in Attempt, NEW j \in Job,
         NEW b, NEW q \in JobRow,
         att' = [Attempts EXCEPT ![a] = b], job' = [Jobs(t1) EXCEPT ![j] = q], now' = t2,
         Attempts[a].job = j, Attempts[a].status # "absent", rcpt[a] = None,
         AttemptKept(Attempts[a], b, FALSE),
         JobKept(Jobs(t1)[j], q),
         q.status = "queued" /\ Jobs(t1)[j].status # "queued" => Retriable(q, att', t2)
  PROVE  Quiet
<1> DEFINE J == Jobs(t1)
           A == Attempts
<1>1. /\ Rows(J, A) /\ Linked(J, A, rcpt) /\ HandsNothingOut(job, att, rcpt, now, J, A, t1)
      /\ now \in Nat /\ t1 \in Nat /\ NewlyReturned(job, J) = {}
  BY TransactionKept
<1>2. t2 \in Nat /\ t1 <= t2 /\ now <= t2
  BY <1>1, LaterNat DEF HandsNothingOut
<1>3. att' = [A EXCEPT ![a] = b] /\ A[a].job = j /\ A[a].status # "absent" /\ AttemptKept(A[a], b, FALSE)
  OBVIOUS
<1>4. /\ job' = [J EXCEPT ![j] = q] /\ JobKept(J[j], q)
      /\ q.status = "queued" /\ J[j].status # "queued" => Retriable(q, att', t2)
  OBVIOUS
<1> HIDE DEF J, A
<1>5. ASSUME NEW x \in Attempt PROVE AttemptKept(att[x], att'[x], rcpt[x] # None)
  <2>1. AttemptKept(att[x], A[x], rcpt[x] # None)
    BY <1>1 DEF HandsNothingOut
  <2>2. CASE x = a
    <3>1. att'[x] = b /\ rcpt[x] = None
      BY <1>1, <1>3, <2>2 DEF Rows
    <3> QED
      BY <1>3, <2>1, <2>2, <3>1 DEF AttemptKept
  <2>3. CASE x # a
    BY <1>1, <1>3, <2>1, <2>3 DEF Rows
  <2> QED
    BY <2>2, <2>3
<1>6. \A k \in Job : job'[k] = IF k = j THEN q ELSE J[k]
  BY <1>1, <1>4 DEF Rows
<1>7. J[j].status # "absent" /\ job[j].status # "absent"
  <2>1. A[a].status # "absent" /\ AttemptKept(att[a], A[a], rcpt[a] # None)
    BY <1>1, <1>3 DEF HandsNothingOut
  <2>2. att[a].status # "absent" /\ att[a].job = j
    BY <1>3, <2>1 DEF AttemptKept
  <2> QED
    BY <1>1, <1>3, <2>2 DEF Linked, JobOfAttempt, IInv
<1>8. ASSUME NEW k \in Job PROVE JobKept(job[k], job'[k])
  <2>1. JobKept(job[k], J[k])
    BY <1>1 DEF HandsNothingOut
  <2>2. CASE k # j
    BY <1>6, <2>1, <2>2
  <2>3. CASE k = j
    <3>1. job'[k] = q /\ JobKept(job[j], J[j])
      BY <1>6, <2>1, <2>3
    <3>2. \A x, y, z \in Nat : x <= y /\ y <= z => x <= z
      OBVIOUS
    <3>3. /\ job[j].fence \in Nat /\ J[j].fence \in Nat /\ q.fence \in Nat
          /\ job[j].fence <= J[j].fence /\ J[j].fence <= q.fence
      BY <1>1, <1>4, <1>7, <3>1 DEF JobKept, JobRow, Rows, IInv, TypeOK
    <3>4. job[j].fence <= q.fence
      BY <3>2, <3>3
    <3> QED
      BY <1>4, <1>7, <2>3, <3>1, <3>4 DEF JobKept
  <2> QED
    BY <2>2, <2>3
<1>9. ASSUME NEW k \in Job, job'[k].status = "queued", job[k].status \notin {"absent", "queued"}
      PROVE  Retriable(job'[k], att', t2)
  <2>1. CASE k = j /\ J[j].status # "queued"
    BY <1>4, <1>6, <1>9, <2>1
  <2>2. CASE k # j \/ J[j].status = "queued"
    <3>1. J[k].status = "queued" /\ Retriable(J[k], A, t1)
      BY <1>1, <1>6, <1>9, <2>2 DEF HandsNothingOut
    <3>2. /\ job'[k].count = J[k].count /\ job'[k].spec = J[k].spec
          /\ job'[k].current = J[k].current
      BY <1>4, <1>6, <1>7, <3>1 DEF JobKept
    <3>3. J[k].current # None => J[k].current \in Attempt /\ A[J[k].current].lease \in Nat
      BY <1>1 DEF Rows, JobRow, AttemptRow
    <3>4. J[k].current # None => A[J[k].current].status \notin ActiveStates
      BY <1>1, <3>1, <3>3 DEF Linked, Holding, CurrentKept
    <3>5. J[k].current # None => /\ att'[J[k].current].lease = A[J[k].current].lease
                                 /\ att'[J[k].current].failure = A[J[k].current].failure
      BY <1>1, <1>3, <3>3, <3>4 DEF Rows, AttemptKept
    <3> QED
      BY <1>1, <1>2, <3>1, <3>2, <3>3, <3>5, StoreAssumption DEF Retriable
  <2> QED
    BY <2>1, <2>2
<1>10. \A k, l \in NewlyReturned(job, job') : k = l
  BY <1>1, <1>6 DEF NewlyReturned
<1> QED
  BY <1>2, <1>5, <1>8, <1>9, <1>10 DEF Quiet, HandsNothingOut

\* Renewing a live lease changes one active attempt and no job.
LEMMA HeartbeatRenewQuiet ==
  ASSUME IInv, NEW n \in Node, NEW a \in Attempt, NEW token \in Nat, NEW phase \in ActiveStates,
         NEW t1 \in Later(now), NEW t2 \in Later(t1), HeartbeatRenew(n, a, token, phase, t1, t2)
  PROVE  Quiet
<1> DEFINE J == Jobs(t1)
           A == Attempts
           j == A[a].job
           b == Renewed(A[a], phase, LeaseEnd(J[j].spec, A[a].started, t2))
<1>1. Rows(J, A) /\ Linked(J, A, rcpt)
  BY TransactionKept
<1>2. /\ A[a].status \in ActiveStates /\ att' = [A EXCEPT ![a] = b] /\ job' = J /\ now' = t2
      /\ rcpt[a] = None /\ J[j].status = "leased"
  BY DEF HeartbeatRenew, Live
<1>3. j \in Job /\ J[j] \in JobRow /\ J[j].fence <= J[j].fence
  BY <1>1, <1>2 DEF Linked, JobOfAttempt, ActiveStates, Rows, JobRow
<1>4. AttemptKept(A[a], b, FALSE)
  <2>1. /\ b.job = A[a].job /\ b.node = A[a].node /\ b.fence = A[a].fence
        /\ b.started = A[a].started /\ b.status = phase
    BY <1>1 DEF Renewed, Rows, AttemptRow
  <2> QED
    BY <1>2, <2>1 DEF AttemptKept, ActiveStates
<1>5. JobKept(J[j], J[j]) /\ job' = [J EXCEPT ![j] = J[j]]
  BY <1>1, <1>2, <1>3 DEF JobKept, Rows
<1>6. A[a].status # "absent"
  BY <1>2 DEF ActiveStates
<1> HIDE DEF b
<1> QED
  BY <1>2, <1>3, <1>4, <1>5, <1>6, OneRowQuiet

\* A completion answers one unanswered attempt, and returns or fails at most its job.
LEMMA CompleteQuiet ==
  ASSUME IInv, NEW n \in Node, NEW a \in Attempt, NEW token \in Nat, NEW verdict \in Verdicts,
         NEW manifest \in Manifests, NEW t1 \in Later(now), NEW t2 \in Later(t1),
         Complete(n, a, token, verdict, manifest, t1, t2)
  PROVE  Quiet
<1> DEFINE J == Jobs(t1)
           A == Attempts
           j == A[a].job
           live == Live(J, A, a, token, t2)
           reason == Reason(live, verdict)
           status == IF reason = "none" THEN "returned" ELSE "quarantined"
           b == WithStatus(A[a], status)
           q == IF reason = "none" THEN WithStatus(J[j], "returned")
                ELSE IF reason # "stale" /\ J[j].current = a
                     THEN Superseded(J[j], "failed") ELSE J[j]
<1>1. Rows(J, A) /\ Linked(J, A, rcpt)
  BY TransactionKept
<1>2. att' = [A EXCEPT ![a] = b] /\ job' = [J EXCEPT ![j] = q] /\ now' = t2 /\ rcpt[a] = None
  BY DEF Complete
<1>3. A[a].status # "absent" /\ A[a] \in AttemptRow
  BY <1>1 DEF Complete, Owned, Attempts, ReconciledAttempts, Ended, Rows, AttemptRow, Expired, ActiveStates
<1>4. /\ j \in Job /\ J[j].status # "absent" /\ J[j] \in JobRow
      /\ J[j].fence <= J[j].fence /\ J[j].fence <= J[j].fence + 1
  BY <1>1, <1>3 DEF Linked, JobOfAttempt, Rows, JobRow
<1>5. AttemptKept(A[a], b, FALSE)
  <2>1. /\ b.job = A[a].job /\ b.node = A[a].node /\ b.fence = A[a].fence
        /\ b.started = A[a].started /\ b.status = status
        /\ b.lease = A[a].lease /\ b.failure = A[a].failure
    BY <1>3 DEF WithStatus, AttemptRow
  <2> QED
    BY <1>3, <2>1 DEF AttemptKept, ActiveStates
<1>6. q \in JobRow /\ JobKept(J[j], q) /\ (q.status = "queued" => J[j].status = "queued")
  <2>1. CASE reason = "none"
    <3>1. J[j].status = "leased"
      BY <2>1 DEF Reason, Live, Verdicts
    <3>2. q = WithStatus(J[j], "returned")
      BY <2>1
    <3> QED
      BY <1>4, <3>1, <3>2, WithStatusJob DEF JobKept, JobStates
  <2>2. CASE reason # "none" /\ reason # "stale" /\ J[j].current = a
    <3>1. J[j].status # "returned"
      <4>1. A[a].status # "returned"
        BY <1>1, <1>2 DEF Linked, Receipted
      <4> QED
        BY <1>1, <1>4, <2>2, <4>1 DEF Linked, Accepted
    <3>2. q = Superseded(J[j], "failed")
      BY <2>2
    <3> QED
      BY <1>4, <3>1, <3>2, SupersededJob DEF JobKept, JobStates
  <2>3. CASE reason # "none" /\ ~(reason # "stale" /\ J[j].current = a)
    <3>1. q = J[j]
      BY <2>3
    <3> QED
      BY <1>4, <3>1 DEF JobKept
  <2> QED
    BY <2>1, <2>2, <2>3
<1> HIDE DEF b, q
<1> QED
  BY <1>2, <1>3, <1>4, <1>5, <1>6, OneRowQuiet

\* A reported failure ends one attempt; its job may be tried again at once.
LEMMA FailQuiet ==
  ASSUME IInv, NEW n \in Node, NEW a \in Attempt, NEW token \in Nat, NEW ok \in BOOLEAN,
         NEW t1 \in Later(now), NEW t2 \in Later(t1), Fail(n, a, token, ok, t1, t2)
  PROVE  Quiet
<1> DEFINE J == Jobs(t1)
           A == Attempts
           j == A[a].job
           st == IF ok /\ J[j].count < J[j].spec.maxAttempts /\ t2 < J[j].spec.deadline
                 THEN "queued" ELSE "failed"
           b == Ended(A[a], "failed", "reported")
           q == WithStatus(J[j], st)
<1>1. Rows(J, A) /\ Linked(J, A, rcpt)
  BY TransactionKept
<1>2. /\ att' = [A EXCEPT ![a] = b] /\ job' = [J EXCEPT ![j] = q] /\ now' = t2
      /\ A[a].status \in ActiveStates /\ J[j].current = a /\ J[j].status = "leased"
  BY DEF Fail, Live
<1>3. A[a].status # "absent" /\ A[a] \in AttemptRow /\ rcpt[a] = None
  BY <1>1, <1>2 DEF Linked, Receipted, Rows, ActiveStates
<1>4. /\ j \in Job /\ J[j] \in JobRow /\ J[j].fence <= J[j].fence
  BY <1>1, <1>3 DEF Linked, JobOfAttempt, Rows, JobRow
<1>5. /\ b.job = A[a].job /\ b.node = A[a].node /\ b.fence = A[a].fence
      /\ b.started = A[a].started /\ b.status = "failed" /\ b.failure = "reported"
  BY <1>3 DEF Ended, AttemptRow
<1>6. AttemptKept(A[a], b, FALSE)
  BY <1>2, <1>3, <1>5 DEF AttemptKept, ActiveStates
<1>7. /\ q \in JobRow /\ q.status = st /\ q.spec = J[j].spec /\ q.current = a
      /\ q.count = J[j].count /\ q.fence = J[j].fence
  BY <1>2, <1>4, WithStatusJob DEF JobStates
<1>8. att'[a] = b
  BY <1>1, <1>2 DEF Rows
<1> HIDE DEF b, q
<1>9. JobKept(J[j], q) /\ (q.status = "queued" => Retriable(q, att', t2))
  BY <1>2, <1>4, <1>5, <1>7, <1>8 DEF JobKept, Retriable
<1> QED
  BY <1>2, <1>3, <1>4, <1>6, <1>7, <1>9, OneRowQuiet

ClaimStep ==
  \E n \in Node, r \in Request, j \in Job, a \in Attempt :
    \E t1 \in Later(now) : \E t2 \in Later(t1) : ClaimJob(n, r, j, a, t1, t2)

\* Every step hands out one attempt, by a claim, or none at all.
LEMMA StepCases ==
  ASSUME IInv, [Next]_vars
  PROVE  Quiet \/ ClaimStep
<1>1. now \in Nat /\ now <= now /\ now <= now + 1
  BY DEF IInv, TypeOK
<1>2. CASE UNCHANGED vars \/ Tick
  BY <1>1, <1>2, UntouchedQuiet DEF vars, Tick
<1>3. ASSUME NEW t1 \in Later(now), job' = Jobs(t1), att' = Attempts, now' = t1
      PROVE  Quiet
  BY <1>3, TransactionKept DEF Quiet
<1>4. CASE OperatorNext
  <2>1. ASSUME NEW c \in Content, PutBlob(c) PROVE Quiet
    BY <1>1, <2>1, UntouchedQuiet DEF PutBlob
  <2>2. ASSUME NEW n \in Node, NEW e \in BOOLEAN, Drain(n, e) PROVE Quiet
    BY <1>1, <2>2, UntouchedQuiet DEF Drain
  <2>3. ASSUME NEW t1 \in Later(now), Reconcile(t1) PROVE Quiet
    BY <1>3, <2>3 DEF Reconcile, OnlyReconciled
  <2> QED
    BY <1>4, <2>1, <2>2, <2>3, EnqueueQuiet, CancelQuiet DEF OperatorNext
<1>5. ASSUME NEW n \in Node, NEW reg1 \in Registrations, Register(n, reg1) PROVE Quiet
  BY <1>1, <1>5, UntouchedQuiet DEF Register
<1>6. ASSUME NEW n \in Node, NEW r \in Request, ClaimNext(n, r) PROVE Quiet \/ ClaimStep
  <2>1. ASSUME NEW t1 \in Later(now), ClaimReplay(n, r, t1) \/ ClaimNothing(n, r, t1)
        PROVE  Quiet
    BY <1>3, <2>1 DEF ClaimReplay, ClaimNothing, OnlyReconciled
  <2> QED
    BY <1>6, <2>1 DEF ClaimNext, ClaimStep
<1>7. ASSUME NEW n \in Node, NEW a \in Attempt, NEW token \in Tokens, AttemptNext(n, a, token)
      PROVE  Quiet
  <2>1. ASSUME NEW name \in Name, NEW c \in Content, AttachOutput(n, a, name, token, c)
        PROVE  Quiet
    BY <1>1, <2>1, UntouchedQuiet DEF AttachOutput
  <2>2. ASSUME NEW t1 \in Later(now), OnlyReconciled(t1) PROVE Quiet
    BY <1>3, <2>2 DEF OnlyReconciled
  <2> QED
    BY <1>7, <2>1, <2>2, TokenNat, HeartbeatRenewQuiet, CompleteQuiet, FailQuiet
       DEF AttemptNext, GetAttempt, HeartbeatStop, CompleteReplay
<1> QED
  BY <1>2, <1>4, <1>5, <1>6, <1>7 DEF Next, NodeNext

\* What a claim does: after the reconciliation, the oldest queued job gets a fresh
\* attempt under a new fence, and every other row stays.
LEMMA ClaimEffect ==
  ASSUME IInv, NEW n \in Node, NEW r \in Request, NEW j \in Job, NEW a \in Attempt,
         NEW t1 \in Later(now), NEW t2 \in Later(t1), ClaimJob(n, r, j, a, t1, t2)
  PROVE  LET J == Jobs(t1)
             A == Attempts IN
         /\ Rows(J, A) /\ Linked(J, A, rcpt) /\ HandsNothingOut(job, att, rcpt, now, J, A, t1)
         /\ now \in Nat /\ t1 \in Nat /\ t2 \in Nat /\ now <= t1 /\ t1 <= t2 /\ now' = t2
         /\ NewlyReturned(job, J) = {}
         /\ J[j].status = "queued" /\ A[a].status = "absent" /\ A[a].job = None
         /\ att[a].status = "absent" /\ rcpt[a] = None /\ rcpt' = rcpt
         /\ \A x \in Attempt : x # a => att'[x] = A[x]
         /\ att'[a].status = "leased" /\ att'[a].job = j /\ att'[a].node = n
         /\ att'[a].fence = J[j].fence + 1 /\ att'[a].started = t2
         /\ \A k \in Job : k # j => job'[k] = J[k]
         /\ job'[j].status = "leased" /\ job'[j].current = a /\ job'[j].spec = J[j].spec
         /\ job'[j].fence = J[j].fence + 1 /\ job'[j].count = J[j].count + 1
         /\ NodeFree(n, J, A, t1)
<1> DEFINE J == Jobs(t1)
           A == Attempts
           b == [status |-> "leased", job |-> j, node |-> n, fence |-> J[j].fence + 1,
                 lease |-> LeaseEnd(J[j].spec, t2, t2), started |-> t2, failure |-> "none"]
           q == HandedOut(J[j], a)
<1>1. /\ Rows(J, A) /\ Linked(J, A, rcpt) /\ HandsNothingOut(job, att, rcpt, now, J, A, t1)
      /\ now \in Nat /\ t1 \in Nat /\ now <= t1 /\ NewlyReturned(job, J) = {}
  BY TransactionKept
<1>2. t2 \in Nat /\ t1 <= t2
  BY <1>1, LaterNat
<1>3. J[j].status = "queued"
  BY DEF ClaimJob, Oldest, Claimable
<1>4. att[a].status = "absent" /\ NodeFree(n, J, A, t1) /\ rcpt' = rcpt /\ now' = t2
  BY DEF ClaimJob, MayClaim
<1>5. A[a].status = "absent"
  BY <1>4 DEF Attempts, ReconciledAttempts, Expired, ActiveStates
<1>6. A[a].job = None /\ rcpt[a] = None
  BY <1>1, <1>5 DEF Linked, JobOfAttempt, Receipted
<1>7. q.status = "leased" /\ q.current = a /\ q.spec = J[j].spec
      /\ q.fence = J[j].fence + 1 /\ q.count = J[j].count + 1
  BY <1>1, HandedOutJob DEF Rows
<1>8. att' = [A EXCEPT ![a] = b] /\ job' = [J EXCEPT ![j] = q]
  BY DEF ClaimJob
<1>9. /\ b.status = "leased" /\ b.job = j /\ b.node = n /\ b.fence = J[j].fence + 1
      /\ b.started = t2
  OBVIOUS
<1> HIDE DEF J, A, b, q
<1>10. /\ \A x \in Attempt : x # a => att'[x] = A[x]
       /\ att'[a] = b
       /\ \A k \in Job : k # j => job'[k] = J[k]
       /\ job'[j] = q
  BY <1>1, <1>8 DEF Rows
<1> QED
  BY <1>1, <1>2, <1>3, <1>4, <1>5, <1>6, <1>7, <1>9, <1>10 DEF J, A
-----------------------------------------------------------------------------
(* What is decided is final. *)

\* No operation writes a receipt over a receipt.
LEMMA ReceiptsKept ==
  ASSUME IInv, [Next]_vars, NEW a \in Attempt, rcpt[a] # None
  PROVE  rcpt'[a] = rcpt[a]
<1>1. ASSUME NEW n \in Node, NEW x \in Attempt, NEW token, NEW v, NEW m, NEW t1, NEW t2,
             Complete(n, x, token, v, m, t1, t2)
      PROVE  rcpt'[a] = rcpt[a]
  BY <1>1 DEF Complete, IInv, TypeOK
<1>2. ASSUME NEW n \in Node, NEW x \in Attempt, NEW token \in Tokens, AttemptNext(n, x, token)
      PROVE  rcpt'[a] = rcpt[a]
  BY <1>1, <1>2 DEF AttemptNext, AttachOutput, GetAttempt, HeartbeatStop, CompleteReplay,
                    OnlyReconciled, HeartbeatRenew, Fail
<1>3. ASSUME NEW n \in Node, NEW r \in Request, ClaimNext(n, r)
      PROVE  rcpt'[a] = rcpt[a]
  BY <1>3 DEF ClaimNext, ClaimReplay, ClaimNothing, ClaimJob, OnlyReconciled
<1>4. CASE OperatorNext
  BY <1>4 DEF OperatorNext, PutBlob, Enqueue, Cancel, Drain, Reconcile, OnlyReconciled
<1>5. ASSUME NEW n \in Node, NEW reg1 \in Registrations, Register(n, reg1)
      PROVE  rcpt'[a] = rcpt[a]
  BY <1>5 DEF Register
<1>6. CASE UNCHANGED vars \/ Tick
  BY <1>6 DEF vars, Tick
<1> QED
  BY <1>2, <1>3, <1>4, <1>5, <1>6 DEF Next, NodeNext

\* A claim leaves alone what has ended: it hands out a job that reconciliation
\* left queued, which no ended job is.
LEMMA DecidedStep ==
  ASSUME IInv, [Next]_vars
  PROVE  /\ \A j \in Job :
              /\ job[j].status \in {"failed", "cancelled"} => job'[j].status \in {"failed", "cancelled"}
              /\ job[j].status = "returned" => job'[j] = job[j]
         /\ \A a \in Attempt : rcpt[a] # None => rcpt'[a] = rcpt[a] /\ att'[a] = att[a]
<1>1. CASE Quiet
  BY <1>1, ReceiptsKept DEF Quiet, HandsNothingOut, JobKept, AttemptKept
<1>2. CASE ClaimStep
  <2> PICK n \in Node, r \in Request, j \in Job, a \in Attempt, t1 \in Later(now) :
        \E t2 \in Later(t1) : ClaimJob(n, r, j, a, t1, t2)
    BY <1>2 DEF ClaimStep
  <2> PICK t2 \in Later(t1) : ClaimJob(n, r, j, a, t1, t2)
    OBVIOUS
  <2>1. \A k \in Job : JobKept(job[k], Jobs(t1)[k])
    BY ClaimEffect DEF HandsNothingOut
  <2>2. \A x \in Attempt : AttemptKept(att[x], Attempts[x], rcpt[x] # None)
    BY ClaimEffect DEF HandsNothingOut
  <2>3. /\ Jobs(t1)[j].status = "queued" /\ \A k \in Job : k # j => job'[k] = Jobs(t1)[k]
        /\ rcpt[a] = None /\ \A x \in Attempt : x # a => att'[x] = Attempts[x]
    BY ClaimEffect
  <2> QED
    BY <2>1, <2>2, <2>3, ReceiptsKept DEF JobKept, AttemptKept
<1> QED
  BY <1>1, <1>2, StepCases

\* Nothing that was decided of a job or answered to a node is decided again:
\* not by a late completion, a cancellation, a claim or a reconciliation.
THEOREM DecidedFinal == Spec => DecidedIsFinal
<1>1. IInv /\ [Next]_vars =>
        [\A j \in Job :
           /\ job[j].status \in {"failed", "cancelled"} => job'[j].status \in {"failed", "cancelled"}
           /\ job[j].status = "returned" => job'[j] = job[j]]_vars
  BY DecidedStep
<1>2. IInv /\ [Next]_vars =>
        [\A a \in Attempt : rcpt[a] # None => rcpt'[a] = rcpt[a] /\ att'[a] = att[a]]_vars
  BY DecidedStep
<1> QED
  BY <1>1, <1>2, InitInv, NextInv, PTL DEF Spec, DecidedIsFinal, EndedStaysEnded, AnsweredIsFinal
-----------------------------------------------------------------------------
(* The order of the attempts of a job. *)

\* Fences and start times lie in the past, and the current attempt of a job is the
\* one with the highest fence.
Fenced(J, A, t) ==
  \A a \in Attempt : A[a].status # "absent" =>
    /\ A[a].fence <= J[A[a].job].fence /\ A[a].started <= t
    /\ J[A[a].job].current # None
    /\ J[A[a].job].current = a \/ A[a].fence < A[J[A[a].job].current].fence

\* A job id that was not submitted has no attempts, and a queued job may be handed out.
QueuedRetriable(J, A, t) ==
  \A j \in Job :
    /\ J[j].status = "absent" => J[j].current = None /\ J[j].count = 0
    /\ J[j].status = "queued" => Retriable(J[j], A, t)

\* RetryAfterGrace and OneActivePerNode, of any table of attempts.
Spaced(A) ==
  \A a, b \in Attempt :
    A[a].job = A[b].job /\ A[a].job # None /\ A[a].fence < A[b].fence
    => A[a].failure = "reported" \/ A[b].started >= A[a].lease + RetryGrace

OnePerNode(A) ==
  \A a, b \in Attempt :
    A[a].status \in ActiveStates /\ A[b].status \in ActiveStates /\ A[a].node = A[b].node => a = b

\* AttemptsCounted, with the finiteness that counting needs.
OfJob(A, j) == {a \in Attempt : A[a].job = j}
Counted(J, A) ==
  \A j \in Job :
    /\ IsFiniteSet(OfJob(A, j)) /\ J[j].count = Cardinality(OfJob(A, j))
    /\ J[j].status # "absent" => J[j].count <= J[j].spec.maxAttempts

Ordered(J, A, t) ==
  Fenced(J, A, t) /\ QueuedRetriable(J, A, t) /\ Spaced(A) /\ OnePerNode(A) /\ Counted(J, A)

\* A step that hands nothing out keeps the order of the attempts.
LEMMA OrderedKept ==
  ASSUME NEW J, NEW A, NEW R, NEW t \in Nat, NEW K, NEW B, NEW u \in Nat,
         Rows(J, A), Linked(J, A, R), Rows(K, B), Ordered(J, A, t),
         HandsNothingOut(J, A, R, t, K, B, u)
  PROVE  Ordered(K, B, u)
<1>1. /\ \A a \in Attempt : AttemptKept(A[a], B[a], R[a] # None)
      /\ \A j \in Job : JobKept(J[j], K[j])
      /\ \A j \in Job : K[j].status = "queued" =>
           J[j].status \in {"absent", "queued"} \/ Retriable(K[j], B, u)
      /\ t <= u
  BY DEF HandsNothingOut
<1>2. \A a \in Attempt : /\ A[a].fence \in Nat /\ A[a].started \in Nat /\ A[a].lease \in Nat
                         /\ B[a].fence \in Nat /\ B[a].started \in Nat /\ B[a].lease \in Nat
  BY DEF Rows, AttemptRow
<1>3. \A j \in Job : /\ J[j].fence \in Nat /\ K[j].fence \in Nat
                     /\ J[j].current # None => J[j].current \in Attempt
  BY DEF Rows, JobRow
<1>4. \A a \in Attempt : A[a].job # None => A[a].status # "absent"
  BY DEF Linked, JobOfAttempt
<1>5. Fenced(K, B, u)
  <2> SUFFICES ASSUME NEW a \in Attempt, B[a].status # "absent"
               PROVE  LET j == B[a].job IN
                      /\ B[a].fence <= K[j].fence /\ B[a].started <= u
                      /\ K[j].current # None
                      /\ K[j].current = a \/ B[a].fence < B[K[j].current].fence
    BY DEF Fenced
  <2> DEFINE j == A[a].job
  <2>1. A[a].status # "absent" /\ B[a].job = j /\ B[a].fence = A[a].fence /\ B[a].started = A[a].started
    BY <1>1 DEF AttemptKept
  <2>2. j \in Job /\ J[j].status # "absent"
    BY <2>1 DEF Linked, JobOfAttempt
  <2>3. K[j].current = J[j].current /\ J[j].fence <= K[j].fence
    BY <1>1, <2>2 DEF JobKept
  <2>4. /\ A[a].fence <= J[j].fence /\ A[a].started <= t /\ J[j].current # None
        /\ J[j].current = a \/ A[a].fence < A[J[j].current].fence
    BY <2>1 DEF Ordered, Fenced
  <2>5. B[J[j].current].fence = A[J[j].current].fence
    BY <1>1, <1>3, <2>2, <2>4 DEF AttemptKept
  <2> HIDE DEF j
  <2> QED
    BY <1>1, <1>2, <1>3, <2>1, <2>2, <2>3, <2>4, <2>5
<1>6. QueuedRetriable(K, B, u)
  <2> SUFFICES ASSUME NEW j \in Job
               PROVE  /\ K[j].status = "absent" => K[j].current = None /\ K[j].count = 0
                      /\ K[j].status = "queued" => Retriable(K[j], B, u)
    BY DEF QueuedRetriable
  <2>1. /\ J[j].status = "absent" => J[j].current = None /\ J[j].count = 0
        /\ J[j].status = "queued" => Retriable(J[j], A, t)
    BY DEF Ordered, QueuedRetriable
  <2>2. CASE K[j].status = "absent"
    BY <1>1, <2>1, <2>2 DEF JobKept
  <2>3. CASE K[j].status = "queued" /\ J[j].status = "absent"
    <3>1. K[j].current = None /\ K[j].count = 0 /\ K[j].spec \in JobSpecs
      BY <1>1, <2>3 DEF JobKept
    <3>2. K[j].spec.maxAttempts \in 1..3
      BY <3>1, StoreAssumption DEF Specs
    <3> QED
      BY <2>3, <3>1, <3>2 DEF Retriable
  <2>4. CASE K[j].status = "queued" /\ J[j].status = "queued"
    <3>1. K[j].current = J[j].current /\ K[j].count = J[j].count /\ K[j].spec = J[j].spec
      BY <1>1, <2>4 DEF JobKept
    <3>2. ASSUME J[j].current # None
          PROVE  /\ B[J[j].current].lease = A[J[j].current].lease
                 /\ B[J[j].current].failure = A[J[j].current].failure
                 /\ A[J[j].current].lease \in Nat
      <4>1. A[J[j].current].status \notin ActiveStates
        BY <1>3, <2>4, <3>2 DEF Linked, CurrentKept, Holding
      <4> QED
        BY <1>1, <1>2, <1>3, <3>2, <4>1 DEF AttemptKept
    <3> QED
      BY <1>1, <2>1, <2>4, <3>1, <3>2, StoreAssumption DEF Retriable
  <2> QED
    BY <1>1, <2>2, <2>3, <2>4
<1>7. Spaced(B)
  <2> SUFFICES ASSUME NEW a \in Attempt, NEW b \in Attempt,
                      B[a].job = B[b].job, B[a].job # None, B[a].fence < B[b].fence
               PROVE  B[a].failure = "reported" \/ B[b].started >= B[a].lease + RetryGrace
    BY DEF Spaced
  <2>1. /\ A[a].job = B[a].job /\ A[b].job = B[b].job /\ A[a].fence = B[a].fence
        /\ A[b].fence = B[b].fence /\ A[b].started = B[b].started
    BY <1>1 DEF AttemptKept
  <2>2. A[a].status \notin ActiveStates
    <3>1. A[b].status # "absent" /\ A[a].status # "absent" /\ A[a].job \in Job
      BY <1>4, <2>1 DEF Linked, JobOfAttempt
    <3>2. A[b].fence <= J[A[b].job].fence
      BY <3>1 DEF Ordered, Fenced
    <3>3. A[a].fence # J[A[a].job].fence
      BY <1>2, <1>3, <2>1, <3>1, <3>2
    <3> QED
      BY <3>3 DEF Linked, Holding
  <2>3. B[a].failure = A[a].failure /\ B[a].lease = A[a].lease
    BY <1>1, <2>2 DEF AttemptKept
  <2> QED
    BY <2>1, <2>3 DEF Ordered, Spaced
<1>8. OnePerNode(B)
  BY <1>1 DEF Ordered, OnePerNode, AttemptKept
<1>9. Counted(K, B)
  <2> SUFFICES ASSUME NEW j \in Job
               PROVE  /\ IsFiniteSet(OfJob(B, j)) /\ K[j].count = Cardinality(OfJob(B, j))
                      /\ K[j].status # "absent" => K[j].count <= K[j].spec.maxAttempts
    BY DEF Counted
  <2>1. OfJob(B, j) = OfJob(A, j)
    BY <1>1 DEF OfJob, AttemptKept
  <2>2. K[j].count = J[j].count
    BY <1>1 DEF JobKept, Ordered, QueuedRetriable
  <2>3. CASE J[j].status # "absent"
    BY <1>1, <2>1, <2>2, <2>3 DEF JobKept, Ordered, Counted
  <2>4. CASE J[j].status = "absent" /\ K[j].status = "absent"
    BY <2>1, <2>2, <2>4 DEF Ordered, Counted
  <2>5. CASE J[j].status = "absent" /\ K[j].status # "absent"
    <3>1. K[j].count = 0 /\ K[j].spec \in JobSpecs
      BY <1>1, <2>5 DEF JobKept
    <3>2. K[j].spec.maxAttempts \in 1..3
      BY <3>1, StoreAssumption DEF Specs
    <3>3. IsFiniteSet(OfJob(A, j)) /\ J[j].count = Cardinality(OfJob(A, j))
      BY DEF Ordered, Counted
    <3>4. 0 <= K[j].spec.maxAttempts
      BY <3>2
    <3> QED
      BY <2>1, <2>2, <3>1, <3>3, <3>4
  <2> QED
    BY <2>3, <2>4, <2>5
<1> QED
  BY <1>5, <1>6, <1>7, <1>8, <1>9 DEF Ordered

OInv == IInv /\ Ordered(job, att, now)

\* The empty tables are in order.
LEMMA OrderedInit == Init => OInv
<1> SUFFICES ASSUME Init PROVE Ordered(job, att, now)
  BY InitInv DEF OInv
<1>1. \A a \in Attempt : att[a].status = "absent" /\ att[a].job = None
  BY DEF Init, NoAttempt
<1>2. \A j \in Job : job[j].status = "absent" /\ job[j].current = None /\ job[j].count = 0
  BY DEF Init, NoJob
<1>3. Fenced(job, att, now) /\ QueuedRetriable(job, att, now) /\ Spaced(att) /\ OnePerNode(att)
  BY <1>1, <1>2 DEF Fenced, QueuedRetriable, Spaced, OnePerNode, ActiveStates
<1>4. \A j \in Job : OfJob(att, j) = {}
  BY <1>1, StoreAssumption DEF OfJob
<1>5. IsFiniteSet({}) /\ Cardinality({}) = 0
  BY FS_EmptySet
<1>6. Counted(job, att)
  BY <1>2, <1>4, <1>5 DEF Counted
<1> QED
  BY <1>3, <1>6 DEF Ordered

\* A claim keeps the order: the job was retriable, the fence is new, and nothing
\* ran on the node.
LEMMA OrderedClaim ==
  ASSUME OInv, IInv', ClaimStep
  PROVE  OInv'
<1> PICK n \in Node, r \in Request, j \in Job, a \in Attempt, t1 \in Later(now) :
      \E t2 \in Later(t1) : ClaimJob(n, r, j, a, t1, t2)
  BY DEF ClaimStep
<1> PICK t2 \in Later(t1) : ClaimJob(n, r, j, a, t1, t2)
  OBVIOUS
<1> DEFINE J == Jobs(t1)
           A == Attempts
<1>1. /\ Rows(J, A) /\ Linked(J, A, rcpt)
      /\ HandsNothingOut(job, att, rcpt, now, J, A, t1)
      /\ now \in Nat /\ t1 \in Nat /\ t2 \in Nat /\ t1 <= t2 /\ now' = t2
  BY ClaimEffect DEF OInv
<1>2. Ordered(J, A, t1)
  BY <1>1, OrderedKept DEF OInv, IInv, TypeOK, Rows
<1>3. /\ J[j].status = "queued" /\ A[a].status = "absent" /\ A[a].job = None
      /\ \A x \in Attempt : x # a => att'[x] = A[x]
      /\ att'[a].status = "leased" /\ att'[a].job = j /\ att'[a].node = n
      /\ att'[a].fence = J[j].fence + 1 /\ att'[a].started = t2
  BY ClaimEffect DEF OInv
<1>4. /\ \A k \in Job : k # j => job'[k] = J[k]
      /\ job'[j].status = "leased" /\ job'[j].current = a /\ job'[j].spec = J[j].spec
      /\ job'[j].fence = J[j].fence + 1 /\ job'[j].count = J[j].count + 1
      /\ NodeFree(n, J, A, t1)
  BY ClaimEffect DEF OInv
<1> HIDE DEF J, A
<1>5. \A x \in Attempt : A[x].fence \in Nat /\ A[x].started \in Nat /\ A[x].lease \in Nat
  BY <1>1 DEF Rows, AttemptRow
<1>6. \A k \in Job : /\ J[k].fence \in Nat /\ J[k].count \in Nat
                     /\ J[k].current # None => J[k].current \in Attempt
  BY <1>1 DEF Rows, JobRow
<1>7. \A x \in Attempt : A[x].status # "absent" => A[x].job \in Job
  BY <1>1 DEF Linked, JobOfAttempt
<1>8. Fenced(job', att', t2)
  <2> SUFFICES ASSUME NEW x \in Attempt, att'[x].status # "absent"
               PROVE  LET k == att'[x].job IN
                      /\ att'[x].fence <= job'[k].fence /\ att'[x].started <= t2
                      /\ job'[k].current # None
                      /\ job'[k].current = x \/ att'[x].fence < att'[job'[k].current].fence
    BY DEF Fenced
  <2>1. CASE x = a
    BY <1>1, <1>3, <1>4, <1>6, <2>1, StoreAssumption
  <2>2. CASE x # a
    <3>1. att'[x] = A[x] /\ A[x].status # "absent" /\ A[x].job \in Job
      BY <1>3, <1>7, <2>2
    <3>2. /\ A[x].fence <= J[A[x].job].fence /\ A[x].started <= t1 /\ J[A[x].job].current # None
          /\ J[A[x].job].current = x \/ A[x].fence < A[J[A[x].job].current].fence
      BY <1>2, <3>1 DEF Ordered, Fenced
    <3>3. A[x].started <= t2
      BY <1>1, <1>5, <3>2
    <3>4. CASE A[x].job = j
      BY <1>3, <1>4, <1>5, <1>6, <3>1, <3>2, <3>3, <3>4, StoreAssumption
    <3>5. CASE A[x].job # j
      <4>1. job'[A[x].job] = J[A[x].job] /\ J[A[x].job].current \in Attempt
        BY <1>4, <1>6, <3>1, <3>2, <3>5
      <4>2. J[A[x].job].current # a
        BY <1>1, <1>3, <3>1, <3>2, <4>1 DEF Linked, CurrentKept
      <4> QED
        BY <1>3, <3>1, <3>2, <3>3, <4>1, <4>2
    <3> QED
      BY <3>4, <3>5
  <2> QED
    BY <2>1, <2>2
<1>9. QueuedRetriable(job', att', t2)
  <2> SUFFICES ASSUME NEW k \in Job
               PROVE  /\ job'[k].status = "absent" => job'[k].current = None /\ job'[k].count = 0
                      /\ job'[k].status = "queued" => Retriable(job'[k], att', t2)
    BY DEF QueuedRetriable
  <2>1. CASE k = j
    BY <1>4, <2>1
  <2>2. CASE k # j
    <3>1. /\ job'[k] = J[k]
          /\ J[k].status = "absent" => J[k].current = None /\ J[k].count = 0
          /\ J[k].status = "queued" => Retriable(J[k], A, t1)
      BY <1>2, <1>4, <2>2 DEF Ordered, QueuedRetriable
    <3>2. J[k].current # None => J[k].current # a /\ J[k].current \in Attempt
      BY <1>1, <1>3, <1>6 DEF Linked, CurrentKept
    <3>3. J[k].current # None => /\ att'[J[k].current] = A[J[k].current]
                                 /\ A[J[k].current].lease \in Nat
      BY <1>3, <1>5, <3>2
    <3> QED
      BY <1>1, <3>1, <3>3, StoreAssumption DEF Retriable
  <2> QED
    BY <2>1, <2>2
<1>10. Spaced(att')
  <2> SUFFICES ASSUME NEW x \in Attempt, NEW y \in Attempt,
                      att'[x].job = att'[y].job, att'[x].job # None, att'[x].fence < att'[y].fence
               PROVE  att'[x].failure = "reported" \/ att'[y].started >= att'[x].lease + RetryGrace
    BY DEF Spaced
  <2>1. \A z \in Attempt : z # a /\ att'[z].job = j =>
          att'[z] = A[z] /\ A[z].status # "absent" /\ A[z].fence <= J[j].fence
    <3>1. \A z \in Attempt : z # a /\ att'[z].job = j => A[z].job = j /\ A[z].status # "absent"
      BY <1>1, <1>3, StoreAssumption DEF Linked, JobOfAttempt
    <3> QED
      BY <1>2, <1>3, <3>1 DEF Ordered, Fenced
  <2>2. CASE x = a
    BY <1>3, <1>5, <1>6, <2>1, <2>2
  <2>3. CASE x # a /\ y # a
    BY <1>2, <1>3, <2>3 DEF Ordered, Spaced
  <2>4. CASE x # a /\ y = a
    <3> DEFINE c == J[j].current
    <3>1. /\ att'[x] = A[x] /\ A[x].status # "absent" /\ A[x].job = j
      BY <1>3, <2>1, <2>4
    <3>2. c # None /\ (c = x \/ A[x].fence < A[c].fence) /\ c \in Attempt
      BY <1>2, <1>6, <3>1 DEF Ordered, Fenced
    <3>3. A[c].status # "absent" /\ A[c].job = j
      BY <1>1, <3>2 DEF Linked, CurrentKept
    <3>4. A[c].started <= t1
      BY <1>2, <3>2, <3>3 DEF Ordered, Fenced
    <3>5. A[c].failure = "reported" \/ t1 >= A[c].lease + RetryGrace
      BY <1>2, <1>3, <3>2 DEF Ordered, QueuedRetriable, Retriable
    <3>6. c # x => A[x].failure = "reported" \/ A[c].started >= A[x].lease + RetryGrace
      BY <1>2, <3>1, <3>2, <3>3 DEF Ordered, Spaced
    <3> HIDE DEF c
    <3> QED
      BY <1>1, <1>3, <1>5, <2>4, <3>1, <3>2, <3>4, <3>5, <3>6, StoreAssumption
  <2> QED
    BY <2>2, <2>3, <2>4
<1>11. OnePerNode(att')
  <2>1. \A x \in Attempt : A[x].node = n => A[x].status \notin ActiveStates
    BY <1>4 DEF NodeFree
  <2> QED
    BY <1>2, <1>3, <2>1 DEF Ordered, OnePerNode
<1>12. Counted(job', att')
  <2> SUFFICES ASSUME NEW k \in Job
               PROVE  /\ IsFiniteSet(OfJob(att', k)) /\ job'[k].count = Cardinality(OfJob(att', k))
                      /\ job'[k].status # "absent" => job'[k].count <= job'[k].spec.maxAttempts
    BY DEF Counted
  <2>1. /\ IsFiniteSet(OfJob(A, k)) /\ J[k].count = Cardinality(OfJob(A, k))
        /\ J[k].status # "absent" => J[k].count <= J[k].spec.maxAttempts
    BY <1>2 DEF Ordered, Counted
  <2>2. CASE k = j
    <3>1. a \notin OfJob(A, j)
      BY <1>3, StoreAssumption DEF OfJob
    <3>2. OfJob(att', j) = OfJob(A, j) \cup {a}
      BY <1>3 DEF OfJob
    <3>3. /\ IsFiniteSet(OfJob(A, j) \cup {a})
          /\ Cardinality(OfJob(A, j) \cup {a}) = Cardinality(OfJob(A, j)) + 1
      BY <2>1, <2>2, <3>1, FS_AddElement
    <3>4. J[j].count < J[j].spec.maxAttempts /\ J[j].spec \in JobSpecs
      BY <1>1, <1>2, <1>3 DEF Ordered, QueuedRetriable, Retriable, Linked, SpecKept
    <3>5. J[j].spec.maxAttempts \in Nat
      BY <3>4, StoreAssumption DEF Specs
    <3> QED
      BY <1>4, <1>6, <2>1, <2>2, <3>2, <3>3, <3>4, <3>5
  <2>3. CASE k # j
    <3>1. OfJob(att', k) = OfJob(A, k)
      BY <1>3, <2>3, StoreAssumption DEF OfJob
    <3> QED
      BY <1>4, <2>1, <2>3, <3>1
  <2> QED
    BY <2>2, <2>3
<1> QED
  BY <1>1, <1>8, <1>9, <1>10, <1>11, <1>12 DEF OInv, Ordered

\* Every step keeps the order of the attempts.
LEMMA OrderedNext == OInv /\ [Next]_vars => OInv'
<1> SUFFICES ASSUME OInv, [Next]_vars PROVE OInv'
  OBVIOUS
<1>1. IInv'
  BY NextInv DEF OInv
<1>2. CASE Quiet
  <2>1. now \in Nat /\ now' \in Nat /\ Rows(job, att) /\ Rows(job', att') /\ Linked(job, att, rcpt)
    BY <1>1 DEF OInv, IInv, TypeOK, Rows
  <2>2. Ordered(job', att', now')
    BY <1>2, <2>1, OrderedKept DEF Quiet, OInv
  <2> QED
    BY <1>1, <2>2 DEF OInv
<1>3. CASE ClaimStep
  BY <1>1, <1>3, OrderedClaim
<1> QED
  BY <1>2, <1>3, StepCases DEF OInv

\* A job is handed out again only a retry grace after every earlier lease ended,
\* however often it was renewed and whatever transaction noticed its end, unless
\* the earlier attempt reported its failure itself.
THEOREM RetryWaits == Spec => []RetryAfterGrace
<1>1. OInv => RetryAfterGrace
  BY DEF OInv, Ordered, Spaced, RetryAfterGrace
<1> QED
  BY <1>1, OrderedInit, OrderedNext, PTL DEF Spec

\* No node ever holds two active attempts, of one job or of two.
THEOREM NodeExclusive == Spec => []OneActivePerNode
<1>1. OInv => OneActivePerNode
  BY DEF OInv, Ordered, OnePerNode, OneActivePerNode, Active
<1> QED
  BY <1>1, OrderedInit, OrderedNext, PTL DEF Spec
-----------------------------------------------------------------------------
(* Receipts and the bytes they name. *)

RInv == IInv /\ ReceiptBindsArtifacts

\* A completion answers with exactly what is staged under the declared names.
LEMMA CompleteReceipt ==
  ASSUME RInv, IInv', NEW n \in Node, NEW a \in Attempt, NEW token \in Nat, NEW verdict \in Verdicts,
         NEW manifest \in Manifests, NEW t1 \in Later(now), NEW t2 \in Later(t1),
         Complete(n, a, token, verdict, manifest, t1, t2)
  PROVE  /\ arts' = arts /\ rcpt' \in [Attempt -> Receipts \cup {None}]
         /\ \A x \in Attempt : x # a => rcpt'[x] = rcpt[x]
         /\ rcpt'[a].manifest = arts[a] /\ rcpt'[a].status = att'[a].status
         /\ {m \in Name : arts[a][m] # None} = job[att[a].job].spec.outputs
<1> DEFINE J == Jobs(t1)
           A == Attempts
           reason == Reason(Live(J, A, a, token, t2), verdict)
           status == IF reason = "none" THEN "returned" ELSE "quarantined"
           receipt == [status |-> status, reason |-> reason, verdict |-> verdict,
                       manifest |-> manifest]
<1>1. /\ Rows(J, A) /\ HandsNothingOut(job, att, rcpt, now, J, A, t1)
  BY TransactionKept DEF RInv
<1>2. /\ att' = [A EXCEPT ![a] = WithStatus(A[a], status)]
      /\ rcpt' = [rcpt EXCEPT ![a] = receipt] /\ arts' = arts
      /\ {m \in Name : manifest[m] # None} = J[A[a].job].spec.outputs
      /\ manifest = arts[a] /\ att[a].status # "absent"
  BY DEF Complete, ManifestMatches, Owned
<1>3. A[a].job = att[a].job /\ att[a].job \in Job /\ job[att[a].job].status # "absent"
  BY <1>1, <1>2 DEF HandsNothingOut, AttemptKept, RInv, IInv, Linked, JobOfAttempt
<1>4. J[att[a].job].spec = job[att[a].job].spec
  BY <1>1, <1>3 DEF HandsNothingOut, JobKept
<1>5. att'[a].status = status
  BY <1>1, <1>2 DEF Rows, WithStatus, AttemptRow
<1>6. rcpt' \in [Attempt -> Receipts \cup {None}]
  BY DEF IInv, TypeOK
<1>7. rcpt'[a] = receipt /\ \A x \in Attempt : x # a => rcpt'[x] = rcpt[x]
  BY <1>2 DEF RInv, IInv, TypeOK
<1> HIDE DEF J, A, reason
<1> QED
  BY <1>2, <1>3, <1>4, <1>5, <1>6, <1>7

\* An upload never touches an answered attempt: all its names are staged.
LEMMA AttachReceipt ==
  ASSUME RInv, NEW n \in Node, NEW a \in Attempt, NEW name \in Name, NEW token, NEW c \in Content,
         AttachOutput(n, a, name, token, c), NEW x \in Attempt, rcpt[x] # None
  PROVE  arts'[x] = arts[x]
<1>1. CASE x = a
  <2>1. name \in job[att[a].job].spec.outputs /\ arts[a][name] = None
    BY DEF AttachOutput, Allowed
  <2>2. {m \in Name : arts[a][m] # None} = job[att[a].job].spec.outputs
    BY <1>1 DEF RInv, ReceiptBindsArtifacts
  <2> QED
    BY <2>1, <2>2
<1>2. CASE x # a
  BY <1>2 DEF AttachOutput, RInv, IInv, TypeOK
<1> QED
  BY <1>1, <1>2

\* What every other step leaves alone.
LEMMA ReceiptUntouched ==
  ASSUME RInv, [Next]_vars, ~(UNCHANGED <<rcpt, arts>>)
  PROVE  \E n \in Node, a \in Attempt, token \in Tokens :
           \/ \E name \in Name, c \in Content : AttachOutput(n, a, name, token, c)
           \/ \E t1 \in Later(now), v \in Verdicts, m \in Manifests :
                \E t2 \in Later(t1) : Complete(n, a, token, v, m, t1, t2)
<1>1. ASSUME NEW n \in Node, NEW r \in Request, ClaimNext(n, r)
      PROVE  UNCHANGED <<rcpt, arts>>
  BY <1>1 DEF ClaimNext, ClaimReplay, ClaimNothing, ClaimJob, OnlyReconciled
<1>2. ASSUME OperatorNext PROVE UNCHANGED <<rcpt, arts>>
  BY <1>2 DEF OperatorNext, PutBlob, Enqueue, Cancel, Drain, Reconcile, OnlyReconciled
<1>3. ASSUME NEW n \in Node, NEW reg1 \in Registrations, Register(n, reg1)
      PROVE  UNCHANGED <<rcpt, arts>>
  BY <1>3 DEF Register
<1>4. ASSUME UNCHANGED vars \/ Tick PROVE UNCHANGED <<rcpt, arts>>
  BY <1>4 DEF vars, Tick
<1>5. PICK n \in Node, a \in Attempt, token \in Tokens : AttemptNext(n, a, token)
  BY <1>1, <1>2, <1>3, <1>4 DEF Next, NodeNext
<1>6. CASE \E name \in Name, c \in Content : AttachOutput(n, a, name, token, c)
  BY <1>6
<1>7. ASSUME NEW t1 \in Later(now),
             \/ GetAttempt(n, a, t1) \/ HeartbeatStop(n, a, token, t1)
             \/ \E v \in Verdicts, m \in Manifests : CompleteReplay(n, a, token, v, m, t1)
      PROVE  UNCHANGED <<rcpt, arts>>
  BY <1>7 DEF GetAttempt, HeartbeatStop, CompleteReplay, OnlyReconciled
<1>8. ASSUME NEW t1 \in Later(now), NEW t2 \in Later(t1),
             \/ \E p \in ActiveStates : HeartbeatRenew(n, a, token, p, t1, t2)
             \/ \E ok \in BOOLEAN : Fail(n, a, token, ok, t1, t2)
      PROVE  UNCHANGED <<rcpt, arts>>
  BY <1>8 DEF HeartbeatRenew, Fail
<1>9. CASE ~(\E name \in Name, c \in Content : AttachOutput(n, a, name, token, c))
  <2>1. PICK t1 \in Later(now) :
          \/ GetAttempt(n, a, t1)
          \/ HeartbeatStop(n, a, token, t1)
          \/ \E v \in Verdicts, m \in Manifests : CompleteReplay(n, a, token, v, m, t1)
          \/ \E t2 \in Later(t1) :
               \/ \E p \in ActiveStates : HeartbeatRenew(n, a, token, p, t1, t2)
               \/ \E v \in Verdicts, m \in Manifests : Complete(n, a, token, v, m, t1, t2)
               \/ \E ok \in BOOLEAN : Fail(n, a, token, ok, t1, t2)
    BY <1>5, <1>9 DEF AttemptNext
  <2>2. PICK t2 \in Later(t1) :
               \/ \E p \in ActiveStates : HeartbeatRenew(n, a, token, p, t1, t2)
               \/ \E v \in Verdicts, m \in Manifests : Complete(n, a, token, v, m, t1, t2)
               \/ \E ok \in BOOLEAN : Fail(n, a, token, ok, t1, t2)
    BY <1>7, <2>1
  <2>3. \E v \in Verdicts, m \in Manifests : Complete(n, a, token, v, m, t1, t2)
    BY <1>8, <2>2
  <2> QED
    BY <2>3
<1> QED
  BY <1>6, <1>9

\* An attempt keeps its job, and the job its frozen specification.
LEMMA SpecFrozen ==
  ASSUME IInv, [Next]_vars, NEW a \in Attempt, att[a].status # "absent"
  PROVE  /\ att'[a].job = att[a].job /\ att[a].job \in Job /\ att'[a].status # "absent"
         /\ job'[att[a].job].spec = job[att[a].job].spec
<1> DEFINE j == att[a].job
<1>1. j \in Job /\ job[j].status # "absent"
  BY DEF IInv, Linked, JobOfAttempt
<1>2. CASE Quiet
  BY <1>1, <1>2 DEF Quiet, HandsNothingOut, AttemptKept, JobKept
<1>3. CASE ClaimStep
  <2> PICK n \in Node, r \in Request, k \in Job, b \in Attempt, t1 \in Later(now) :
        \E t2 \in Later(t1) : ClaimJob(n, r, k, b, t1, t2)
    BY <1>3 DEF ClaimStep
  <2> PICK t2 \in Later(t1) : ClaimJob(n, r, k, b, t1, t2)
    OBVIOUS
  <2>1. AttemptKept(att[a], Attempts[a], rcpt[a] # None) /\ JobKept(job[j], Jobs(t1)[j])
    BY <1>1, ClaimEffect DEF HandsNothingOut
  <2>2. att[b].status = "absent" /\ (a # b => att'[a] = Attempts[a])
    BY ClaimEffect
  <2>3. job'[j].spec = Jobs(t1)[j].spec
    BY <1>1, ClaimEffect
  <2> QED
    BY <1>1, <2>1, <2>2, <2>3 DEF AttemptKept, JobKept
<1> QED
  BY <1>2, <1>3, StepCases

\* Every step keeps receipts bound to what was staged.
LEMMA ReceiptNext == RInv /\ [Next]_vars => RInv'
<1> SUFFICES ASSUME RInv, [Next]_vars PROVE RInv'
  OBVIOUS
<1>1. IInv /\ IInv'
  BY NextInv DEF RInv
<1>2. ASSUME NEW a \in Attempt, rcpt[a] # None, arts'[a] = arts[a]
      PROVE  /\ rcpt'[a].manifest = arts'[a] /\ rcpt'[a].status = att'[a].status
             /\ {m \in Name : arts'[a][m] # None} = job'[att'[a].job].spec.outputs
  <2>1. /\ rcpt[a].manifest = arts[a] /\ rcpt[a].status = att[a].status
        /\ {m \in Name : arts[a][m] # None} = job[att[a].job].spec.outputs
    BY <1>2 DEF RInv, ReceiptBindsArtifacts
  <2>2. rcpt'[a] = rcpt[a] /\ att'[a] = att[a]
    BY <1>1, <1>2, DecidedStep
  <2>3. job'[att[a].job].spec = job[att[a].job].spec
    <3>1. att[a].status # "absent"
      BY <1>1, <1>2 DEF IInv, Linked, Receipted
    <3> QED
      BY <1>1, <3>1, SpecFrozen
  <2> QED
    BY <1>2, <2>1, <2>2, <2>3
<1>3. CASE UNCHANGED <<rcpt, arts>>
  BY <1>1, <1>2, <1>3 DEF RInv, ReceiptBindsArtifacts
<1>4. ASSUME NEW n \in Node, NEW a \in Attempt, NEW token \in Tokens, NEW name \in Name,
             NEW c \in Content, AttachOutput(n, a, name, token, c)
      PROVE  RInv'
  <2>1. rcpt' = rcpt
    BY <1>4 DEF AttachOutput
  <2>2. \A x \in Attempt : rcpt[x] # None => arts'[x] = arts[x]
    BY <1>4, AttachReceipt
  <2> QED
    BY <1>1, <1>2, <2>1, <2>2 DEF RInv, ReceiptBindsArtifacts
<1>5. ASSUME NEW n \in Node, NEW a \in Attempt, NEW token \in Tokens, NEW t1 \in Later(now),
             NEW v \in Verdicts, NEW m \in Manifests, NEW t2 \in Later(t1),
             Complete(n, a, token, v, m, t1, t2)
      PROVE  RInv'
  <2>1. /\ arts' = arts
        /\ \A x \in Attempt : x # a => rcpt'[x] = rcpt[x]
        /\ rcpt'[a].manifest = arts[a] /\ rcpt'[a].status = att'[a].status
        /\ {l \in Name : arts[a][l] # None} = job[att[a].job].spec.outputs
    BY <1>1, <1>5, CompleteReceipt, TokenNat
  <2>2. att[a].status # "absent"
    BY <1>5 DEF Complete, Owned
  <2>3. job'[att'[a].job].spec = job[att[a].job].spec
    BY <1>1, <2>2, SpecFrozen
  <2>4. \A x \in Attempt : x # a /\ rcpt'[x] # None =>
          /\ rcpt'[x].manifest = arts'[x] /\ rcpt'[x].status = att'[x].status
          /\ {l \in Name : arts'[x][l] # None} = job'[att'[x].job].spec.outputs
    BY <1>2, <2>1
  <2> QED
    BY <1>1, <2>1, <2>3, <2>4 DEF RInv, ReceiptBindsArtifacts
<1> QED
  BY <1>3, <1>4, <1>5, ReceiptUntouched

\* A receipt names exactly the bytes its attempt staged, for ever: the store
\* never accepts another upload under a name it has answered for.
THEOREM ReceiptsBind == Spec => []ReceiptBindsArtifacts
<1>1. Init => RInv
  <2> SUFFICES ASSUME Init PROVE ReceiptBindsArtifacts
    BY InitInv DEF RInv
  <2> QED
    BY DEF Init, ReceiptBindsArtifacts
<1>2. RInv => ReceiptBindsArtifacts
  BY DEF RInv
<1> QED
  BY <1>1, <1>2, ReceiptNext, PTL DEF Spec
-----------------------------------------------------------------------------
(* The store implements the exclusive lease. *)

Holder(J) == [j \in Job |-> IF J[j].status = "leased" THEN J[j].current ELSE None]
Result(J) == [j \in Job |-> IF J[j].status = "returned" THEN J[j].current ELSE None]
Issued(A) == {a \in Attempt : A[a].status # "absent"}
EndedLeases(J, K) == {j \in Job : J[j].status = "leased" /\ K[j].status # "leased"}

\* A step that hands nothing out only ends leases, and issues no attempt.
LEMMA QuietReleases ==
  ASSUME NEW J, NEW A, NEW R, NEW t, NEW K, NEW B, NEW u, HandsNothingOut(J, A, R, t, K, B, u)
  PROVE  /\ Holder(K) = [j \in Job |-> IF j \in EndedLeases(J, K) THEN None ELSE Holder(J)[j]]
         /\ Result(K) = [j \in Job |-> IF j \in NewlyReturned(J, K) THEN Holder(J)[j] ELSE Result(J)[j]]
         /\ Issued(B) = Issued(A)
         /\ NewlyReturned(J, K) \subseteq EndedLeases(J, K)
<1>1. /\ \A a \in Attempt : AttemptKept(A[a], B[a], R[a] # None)
      /\ \A j \in Job : JobKept(J[j], K[j])
  BY DEF HandsNothingOut
<1>2. Issued(B) = Issued(A)
  BY <1>1 DEF Issued, AttemptKept
<1>3. NewlyReturned(J, K) \subseteq EndedLeases(J, K)
  BY <1>1 DEF NewlyReturned, EndedLeases, JobKept
<1>4. Holder(K) = [j \in Job |-> IF j \in EndedLeases(J, K) THEN None ELSE Holder(J)[j]]
  <2>1. \A j \in Job : Holder(K)[j] = IF j \in EndedLeases(J, K) THEN None ELSE Holder(J)[j]
    BY <1>1 DEF Holder, EndedLeases, JobKept
  <2> QED
    BY <2>1 DEF Holder
<1>5. Result(K) = [j \in Job |-> IF j \in NewlyReturned(J, K) THEN Holder(J)[j] ELSE Result(J)[j]]
  <2>1. \A j \in Job : Result(K)[j] = IF j \in NewlyReturned(J, K) THEN Holder(J)[j] ELSE Result(J)[j]
    BY <1>1 DEF Holder, Result, NewlyReturned, JobKept
  <2> QED
    BY <2>1 DEF Result
<1> QED
  BY <1>2, <1>3, <1>4, <1>5

\* The state functions of the mapping, by their names here.
LEMMA LeaseMapping ==
  /\ Lease!Init <=> /\ Holder(job) = [j \in Job |-> None] /\ Result(job) = [j \in Job |-> None]
                    /\ Issued(att) = {}
  /\ \A S : Lease!Released(S) = [j \in Job |-> IF j \in S THEN None ELSE Holder(job)[j]]
  /\ \A S : Lease!Release(S) <=>
              /\ Holder(job') = Lease!Released(S)
              /\ Result(job') = Result(job) /\ Issued(att') = Issued(att)
  /\ \A S, j, k : Lease!Acquire(S, j, k) <=>
              /\ Lease!Released(S)[j] = None /\ Result(job)[j] = None /\ k \notin Issued(att)
              /\ Holder(job') = [Lease!Released(S) EXCEPT ![j] = k]
              /\ Issued(att') = Issued(att) \cup {k} /\ Result(job') = Result(job)
  /\ \A S, j : Lease!Accept(S, j) <=>
              /\ j \notin S /\ Holder(job)[j] # None /\ Result(job)[j] = None
              /\ Result(job') = [Result(job) EXCEPT ![j] = Holder(job)[j]]
              /\ Holder(job') = Lease!Released(S \cup {j}) /\ Issued(att') = Issued(att)
BY DEF Lease!Init, Lease!Released, Lease!Release, Lease!Acquire, Lease!Accept, Holder, Result, Issued

\* A step that hands nothing out releases leases, or accepts one result while it does.
LEMMA QuietLease ==
  ASSUME IInv, Quiet
  PROVE  Lease!Next
<1>1. PICK S \in SUBSET Job : S = EndedLeases(job, job')
  BY DEF EndedLeases
<1>2. PICK N \in SUBSET Job : N = NewlyReturned(job, job')
  BY DEF NewlyReturned
<1>3. /\ Holder(job') = [j \in Job |-> IF j \in S THEN None ELSE Holder(job)[j]]
      /\ Result(job') = [j \in Job |-> IF j \in N THEN Holder(job)[j] ELSE Result(job)[j]]
      /\ Issued(att') = Issued(att) /\ N \subseteq S
  BY <1>1, <1>2, QuietReleases DEF Quiet
<1>4. CASE N = {}
  <2>1. Result(job') = Result(job)
    BY <1>3, <1>4 DEF Result
  <2>2. Lease!Release(S)
    BY <1>3, <2>1, LeaseMapping
  <2> QED
    BY <2>2 DEF Lease!Next
<1>5. CASE N # {}
  <2>1. PICK j \in Job : j \in N
    BY <1>5
  <2>2. N = {j}
    BY <1>2, <2>1 DEF Quiet, HandsNothingOut
  <2>3. j \in S /\ job[j].status = "leased"
    BY <1>1, <1>3, <2>1 DEF EndedLeases
  <2>4. Holder(job)[j] # None /\ Result(job)[j] = None
    <3>1. job[j].current # None /\ job[j].status # "returned"
      BY <2>3 DEF IInv, Linked, CurrentKept
    <3> QED
      BY <2>3, <3>1 DEF Holder, Result
  <2>5. Result(job') = [Result(job) EXCEPT ![j] = Holder(job)[j]]
    <3>1. \A k \in Job : Result(job')[k] = IF k = j THEN Holder(job)[j] ELSE Result(job)[k]
      BY <1>3, <2>2
    <3> QED
      BY <3>1 DEF Result
  <2>6. PICK T \in SUBSET Job : T \cup {j} = S /\ j \notin T
    <3> WITNESS S \ {j} \in SUBSET Job
    <3> QED
      BY <2>3
  <2>7. Holder(job') = Lease!Released(T \cup {j})
    BY <1>3, <2>6, LeaseMapping
  <2>8. Lease!Accept(T, j)
    BY <1>3, <2>4, <2>5, <2>6, <2>7, LeaseMapping
  <2> QED
    BY <2>8 DEF Lease!Next
<1> QED
  BY <1>4, <1>5

\* A claim acquires one job, after the leases its reconciliation ends.
LEMMA ClaimLease ==
  ASSUME IInv, ClaimStep
  PROVE  Lease!Next
<1> PICK n \in Node, r \in Request, j \in Job, a \in Attempt, t1 \in Later(now) :
      \E t2 \in Later(t1) : ClaimJob(n, r, j, a, t1, t2)
  BY DEF ClaimStep
<1> PICK t2 \in Later(t1) : ClaimJob(n, r, j, a, t1, t2)
  OBVIOUS
<1> DEFINE J == Jobs(t1)
           A == Attempts
           S == EndedLeases(job, J)
<1>1. HandsNothingOut(job, att, rcpt, now, J, A, t1) /\ NewlyReturned(job, J) = {}
  BY ClaimEffect
<1>2. /\ J[j].status = "queued" /\ A[a].status = "absent" /\ att[a].status = "absent"
      /\ \A x \in Attempt : x # a => att'[x] = A[x]
      /\ att'[a].status = "leased"
      /\ \A k \in Job : k # j => job'[k] = J[k]
      /\ job'[j].status = "leased" /\ job'[j].current = a
  BY ClaimEffect
<1>3. /\ Holder(J) = [k \in Job |-> IF k \in S THEN None ELSE Holder(job)[k]]
      /\ Result(J) = [k \in Job |-> IF k \in NewlyReturned(job, J) THEN Holder(job)[k] ELSE Result(job)[k]]
      /\ Issued(A) = Issued(att)
  BY <1>1, QuietReleases
<1>4. S \in SUBSET Job
  BY DEF EndedLeases
<1> HIDE DEF J, A, S
<1>5. Lease!Released(S) = Holder(J)
  BY <1>3, LeaseMapping
<1>6. Result(J) = Result(job)
  BY <1>1, <1>3 DEF Result
<1>7. Holder(J)[j] = None /\ Result(J)[j] = None /\ a \notin Issued(att)
  BY <1>2 DEF Holder, Result, Issued
<1>8. Holder(job') = [Holder(J) EXCEPT ![j] = a]
  BY <1>2 DEF Holder
<1>9. Result(job') = Result(J)
  <2>1. \A k \in Job : Result(job')[k] = Result(J)[k]
    BY <1>2 DEF Result
  <2> QED
    BY <2>1 DEF Result
<1>10. Issued(att') = Issued(A) \cup {a}
  BY <1>2 DEF Issued
<1>11. Lease!Acquire(S, j, a)
  BY <1>3, <1>5, <1>6, <1>7, <1>8, <1>9, <1>10, LeaseMapping
<1> QED
  BY <1>4, <1>11 DEF Lease!Next

\* The compute store implements the exclusive lease, for any number of nodes,
\* jobs and attempts and any retry policy: initial states map to initial states,
\* and every operation to a release, an acquisition or an acceptance.
THEOREM StoreRefinesLease == Spec => StoreIsLease
<1>1. Init => Lease!Init
  <2> SUFFICES ASSUME Init PROVE Lease!Init
    OBVIOUS
  <2>1. /\ \A j \in Job : job[j].status = "absent"
        /\ \A a \in Attempt : att[a].status = "absent"
    BY DEF Init, NoJob, NoAttempt
  <2>2. Holder(job) = [j \in Job |-> None] /\ Result(job) = [j \in Job |-> None] /\ Issued(att) = {}
    BY <2>1 DEF Holder, Result, Issued
  <2> QED
    BY <2>2, LeaseMapping
<1>2. IInv /\ [Next]_vars => [Lease!Next]_(Lease!lvars)
  BY StepCases, QuietLease, ClaimLease
<1> QED
  BY <1>1, <1>2, InitInv, NextInv, PTL DEF Spec, StoreIsLease, Lease!Spec
-----------------------------------------------------------------------------
(* The books: reservations, claims and attempts. *)

CostOf(J, A) == [a \in Issued(A) |-> Cost(J[A[a].job].spec)]

\* Finitely many attempts were issued, their reservations add up to the account,
\* and the claims table names exactly the issued attempts.
Ledger ==
  /\ IsFiniteSet(Issued(att)) /\ \A a \in Issued(att) : att[a].node \in Node
  /\ reserved = SumOf(CostOf(job, att), Issued(att)) /\ reserved <= CpuBudget
  /\ ClaimOfAttempt
  /\ \A n \in Node, r \in Request : claims[n][r] \in Attempt => claims[n][r] \in Issued(att)

LInv == OInv /\ Ledger

\* Only a claim that serves a job books anything; an empty answer names no attempt.
LEMMA BooksUntouched ==
  ASSUME IInv, [Next]_vars, ~ClaimStep
  PROVE  /\ reserved' = reserved
         /\ \/ claims' = claims
            \/ \E n \in Node, r \in Request : claims[n][r] = "unclaimed"
                 /\ claims' = [claims EXCEPT ![n][r] = None]
<1> DEFINE Goal == /\ reserved' = reserved
                   /\ \/ claims' = claims
                      \/ \E n \in Node, r \in Request : claims[n][r] = "unclaimed"
                           /\ claims' = [claims EXCEPT ![n][r] = None]
<1>1. ASSUME NEW n \in Node, NEW r \in Request, ClaimNext(n, r) PROVE Goal
  <2>1. PICK t1 \in Later(now) : ClaimReplay(n, r, t1) \/ ClaimNothing(n, r, t1)
    BY <1>1 DEF ClaimNext, ClaimStep
  <2>2. CASE ClaimReplay(n, r, t1)
    BY <2>2 DEF ClaimReplay, OnlyReconciled
  <2>3. CASE ClaimNothing(n, r, t1)
    BY <2>3 DEF ClaimNothing, MayClaim
  <2> QED
    BY <2>1, <2>2, <2>3
<1>2. ASSUME NEW n \in Node, NEW a \in Attempt, NEW token \in Tokens, AttemptNext(n, a, token)
      PROVE  Goal
  <2>1. UNCHANGED <<claims, reserved>>
    BY <1>2 DEF AttemptNext, AttachOutput, GetAttempt, HeartbeatStop, CompleteReplay,
                OnlyReconciled, HeartbeatRenew, Complete, Fail
  <2> QED
    BY <2>1
<1>3. CASE OperatorNext
  BY <1>3 DEF OperatorNext, PutBlob, Enqueue, Cancel, Drain, Reconcile, OnlyReconciled
<1>4. ASSUME NEW n \in Node, NEW reg1 \in Registrations, Register(n, reg1) PROVE Goal
  BY <1>4 DEF Register
<1>5. CASE UNCHANGED vars \/ Tick
  BY <1>5 DEF vars, Tick
<1> QED
  BY <1>1, <1>2, <1>3, <1>4, <1>5 DEF Next, NodeNext

\* A step that hands nothing out leaves the books balanced.
LEMMA LedgerQuiet ==
  ASSUME LInv, OInv', [Next]_vars, Quiet, ~ClaimStep
  PROVE  Ledger'
<1>1. Issued(att') = Issued(att)
  BY QuietReleases DEF Quiet
<1>2. ASSUME NEW a \in Issued(att)
      PROVE  att'[a].node = att[a].node /\ CostOf(job', att')[a] = CostOf(job, att)[a]
  <2>1. a \in Attempt /\ att[a].status # "absent"
    BY DEF Issued
  <2>2. att'[a].node = att[a].node
    BY <2>1 DEF Quiet, HandsNothingOut, AttemptKept
  <2>3. att'[a].job = att[a].job /\ job'[att[a].job].spec = job[att[a].job].spec
    BY <2>1, SpecFrozen DEF LInv, OInv
  <2> QED
    BY <1>1, <2>2, <2>3 DEF CostOf
<1>3. reserved' = SumOf(CostOf(job', att'), Issued(att'))
  <2>1. reserved' = reserved /\ IsFiniteSet(Issued(att))
    BY BooksUntouched DEF LInv, OInv, Ledger
  <2>2. SumOf(CostOf(job', att'), Issued(att)) = SumOf(CostOf(job, att), Issued(att))
    BY <1>2, <2>1, SumSame
  <2> QED
    BY <1>1, <2>1, <2>2 DEF LInv, Ledger
<1>4. claims \in [Node -> [Request -> Attempt \cup {None, "unclaimed"}]]
  BY DEF LInv, OInv, IInv, TypeOK
<1>5. \A n \in Node, r \in Request :
        claims'[n][r] = claims[n][r] \/ (claims[n][r] \notin Attempt /\ claims'[n][r] \notin Attempt)
  BY <1>4, BooksUntouched, StoreAssumption DEF LInv, OInv
<1>6. \A n \in Node, r \in Request, a \in Attempt : claims'[n][r] = a <=> claims[n][r] = a
  BY <1>5
<1>7. ClaimOfAttempt'
  <2> SUFFICES ASSUME NEW a \in Attempt, att'[a].status # "absent"
               PROVE  /\ \E r \in Request : claims'[att'[a].node][r] = a
                      /\ \A c, d \in Node \X Request :
                           claims'[c[1]][c[2]] = a /\ claims'[d[1]][d[2]] = a => c = d
    BY DEF ClaimOfAttempt
  <2>1. a \in Issued(att)
    BY <1>1 DEF Issued
  <2>2. /\ \E r \in Request : claims[att[a].node][r] = a
        /\ \A c, d \in Node \X Request :
             claims[c[1]][c[2]] = a /\ claims[d[1]][d[2]] = a => c = d
    BY <2>1 DEF LInv, Ledger, ClaimOfAttempt, Issued
  <2>3. att[a].node \in Node
    BY <2>1 DEF LInv, Ledger
  <2> QED
    BY <1>2, <1>6, <2>1, <2>2, <2>3
<1>8. \A n \in Node, r \in Request : claims'[n][r] \in Attempt => claims'[n][r] \in Issued(att')
  BY <1>1, <1>6 DEF LInv, Ledger
<1> QED
  BY <1>1, <1>2, <1>3, <1>7, <1>8, BooksUntouched DEF LInv, OInv, Ledger

\* A claim books the job's full cost once, under one request of the node.
LEMMA LedgerClaim ==
  ASSUME LInv, OInv', ClaimStep
  PROVE  Ledger'
<1> PICK n \in Node, r \in Request, j \in Job, a \in Attempt, t1 \in Later(now) :
      \E t2 \in Later(t1) : ClaimJob(n, r, j, a, t1, t2)
  BY DEF ClaimStep
<1> PICK t2 \in Later(t1) : ClaimJob(n, r, j, a, t1, t2)
  OBVIOUS
<1> DEFINE J == Jobs(t1)
           A == Attempts
           U == Issued(att)
<1>1. HandsNothingOut(job, att, rcpt, now, J, A, t1) /\ Linked(J, A, rcpt) /\ Rows(J, A)
  BY ClaimEffect DEF LInv, OInv
<1>2. /\ J[j].status = "queued" /\ att[a].status = "absent"
      /\ \A x \in Attempt : x # a => att'[x] = A[x]
      /\ att'[a].status = "leased" /\ att'[a].job = j /\ att'[a].node = n
      /\ \A k \in Job : k # j => job'[k] = J[k]
      /\ job'[j].spec = J[j].spec
  BY ClaimEffect DEF LInv, OInv
<1>3. /\ claims[n][r] = "unclaimed" /\ claims' = [claims EXCEPT ![n][r] = a]
      /\ reserved' = reserved + Cost(J[j].spec) /\ reserved' <= CpuBudget
  BY DEF ClaimJob, MayClaim
<1> HIDE DEF J, A
<1>4. Issued(A) = U
  BY <1>1, QuietReleases
<1>5. Issued(att') = U \cup {a} /\ a \notin U
  BY <1>2, <1>4 DEF Issued
<1>6. ASSUME NEW x \in U
      PROVE  /\ x # a /\ att'[x].node = att[x].node
             /\ CostOf(job', att')[x] = CostOf(job, att)[x] /\ CostOf(job, att)[x] \in Nat
  <2>1. x \in Attempt /\ att[x].status # "absent" /\ x # a
    BY <1>5 DEF Issued
  <2>2. /\ att'[x] = A[x] /\ A[x].node = att[x].node /\ A[x].job = att[x].job
    BY <1>1, <1>2, <2>1 DEF HandsNothingOut, AttemptKept
  <2>3. att[x].job \in Job /\ job[att[x].job].status # "absent" /\ job[att[x].job].spec \in JobSpecs
    BY <2>1 DEF LInv, OInv, IInv, Linked, JobOfAttempt, SpecKept
  <2>4. J[att[x].job].spec = job[att[x].job].spec
    BY <1>1, <2>3 DEF HandsNothingOut, JobKept
  <2>5. job'[att[x].job].spec = J[att[x].job].spec
    BY <1>2, <2>3
  <2> QED
    BY <1>5, <2>1, <2>2, <2>3, <2>4, <2>5, CostNat DEF CostOf
<1>7. CostOf(job', att')[a] = Cost(J[j].spec) /\ Cost(J[j].spec) \in Nat
  <2>1. J[j].spec \in JobSpecs
    BY <1>1, <1>2 DEF Linked, SpecKept
  <2> QED
    BY <1>2, <1>5, <2>1, CostNat DEF CostOf
<1>8. IsFiniteSet(U) /\ IsFiniteSet(U \cup {a})
  BY FS_AddElement DEF LInv, Ledger
<1>9. reserved' = SumOf(CostOf(job', att'), Issued(att'))
  <2> DEFINE f == CostOf(job, att)
             g == CostOf(job', att')
  <2>1. /\ \A x \in U : g[x] = f[x] /\ g[x] \in Nat
        /\ g[a] = Cost(J[j].spec) /\ g[a] \in Nat
    BY <1>6, <1>7
  <2> HIDE DEF f, g, U
  <2>2. SumOf(g, U \cup {a}) = SumOf(g, U) + g[a]
    BY <1>5, <1>8, <2>1, SumAdd
  <2>3. SumOf(g, U) = SumOf(f, U)
    BY <1>8, <2>1, SumSame
  <2>4. reserved = SumOf(f, U)
    BY DEF LInv, Ledger, f, U
  <2>5. reserved' = SumOf(g, U \cup {a})
    BY <1>3, <2>1, <2>2, <2>3, <2>4
  <2> QED
    BY <1>5, <2>5 DEF g
<1>10. claims \in [Node -> [Request -> Attempt \cup {None, "unclaimed"}]]
  BY DEF LInv, OInv, IInv, TypeOK
<1>11. /\ claims'[n][r] = a
       /\ \A m \in Node, s \in Request : <<m, s>> # <<n, r>> => claims'[m][s] = claims[m][s]
  BY <1>3, <1>10
<1>12. \A m \in Node, s \in Request : claims[m][s] # a
  BY <1>5 DEF LInv, Ledger
<1>13. ClaimOfAttempt'
  <2> SUFFICES ASSUME NEW x \in Attempt, att'[x].status # "absent"
               PROVE  /\ \E s \in Request : claims'[att'[x].node][s] = x
                      /\ \A c, d \in Node \X Request :
                           claims'[c[1]][c[2]] = x /\ claims'[d[1]][d[2]] = x => c = d
    BY DEF ClaimOfAttempt
  <2>1. CASE x = a
    <3>1. \A c \in Node \X Request : claims'[c[1]][c[2]] = a => c = <<n, r>>
      BY <1>11, <1>12
    <3> QED
      BY <1>2, <1>11, <2>1, <3>1
  <2>2. CASE x # a
    <3>1. x \in U
      BY <1>5, <2>2 DEF Issued
    <3>2. /\ \E s \in Request : claims[att[x].node][s] = x
          /\ \A c, d \in Node \X Request :
               claims[c[1]][c[2]] = x /\ claims[d[1]][d[2]] = x => c = d
          /\ att[x].node \in Node
      BY <3>1 DEF LInv, Ledger, ClaimOfAttempt, Issued
    <3>3. claims[n][r] # x
      BY <1>3, StoreAssumption
    <3>4. \A m \in Node, s \in Request : claims'[m][s] = x <=> claims[m][s] = x
      BY <1>11, <2>2, <3>3
    <3> QED
      BY <1>6, <3>1, <3>2, <3>4
  <2> QED
    BY <2>1, <2>2
<1>14. \A m \in Node, s \in Request : claims'[m][s] \in Attempt => claims'[m][s] \in Issued(att')
  BY <1>5, <1>11 DEF LInv, Ledger
<1>15. \A x \in Issued(att') : att'[x].node \in Node
  BY <1>2, <1>5, <1>6 DEF LInv, Ledger
<1> QED
  BY <1>3, <1>5, <1>8, <1>9, <1>13, <1>14, <1>15 DEF Ledger

\* The books begin empty, and every operation keeps them.
LEMMA LedgerInit == Init => LInv
<1> SUFFICES ASSUME Init PROVE Ledger
  BY OrderedInit DEF LInv
<1>1. Issued(att) = {} /\ reserved = 0
  BY DEF Init, Issued, NoAttempt
<1>2. SumOf(CostOf(job, att), {}) = 0 /\ IsFiniteSet({})
  BY SumEmpty, FS_EmptySet
<1>3. \A n \in Node, r \in Request : claims[n][r] \notin Attempt
  BY StoreAssumption DEF Init
<1>4. ClaimOfAttempt
  BY DEF Init, ClaimOfAttempt, NoAttempt
<1> QED
  BY <1>1, <1>2, <1>3, <1>4, StoreAssumption DEF Ledger

\* So do the books: what a claim reserves it also records.
LEMMA LedgerNext == LInv /\ [Next]_vars => LInv'
BY OrderedNext, StepCases, LedgerQuiet, LedgerClaim DEF LInv, OInv

\* The books of a campaign agree for ever: the account is the sum of what the
\* issued attempts cost and stays within the budget, every attempt is named by
\* one claim of its node, and a job counts its attempts, at most maxAttempts.
THEOREM BooksAgree == Spec => []ClaimsAccounted
<1>1. LInv => ClaimsAccounted
  <2> SUFFICES ASSUME LInv PROVE ClaimsAccounted
    OBVIOUS
  <2>1. ReservedOnce
    BY DEF LInv, Ledger, ReservedOnce, SumOf, CostOf, Issued
  <2>2. AttemptsCounted
    BY DEF LInv, OInv, Ordered, Counted, OfJob, AttemptsCounted
  <2> QED
    BY <2>1, <2>2 DEF LInv, Ledger, ClaimsAccounted
<1> QED
  BY <1>1, LedgerInit, LedgerNext, PTL DEF Spec
=============================================================================
