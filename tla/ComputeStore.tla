---------------------------- MODULE ComputeStore ----------------------------
(***************************************************************************)
(* The coordinator of the compute staging plane: class Store of            *)
(* scripts/sclib_compute/store.py, reached through the routes of           *)
(* scripts/sclib_compute/api.py.  Every mutating method runs inside one    *)
(* BEGIN IMMEDIATE transaction of one SQLite file, so every method is one  *)
(* action here.  A method that raises ComputeError rolls its transaction   *)
(* back, the reconciliation it began with included: it is a disabled       *)
(* action.  A method that returns normally commits that reconciliation.    *)
(*                                                                         *)
(* A transaction reads the wall clock more than once.  now is the first    *)
(* reading, which _reconcile uses; t1 and t2 are later readings of the     *)
(* same transaction, at most Gap apart from it.                            *)
(*                                                                         *)
(* Data: an artifact is a member of Content (its hash), of Bytes[c] bytes; *)
(* a completion is its manifest and a verdict, which says whether it names *)
(* the frozen input and runtime and stays inside the wall budget.          *)
(* Elapsed seconds, observed memory and the event log are left out.        *)
(***************************************************************************)
EXTENDS Naturals, FiniteSets, FiniteSetsExt

CONSTANTS
  Job,            \* job ids; numbers, since claims are served in id order
  Node,           \* node ids fixed by the client certificates
  Attempt,        \* attempt ids (fresh uuids)
  Request,        \* claim_request_ids
  Name,           \* output basenames
  Content,        \* artifact hashes
  Kind, Runtime,  \* job kinds and runtime ids
  EnabledKinds,   \* ServiceConfig.enabled_job_kinds
  Grant,          \* what each node's certificate allows it to declare
  JobSpecs,       \* the job specifications an operator may submit
  LeaseSeconds, RetryGrace, MaxCores, MaxWall, CpuBudget,
  MaxJobs, MaxClaims,
  Bytes,          \* the size of each artifact
  MaxArtifact, MaxOutput, MaxTotal,  \* limits on one artifact, a job's outputs, all blobs
  Gap,            \* longest time between two clock readings of a transaction
  MaxTime,        \* bound on the clock, for model checking
  None            \* SQL NULL, and the absence of a row

ActiveStates == {"leased", "preparing", "running", "uploading"}
JobStates == {"absent", "queued", "leased", "lost", "returned", "failed", "cancelled"}
AttemptStates == ActiveStates \cup
  {"absent", "lost", "failed", "returned", "quarantined", "cancelled"}
Verdicts == {"ok", "mismatch", "overrun"}
Registrations == [runtime : Runtime, caps : SUBSET Kind \ {{}}]
Manifests == [Name -> Content \cup {None}]
Receipts == [status : {"returned", "quarantined"}, reason : {"none", "stale", "mismatch", "overrun"},
             verdict : Verdicts, manifest : Manifests]
Specs == [kind : Kind, runtime : Runtime, cores : Nat \ {0}, wall : Nat \ {0},
          maxAttempts : 1..3, deadline : Nat, outputs : SUBSET Name, input : Content,
          limit : [Name -> Nat \ {0}], budget : Nat \ {0}]

\* Job ids are ordered; every limit of class Limits is a positive integer; the
\* output rules of a job fit the bytes it may return.
ASSUME StoreAssumption ==
  /\ Job \subseteq Nat
  /\ JobSpecs \subseteq Specs
  /\ \A s \in JobSpecs : MapThenSumSet(LAMBDA m : s.limit[m], s.outputs) <= s.budget
  /\ Bytes \in [Content -> Nat \ {0}]
  /\ Grant \in [Node -> Registrations]
  /\ {LeaseSeconds, RetryGrace, MaxCores, MaxWall, CpuBudget,
      MaxJobs, MaxClaims, MaxArtifact, MaxOutput, MaxTotal} \subseteq Nat \ {0}
  /\ Gap \in Nat /\ MaxTime \in Nat
  /\ None \notin Job \cup Attempt \cup Content /\ "unclaimed" \notin Attempt
  /\ None \notin JobSpecs /\ None \notin Receipts

VARIABLES
  now,        \* last clock reading
  reg,        \* nodes.registration
  drained,    \* nodes.drain
  job,        \* the jobs table
  att,        \* the attempts table
  rcpt,       \* attempts.receipt, with the completion it answers
  arts,       \* the artifacts table: what each attempt staged under each name
  claims,     \* the claims table
  blobs,      \* the blobs table
  reserved    \* accounting.reserved_cpu_core_seconds

vars == <<now, reg, drained, job, att, rcpt, arts, claims, blobs, reserved>>

NoJob == [status |-> "absent", spec |-> None, fence |-> 0, count |-> 0,
          current |-> None, created |-> 0]
NoAttempt == [status |-> "absent", job |-> None, node |-> None, fence |-> 0,
              lease |-> 0, started |-> 0, failure |-> "none"]
NoManifest == [m \in Name |-> None]

Init ==
  /\ now = 0
  /\ reg = [n \in Node |-> None]
  /\ drained = [n \in Node |-> FALSE]
  /\ job = [j \in Job |-> NoJob]
  /\ att = [a \in Attempt |-> NoAttempt]
  /\ rcpt = [a \in Attempt |-> None]
  /\ arts = [a \in Attempt |-> NoManifest]
  /\ claims = [n \in Node |-> [r \in Request |-> "unclaimed"]]
  /\ blobs = {}
  /\ reserved = 0

\* Readings the clock may give later in a transaction that has read t.
Later(t) == {u \in t..(now + Gap) : u <= MaxTime}
-----------------------------------------------------------------------------
(* The UPDATEs of the jobs and attempts tables, as functions of a row. *)

WithStatus(row, status) == [row EXCEPT !.status = status]
Ended(row, status, why) == [row EXCEPT !.status = status, !.failure = why]
Renewed(row, phase, until) == [row EXCEPT !.status = phase, !.lease = until]
Superseded(row, status) == [row EXCEPT !.status = status, !.fence = @ + 1]
HandedOut(row, a) ==
  [Superseded(row, "leased") EXCEPT !.count = @ + 1, !.current = a]
-----------------------------------------------------------------------------
(* Reconciliation: the first thing claim and the attempt operations do. *)

Expired(A, a, t) == A[a].status \in ActiveStates /\ A[a].lease <= t

\* The attempts after _reconcile: an expired lease is lost.
ReconciledAttempts(A, t) ==
  [a \in Attempt |->
     IF Expired(A, a, t)
     THEN Ended(A[a], "lost", "lease_expired") ELSE A[a]]

\* Faulty: writes a status no other operation knows.
AfterExpiryUnknownStatus(J, A, j, t) ==
  IF J[j].status = "leased" /\ (\E a \in Attempt : Expired(A, a, t) /\ J[j].current = a)
  THEN "expired" ELSE J[j].status

\* The status of job j after the three loops of _reconcile: its current
\* attempt expires, then its retry grace ends, then its deadline passes.
AfterExpiry(J, A, j, t) ==
  IF /\ J[j].status = "leased"
     /\ \E a \in Attempt : Expired(A, a, t) /\ A[a].job = j /\ J[j].current = a
  THEN "lost" ELSE J[j].status

\* Faulty: hands a job out as soon as its lease has ended.
AfterGraceTooEarly(J, A, j, t) ==
  LET s == AfterExpiry(J, A, j, t) IN
  IF s = "lost"
  THEN IF J[j].count < J[j].spec.maxAttempts /\ t < J[j].spec.deadline
       THEN "queued" ELSE "failed"
  ELSE s

AfterGrace(J, A, j, t) ==
  LET s == AfterExpiry(J, A, j, t) IN
  IF s = "lost" /\ t >= A[J[j].current].lease + RetryGrace
  THEN IF J[j].count < J[j].spec.maxAttempts /\ t < J[j].spec.deadline
       THEN "queued" ELSE "failed"
  ELSE s

\* Faulty: a queued job outlives its deadline.
AfterDeadlineIgnored(J, A, j, t, t1) == AfterGrace(J, A, j, t)

AfterDeadline(J, A, j, t, t1) ==
  LET s == AfterGrace(J, A, j, t) IN
  IF s = "queued" /\ t1 >= J[j].spec.deadline THEN "failed" ELSE s

ReconciledJobs(J, A, t, t1) ==
  [j \in Job |-> WithStatus(J[j], AfterDeadline(J, A, j, t, t1))]

\* What the rest of a transaction sees.
Attempts == ReconciledAttempts(att, now)
Jobs(t1) == ReconciledJobs(job, att, now, t1)

\* An operation that commits its reconciliation and nothing else.
OnlyReconciled(t1) ==
  /\ job' = Jobs(t1)
  /\ att' = Attempts
  /\ now' = t1
  /\ UNCHANGED <<reg, drained, rcpt, arts, claims, blobs, reserved>>

\* POST /reconcile, operator only.
Reconcile(t1) == OnlyReconciled(t1)
-----------------------------------------------------------------------------
(* Operator and node administration. *)

\* A node declares a subset of its grant, once; a replay changes nothing.
Register(n, r) ==
  /\ r.runtime = Grant[n].runtime /\ r.caps \subseteq Grant[n].caps
  /\ reg[n] = None
  /\ reg' = [reg EXCEPT ![n] = r]
  /\ UNCHANGED <<now, drained, job, att, rcpt, arts, claims, blobs, reserved>>

Drain(n, enabled) ==
  /\ reg[n] # None
  /\ drained' = [drained EXCEPT ![n] = enabled]
  /\ UNCHANGED <<now, reg, job, att, rcpt, arts, claims, blobs, reserved>>

\* The bytes of all blobs, and of what an attempt has staged.
Stored == MapThenSumSet(LAMBDA c : Bytes[c], blobs)
Staging(a) ==
  MapThenSumSet(LAMBDA m : Bytes[arts[a][m]], {m \in Name : arts[a][m] # None})

\* put_blob of new content, by stage_input or as the first half of an upload.
PutBlob(c) ==
  /\ c \notin blobs
  /\ Bytes[c] <= MaxArtifact /\ Stored + Bytes[c] <= MaxTotal
  /\ blobs' = blobs \cup {c}
  /\ UNCHANGED <<now, reg, drained, job, att, rcpt, arts, claims, reserved>>

\* A job id is an idempotency key: a replay only reads, a changed spec is refused.
Enqueue(j, s) ==
  /\ s.kind \in EnabledKinds
  /\ job[j].status = "absent"
  /\ s.cores <= MaxCores /\ s.wall <= MaxWall /\ s.budget <= MaxOutput
  /\ \A m \in s.outputs : s.limit[m] <= MaxArtifact
  /\ now < s.deadline
  /\ Cardinality({k \in Job : job[k].status # "absent"}) < MaxJobs
  /\ s.input \in blobs
  /\ job' = [job EXCEPT ![j] = [NoJob EXCEPT !.status = "queued", !.spec = s, !.created = now]]
  /\ UNCHANGED <<now, reg, drained, att, rcpt, arts, claims, blobs, reserved>>

\* Faulty: forgets the attempt that is running.
CancelJobOnly(j) ==
  /\ job[j].status \notin {"absent", "returned", "cancelled"}
  /\ job' = [job EXCEPT ![j] = Superseded(job[j], "cancelled")]
  /\ UNCHANGED <<now, reg, drained, att, rcpt, arts, claims, blobs, reserved>>

\* Faulty: cancels a returned job too.
CancelReturned(j) ==
  /\ job[j].status \notin {"absent", "cancelled"}
  /\ job' = [job EXCEPT ![j] = Superseded(job[j], "cancelled")]
  /\ UNCHANGED <<now, reg, drained, att, rcpt, arts, claims, blobs, reserved>>

\* Cancelling supersedes the fence; a returned job can no longer be cancelled.
Cancel(j) ==
  /\ job[j].status \notin {"absent", "returned", "cancelled"}
  /\ job' = [job EXCEPT ![j] = Superseded(job[j], "cancelled")]
  /\ att' = [a \in Attempt |-> IF job[j].current = a /\ rcpt[a] = None
                               THEN WithStatus(att[a], "cancelled") ELSE att[a]]
  /\ UNCHANGED <<now, reg, drained, rcpt, arts, claims, blobs, reserved>>
-----------------------------------------------------------------------------
(* Claims. *)

Serves(r, s) == s.kind \in r.caps /\ s.runtime = r.runtime

\* Faulty: looks only at lost attempts.
NodeFreeOfLost(n, J, A, t) ==
  \A a \in Attempt : A[a].node = n /\ A[a].status = "lost" => t >= A[a].lease + RetryGrace

\* No live attempt on the node, and no lost one whose work may still be running.
NodeFree(n, J, A, t) ==
  /\ \A a \in Attempt : A[a].node = n =>
       /\ A[a].status \notin ActiveStates
       /\ A[a].status = "lost" => t >= A[a].lease + RetryGrace
  /\ \A j \in Job : J[j].status = "lost" =>
       \/ A[J[j].current].node # n
       \/ t >= A[J[j].current].lease + RetryGrace

MayClaim(n, r, J, A, t) ==
  /\ claims[n][r] = "unclaimed"
  /\ Cardinality({c \in Node \X Request : claims[c[1]][c[2]] # "unclaimed"}) < MaxClaims
  /\ reg[n] # None /\ ~drained[n]
  /\ NodeFree(n, J, A, t)

Claimable(n, J) == {j \in Job : J[j].status = "queued" /\ Serves(reg[n], J[j].spec)}

\* ORDER BY created_at, job_id
Oldest(J, S) ==
  {j \in S : \A k \in S : \/ J[j].created < J[k].created
                          \/ J[j].created = J[k].created /\ j <= k}

Cost(s) == s.cores * s.wall

\* The end of a lease renewed at t for an attempt that started at t0.
LeaseEnd(s, t0, t) == Min({t + LeaseSeconds, t0 + s.wall, s.deadline})

\* Faulty: a replayed claim reserves its job once more.
ClaimReplayReserves(n, r, t1) ==
  /\ claims[n][r] \in Attempt
  /\ job' = Jobs(t1) /\ att' = Attempts /\ now' = t1
  /\ reserved' = reserved + Cost(job[att[claims[n][r]].job].spec)
  /\ reserved' <= CpuBudget
  /\ UNCHANGED <<reg, drained, rcpt, arts, claims, blobs>>

\* A known request id returns its first answer, in its present state.
ClaimReplay(n, r, t1) ==
  /\ claims[n][r] # "unclaimed"
  /\ OnlyReconciled(t1)

\* Nothing to serve: the empty answer is recorded too.
ClaimNothing(n, r, t1) ==
  /\ MayClaim(n, r, Jobs(t1), Attempts, t1)
  /\ Claimable(n, Jobs(t1)) = {}
  /\ claims' = [claims EXCEPT ![n][r] = None]
  /\ job' = Jobs(t1) /\ att' = Attempts /\ now' = t1
  /\ UNCHANGED <<reg, drained, rcpt, arts, blobs, reserved>>

\* The oldest job the node can serve becomes attempt a, reserved in full.
ClaimJob(n, r, j, a, t1, t2) ==
  LET J == Jobs(t1)
      A == Attempts
      s == J[j].spec IN
  /\ MayClaim(n, r, J, A, t1)
  /\ j \in Oldest(J, Claimable(n, J))
  /\ att[a].status = "absent"
  /\ reserved + Cost(s) <= CpuBudget
  /\ att' = [A EXCEPT ![a] =
       [status |-> "leased", job |-> j, node |-> n, fence |-> J[j].fence + 1,
        lease |-> LeaseEnd(s, t2, t2), started |-> t2, failure |-> "none"]]
  /\ job' = [J EXCEPT ![j] = HandedOut(J[j], a)]
  /\ claims' = [claims EXCEPT ![n][r] = a]
  /\ reserved' = reserved + Cost(s)
  /\ now' = t2
  /\ UNCHANGED <<reg, drained, rcpt, arts, blobs>>
-----------------------------------------------------------------------------
(* Operations of a node on an attempt it owns. *)

Owned(n, a) == att[a].status # "absent" /\ att[a].node = n

Live(J, A, a, token, t) ==
  LET j == A[a].job IN
  /\ A[a].fence = token /\ J[j].fence = token
  /\ J[j].current = a /\ J[j].status = "leased"
  /\ A[a].status \in ActiveStates
  /\ t < A[a].lease

PhaseOrder == [leased |-> 0, preparing |-> 1, running |-> 2, uploading |-> 3]

GetAttempt(n, a, t1) == Owned(n, a) /\ OnlyReconciled(t1)

\* continue = false: the attempt is answered already, or no longer live.
HeartbeatStop(n, a, token, t1) ==
  /\ Owned(n, a)
  /\ rcpt[a] # None \/ ~Live(Jobs(t1), Attempts, a, token, t1)
  /\ OnlyReconciled(t1)

\* continue = true: the phase advances and the lease is renewed.
HeartbeatRenew(n, a, token, phase, t1, t2) ==
  LET J == Jobs(t1)
      A == Attempts IN
  /\ Owned(n, a)
  /\ rcpt[a] = None /\ Live(J, A, a, token, t1)
  /\ PhaseOrder[A[a].status] <= PhaseOrder[phase]
  /\ att' = [A EXCEPT ![a] =
       Renewed(A[a], phase, LeaseEnd(J[A[a].job].spec, A[a].started, t2))]
  /\ job' = J /\ now' = t2
  /\ UNCHANGED <<reg, drained, rcpt, arts, claims, blobs, reserved>>

\* The output rule of the job allows a file of this name and size.
Allowed(a, name, c) ==
  LET s == job[att[a].job].spec IN name \in s.outputs /\ Bytes[c] <= s.limit[name]

\* Faulty: a name may be staged again with other content.
AttachOutputAgain(n, a, name, token, c) ==
  /\ Owned(n, a) /\ att[a].fence = token
  /\ Allowed(a, name, c)
  /\ c \in blobs
  /\ arts' = [arts EXCEPT ![a][name] = c]
  /\ UNCHANGED <<now, reg, drained, job, att, rcpt, claims, blobs, reserved>>

\* The second transaction of attach_output; put_blob has staged c before it.
\* The attempt need not be live, and a staged name keeps its content.
AttachOutput(n, a, name, token, c) ==
  /\ Owned(n, a) /\ att[a].fence = token
  /\ Allowed(a, name, c)
  /\ c \in blobs
  /\ arts[a][name] = None
  /\ Staging(a) + Bytes[c] <= job[att[a].job].spec.budget
  /\ arts' = [arts EXCEPT ![a][name] = c]
  /\ UNCHANGED <<now, reg, drained, job, att, rcpt, claims, blobs, reserved>>

\* Faulty: accepts a result whose lease is gone.
ReasonWithoutLease(live, verdict) == IF verdict # "ok" THEN verdict ELSE "none"

\* Later checks of complete overwrite the reason an earlier one has set.
Reason(live, verdict) ==
  IF verdict # "ok" THEN verdict ELSE IF live THEN "none" ELSE "stale"

\* Every declared output is staged, and nothing else is.
ManifestMatches(a, s, manifest) ==
  /\ {m \in Name : manifest[m] # None} = s.outputs
  /\ manifest = arts[a]

CompleteReplay(n, a, token, verdict, manifest, t1) ==
  /\ Owned(n, a) /\ att[a].fence = token
  /\ rcpt[a] # None
  /\ rcpt[a].verdict = verdict /\ rcpt[a].manifest = manifest
  /\ OnlyReconciled(t1)

\* The first accepted completion: returned if live and matching, else quarantined.
Complete(n, a, token, verdict, manifest, t1, t2) ==
  LET J == Jobs(t1)
      A == Attempts
      j == A[a].job
      reason == Reason(Live(J, A, a, token, t2), verdict)
      status == IF reason = "none" THEN "returned" ELSE "quarantined" IN
  /\ Owned(n, a) /\ att[a].fence = token
  /\ rcpt[a] = None
  /\ ManifestMatches(a, J[j].spec, manifest)
  /\ att' = [A EXCEPT ![a] = WithStatus(A[a], status)]
  /\ rcpt' = [rcpt EXCEPT ![a] =
       [status |-> status, reason |-> reason, verdict |-> verdict, manifest |-> manifest]]
  /\ job' = [J EXCEPT ![j] =
       IF reason = "none" THEN WithStatus(J[j], "returned")
       ELSE IF reason # "stale" /\ J[j].current = a
            THEN Superseded(J[j], "failed") ELSE J[j]]
  /\ now' = t2
  /\ UNCHANGED <<reg, drained, arts, claims, blobs, reserved>>

\* A live attempt reports its own failure; only some codes may be retried.
Fail(n, a, token, recoverable, t1, t2) ==
  LET J == Jobs(t1)
      A == Attempts
      j == A[a].job IN
  /\ Owned(n, a)
  /\ Live(J, A, a, token, t1)
  /\ att' = [A EXCEPT ![a] = Ended(A[a], "failed", "reported")]
  /\ job' = [J EXCEPT ![j] = WithStatus(J[j],
       IF recoverable /\ J[j].count < J[j].spec.maxAttempts /\ t2 < J[j].spec.deadline
       THEN "queued" ELSE "failed")]
  /\ now' = t2
  /\ UNCHANGED <<reg, drained, rcpt, arts, claims, blobs, reserved>>

\* Time passes between transactions.
Tick ==
  /\ now < MaxTime
  /\ now' = now + 1
  /\ UNCHANGED <<reg, drained, job, att, rcpt, arts, claims, blobs, reserved>>
-----------------------------------------------------------------------------
\* The fencing tokens the store has issued, the only ones a node can present.
Tokens == {att[a].fence : a \in Attempt} \ {0}

OperatorNext ==
  \/ \E c \in Content : PutBlob(c)
  \/ \E j \in Job, s \in JobSpecs : Enqueue(j, s)
  \/ \E j \in Job : Cancel(j)
  \/ \E n \in Node, e \in BOOLEAN : Drain(n, e)
  \/ \E t1 \in Later(now) : Reconcile(t1)

ClaimNext(n, r) ==
  \E t1 \in Later(now) :
    \/ ClaimReplay(n, r, t1)
    \/ ClaimNothing(n, r, t1)
    \/ \E j \in Job, a \in Attempt, t2 \in Later(t1) : ClaimJob(n, r, j, a, t1, t2)

AttemptNext(n, a, token) ==
  \/ \E name \in Name, c \in Content : AttachOutput(n, a, name, token, c)
  \/ \E t1 \in Later(now) :
       \/ GetAttempt(n, a, t1)
       \/ HeartbeatStop(n, a, token, t1)
       \/ \E v \in Verdicts, m \in Manifests : CompleteReplay(n, a, token, v, m, t1)
       \/ \E t2 \in Later(t1) :
            \/ \E p \in ActiveStates : HeartbeatRenew(n, a, token, p, t1, t2)
            \/ \E v \in Verdicts, m \in Manifests : Complete(n, a, token, v, m, t1, t2)
            \/ \E ok \in BOOLEAN : Fail(n, a, token, ok, t1, t2)

NodeNext(n) ==
  \/ \E r \in Registrations : Register(n, r)
  \/ \E r \in Request : ClaimNext(n, r)
  \/ \E a \in Attempt, token \in Tokens : AttemptNext(n, a, token)

Next == OperatorNext \/ (\E n \in Node : NodeNext(n)) \/ Tick

Spec == Init /\ [][Next]_vars

\* Time passes and somebody keeps reconciling: an operator, or a node that
\* heartbeats, reads an attempt or gets an empty claim.
FairSpec == Spec /\ WF_vars(Tick) /\ WF_vars(\E t1 \in Later(now) : Reconcile(t1))
-----------------------------------------------------------------------------
(* Properties. *)

JobRow == [status : JobStates, spec : JobSpecs \cup {None}, fence : Nat,
           count : Nat, current : Attempt \cup {None}, created : Nat]
AttemptRow == [status : AttemptStates, job : Job \cup {None}, node : Node \cup {None},
               fence : Nat, lease : Nat, started : Nat,
               failure : {"none", "lease_expired", "reported"}]

\* The tables hold values of their columns' types, and a job that was
\* admitted has the frozen specification it was admitted with.
TypeOK ==
  /\ now \in Nat
  /\ reg \in [Node -> Registrations \cup {None}]
  /\ drained \in [Node -> BOOLEAN]
  /\ job \in [Job -> JobRow]
  /\ att \in [Attempt -> AttemptRow]
  /\ rcpt \in [Attempt -> Receipts \cup {None}]
  /\ arts \in [Attempt -> Manifests]
  /\ claims \in [Node -> [Request -> Attempt \cup {None, "unclaimed"}]]
  /\ blobs \in SUBSET Content
  /\ reserved \in Nat

Active(a) == att[a].status \in ActiveStates

\* Two nodes never hold a live attempt of the same job: an active attempt is
\* the one its job points at, under the job's present fence.
ActiveIsCurrent ==
  \A a \in Attempt : Active(a) =>
    LET j == att[a].job IN
    /\ j \in Job /\ job[j].status = "leased"
    /\ job[j].current = a /\ job[j].fence = att[a].fence

\* A node works on one attempt at a time (the node_busy refusal of claim).
OneActivePerNode ==
  \A a, b \in Attempt : Active(a) /\ Active(b) /\ att[a].node = att[b].node => a = b

\* A job is handed out again only a full retry grace after the lease of every
\* earlier attempt ended, unless that attempt reported its own failure.
RetryAfterGrace ==
  \A a, b \in Attempt :
    /\ att[a].job = att[b].job /\ att[a].job # None
    /\ att[a].fence < att[b].fence
    => att[a].failure = "reported" \/ att[b].started >= att[a].lease + RetryGrace

\* At most one result of a job is accepted, from its current attempt, and
\* the job says returned exactly when there is one.
SingleReturn ==
  /\ \A a \in Attempt : att[a].status = "returned" =>
       job[att[a].job].status = "returned" /\ job[att[a].job].current = a
  /\ \A j \in Job : job[j].status = "returned" =>
       job[j].current # None /\ att[job[j].current].status = "returned"

\* A receipt stays bound to the bytes the attempt staged: later uploads of the
\* same attempt never change what was answered.
ReceiptBindsArtifacts ==
  \A a \in Attempt : rcpt[a] # None =>
    /\ rcpt[a].manifest = arts[a]
    /\ rcpt[a].status = att[a].status
    /\ {m \in Name : arts[a][m] # None} = job[att[a].job].spec.outputs

\* Full CPU x wall of every attempt is reserved exactly once, within the
\* campaign budget: replayed claims never reserve again.
ReservedOnce ==
  LET used == {a \in Attempt : att[a].status # "absent"}
      cost == [a \in used |-> Cost(job[att[a].job].spec)] IN
  /\ reserved = MapThenSumSet(LAMBDA a : cost[a], used)
  /\ reserved <= CpuBudget

\* Every attempt is named by exactly one claim, of the node that owns it, so a
\* node that lost the response can always find its attempt again.
ClaimOfAttempt ==
  \A a \in Attempt : att[a].status # "absent" =>
    /\ \E r \in Request : claims[att[a].node][r] = a
    /\ \A c, d \in Node \X Request :
         claims[c[1]][c[2]] = a /\ claims[d[1]][d[2]] = a => c = d

\* A job's retry budget: as many attempts as the job counts, at most maxAttempts.
AttemptsCounted ==
  \A j \in Job : job[j].status # "absent" =>
    /\ job[j].count = Cardinality({a \in Attempt : att[a].job = j})
    /\ job[j].count <= job[j].spec.maxAttempts

\* The books of a campaign agree: reservations, claims and retry counts all tell
\* of the same attempts, after any replays, refusals and expiries.
ClaimsAccounted == ReservedOnce /\ ClaimOfAttempt /\ AttemptsCounted

\* What is over stays over: no step brings a failed or cancelled job back to
\* work or turns it into a returned one, and a returned job never changes.
EndedStaysEnded ==
  [][\A j \in Job :
       /\ job[j].status \in {"failed", "cancelled"} => job'[j].status \in {"failed", "cancelled"}
       /\ job[j].status = "returned" => job'[j] = job[j]]_vars

\* An answered attempt is final: no later call, of its node or of the operator,
\* changes the attempt or the receipt its node replays.
AnsweredIsFinal ==
  [][\A a \in Attempt : rcpt[a] # None => rcpt'[a] = rcpt[a] /\ att'[a] = att[a]]_vars

\* What was decided of a job and answered to a node is not decided again.
DecidedIsFinal == EndedStaysEnded /\ AnsweredIsFinal

\* Every admitted job comes to an end by itself once its deadline passes:
\* returned, failed or cancelled.
JobsSettle ==
  \A j \in Job : job[j].status # "absent" ~>
                 job[j].status \in {"returned", "failed", "cancelled"}

\* A lease does not hold its job for ever: a job that is out on a lease leaves
\* that state again, returned, reported failed, cancelled or expired and lost.
LeaseNeverStrands ==
  \A j \in Job : job[j].status = "leased" ~> job[j].status # "leased"

\* The store as an exclusive lease: the attempt that holds each job, and the
\* attempt whose result was accepted.
Lease == INSTANCE ExclusiveLease WITH
  Token <- Attempt,
  holder <- [j \in Job |-> IF job[j].status = "leased" THEN job[j].current ELSE None],
  result <- [j \in Job |-> IF job[j].status = "returned" THEN job[j].current ELSE None],
  issued <- {a \in Attempt : att[a].status # "absent"}

\* The store implements the exclusive lease: at most one holder and one accepted
\* result per job, under every interleaving of expiry, retry, cancellation,
\* late completion and reconciliation.
StoreIsLease == Lease!Spec
=============================================================================
