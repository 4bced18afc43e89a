------------------------------ MODULE NerQueue ------------------------------
(***************************************************************************)
(* The durable queue of the materials NER campaigns: class Store of        *)
(* ingestion/ingestion/materials_ner/store.py, and the plain worker        *)
(* run_one of worker.py that claims from it.                               *)
(*                                                                         *)
(* Every method that writes is one SQLite transaction, hence one action;   *)
(* a method that raises rolls back.  Two things happen outside the         *)
(* transaction.  The dispatch hold is a file that claim and enqueue look   *)
(* for before they open it (PassGate).  And every method reads the clock   *)
(* before it waits for the write lock, so the time t it works with may be  *)
(* as much as Lag behind the time at which it commits.                     *)
(*                                                                         *)
(* Job ids are digests of what is to be done: the workflow and, for an     *)
(* assertion audit, the single-pass identity are functions of the id.      *)
(***************************************************************************)
EXTENDS Naturals, FiniteSets

CONSTANTS
  Job,            \* job ids; numbers, since claims are served in id order
  Attempt,        \* lease tokens, which are also the attempt ids
  Worker,         \* processes that use the queue
  Workflow, Restricted,   \* workflows, and those an open claim never takes
  Audit,          \* the workflow assertion_audit_v1
  WorkflowOf, IdentityOf,
  Outcome,        \* terminal outcomes
  Budgets,        \* the retry budgets (max_attempts) submitted
  RetryDelay,     \* min(300, 5 * 2 ** attempts)
  LeaseSeconds,
  Lag,            \* longest wait for the write lock
  MaxTime,        \* bound on the clock, for model checking
  None

ASSUME QueueAssumption ==
  /\ Job \subseteq Nat
  /\ Restricted \subseteq Workflow /\ Audit \in Restricted
  /\ WorkflowOf \in [Job -> Workflow]
  /\ "failed" \in Outcome
  /\ Outcome \cap {"absent", "queued", "running", "superseded", "lease_expired"} = {}
  /\ Budgets \subseteq 1..5
  /\ RetryDelay \in [1..5 -> Nat]
  /\ LeaseSeconds \in Nat \ {0} /\ Lag \in Nat /\ MaxTime \in Nat
  /\ None \notin Job \cup Attempt

VARIABLES
  now,
  job,      \* the jobs table
  att,      \* the attempts table
  hold,     \* STAGING_PREPARATION.json or READER_DISPATCH_HOLD.json exists
  cleared,  \* workers past the look at the hold, not yet in their transaction
  held      \* the claim each worker holds in memory, as its token

qvars == <<now, job, att, hold, cleared, held>>

NoJob == [state |-> "absent", tries |-> 0, max |-> 1, token |-> None, lease |-> 0,
          avail |-> 0, created |-> 0, error |-> "none", result |-> None]
NoAttempt == [status |-> "absent", job |-> None, ordinal |-> 0]

QInit ==
  /\ now = 0
  /\ job = [j \in Job |-> NoJob]
  /\ att = [k \in Attempt |-> NoAttempt]
  /\ hold = FALSE
  /\ cleared = {}
  /\ held = [w \in Worker |-> None]

\* The clock readings of a transaction that commits now.
Readings == {t \in 0..now : now <= t + Lag}
-----------------------------------------------------------------------------
(* The dispatch hold. *)

\* _require_dispatch_enabled, before claim or enqueue opens its transaction.
PassGate(w) ==
  /\ ~hold
  /\ w \notin cleared /\ held[w] = None
  /\ cleared' = cleared \cup {w}
  /\ UNCHANGED <<now, job, att, hold, held>>

\* The marker is written by the reader, or by whoever prepares a namespace;
\* it is never removed by the program.
Hold ==
  /\ ~hold /\ hold' = TRUE
  /\ UNCHANGED <<now, job, att, cleared, held>>

Resume ==
  /\ hold /\ hold' = FALSE
  /\ UNCHANGED <<now, job, att, cleared, held>>
-----------------------------------------------------------------------------
(* Submission. *)

\* The jobs that stand for j already: an audit pass of the same identity.
PriorAudit(j) ==
  IF WorkflowOf[j] # Audit THEN {}
  ELSE {k \in Job : /\ job[k].state # "absent"
                    /\ WorkflowOf[k] = Audit /\ IdentityOf[k] = IdentityOf[j]}

\* A repeated submission returns the id it knows and changes nothing, the
\* retry budget included.
Enqueue(w, j, max, t) ==
  /\ w \in cleared
  /\ WorkflowOf[j] \in Restricted => max = 1
  /\ cleared' = cleared \ {w}
  /\ job' = IF PriorAudit(j) # {} \/ job[j].state # "absent" THEN job
            ELSE [job EXCEPT ![j] = [NoJob EXCEPT !.state = "queued", !.max = max, !.created = t]]
  /\ UNCHANGED <<now, att, hold, held>>

\* All or nothing: one job that has started refuses the whole request.
SupersedeUnstarted(S) ==
  /\ S # {}
  /\ \A j \in S : job[j].state = "queued" /\ job[j].tries = 0 /\ job[j].result = None
  /\ job' = [j \in Job |-> IF j \in S
                           THEN [job[j] EXCEPT !.state = "superseded", !.error = "superseded"]
                           ELSE job[j]]
  /\ UNCHANGED <<now, att, hold, cleared, held>>
-----------------------------------------------------------------------------
(* Claims. *)

\* Strictly after the end of the lease, although nobody may use it at the end.
Expired(t) == {j \in Job : job[j].state = "running" /\ job[j].lease < t}

\* Faulty: queued without an attempt left.
AfterExpiryQueued(row) ==
  [row EXCEPT !.state = "queued", !.token = None, !.lease = 0, !.error = "lease_expired"]

AfterExpiry(row) ==
  [row EXCEPT !.state = IF row.tries < row.max THEN "queued" ELSE "failed",
              !.token = None, !.lease = 0, !.error = "lease_expired"]

\* The tables after the expiry that every claim begins with.
SweptJobs(t) == [j \in Job |-> IF j \in Expired(t) THEN AfterExpiry(job[j]) ELSE job[j]]
SweptAttempts(t) ==
  [k \in Attempt |->
     IF att[k].status = "running" /\ (\E j \in Expired(t) : job[j].token = k)
     THEN [att[k] EXCEPT !.status = "lease_expired"] ELSE att[k]]

\* claim(job_id, workflow): an open claim leaves the restricted workflows alone.
Asks(ask, j) ==
  /\ ask.id = None \/ ask.id = j
  /\ IF ask.workflow = None THEN WorkflowOf[j] \notin Restricted
     ELSE WorkflowOf[j] = ask.workflow

\* Faulty: tries a job again that has failed for good.
ClaimableFailed(J, ask, t) ==
  {j \in Job : /\ J[j].state \in {"queued", "failed"} /\ J[j].avail <= t
               /\ J[j].tries < J[j].max /\ Asks(ask, j)}

Claimable(J, ask, t) ==
  {j \in Job : /\ J[j].state = "queued" /\ J[j].avail <= t /\ J[j].tries < J[j].max
               /\ Asks(ask, j)}

First(J, S) ==
  {j \in S : \A i \in S : \/ J[j].created < J[i].created
                          \/ J[j].created = J[i].created /\ j <= i}

ClaimNothing(w, ask, t) ==
  /\ w \in cleared
  /\ Claimable(SweptJobs(t), ask, t) = {}
  /\ job' = SweptJobs(t) /\ att' = SweptAttempts(t)
  /\ cleared' = cleared \ {w}
  /\ UNCHANGED <<now, hold, held>>

ClaimJob(w, ask, j, k, t) ==
  LET J == SweptJobs(t) IN
  /\ w \in cleared
  /\ j \in First(J, Claimable(J, ask, t))
  /\ att[k].status = "absent"
  /\ job' = [J EXCEPT ![j].state = "running", ![j].tries = @ + 1,
                      ![j].token = k, ![j].lease = t + LeaseSeconds]
  /\ att' = [SweptAttempts(t) EXCEPT ![k] =
               [status |-> "running", job |-> j, ordinal |-> J[j].tries + 1]]
  /\ cleared' = cleared \ {w}
  /\ held' = [held EXCEPT ![w] = k]
  /\ UNCHANGED <<now, hold>>
-----------------------------------------------------------------------------
(* The holder of a claim. *)

\* What heartbeat and finish ask of a claim; otherwise LostLease.
Owns(k, t) ==
  LET row == job[att[k].job] IN row.state = "running" /\ row.token = k /\ row.lease > t

Heartbeat(w, t) ==
  /\ held[w] # None /\ Owns(held[w], t)
  /\ job' = [job EXCEPT ![att[held[w]].job].lease = t + LeaseSeconds]
  /\ UNCHANGED <<now, att, hold, cleared, held>>

NextState(row, outcome, retryable) ==
  IF outcome = "failed" /\ retryable /\ row.tries < row.max THEN "queued" ELSE outcome

\* The receipt of the attempt becomes the job's, also when the job is tried again.
Finish(w, outcome, retryable, t) ==
  LET k == held[w]
      j == att[k].job IN
  /\ k # None /\ Owns(k, t)
  /\ att' = [att EXCEPT ![k].status = IF @ = "running" THEN outcome ELSE @]
  /\ job' = [job EXCEPT ![j] =
       [@ EXCEPT !.state = NextState(job[j], outcome, retryable), !.token = None, !.lease = 0,
                 !.avail = t + RetryDelay[job[j].tries], !.error = "reported", !.result = k]]
  /\ held' = [held EXCEPT ![w] = None]
  /\ UNCHANGED <<now, hold, cleared>>

\* LostLease: the late attempt is dropped, and the worker goes on.
LoseLease(w, t) ==
  /\ held[w] # None /\ ~Owns(held[w], t)
  /\ held' = [held EXCEPT ![w] = None]
  /\ UNCHANGED <<now, job, att, hold, cleared>>

Crash(w) ==
  /\ held[w] # None \/ w \in cleared
  /\ held' = [held EXCEPT ![w] = None]
  /\ cleared' = cleared \ {w}
  /\ UNCHANGED <<now, job, att, hold>>

Tick ==
  /\ now < MaxTime /\ now' = now + 1
  /\ UNCHANGED <<job, att, hold, cleared, held>>
-----------------------------------------------------------------------------
Ask == [id : Job \cup {None}, workflow : Workflow \cup {None}]

ClaimNext(w) ==
  \E ask \in Ask, t \in Readings :
    \/ ClaimNothing(w, ask, t)
    \/ \E j \in Job, k \in Attempt : ClaimJob(w, ask, j, k, t)

\* run_one never renews its lease; the queue offers it all the same.
Deliver(w) ==
  \E t \in Readings :
    \/ \E o \in Outcome, r \in BOOLEAN : Finish(w, o, r, t)
    \/ LoseLease(w, t)

WorkerNext(w) ==
  \/ PassGate(w) \/ ClaimNext(w) \/ Deliver(w) \/ Crash(w)
  \/ \E t \in Readings : Heartbeat(w, t)
  \/ \E j \in Job, max \in Budgets, t \in Readings : Enqueue(w, j, max, t)

QNext ==
  \/ \E w \in Worker : WorkerNext(w)
  \/ \E S \in SUBSET Job : SupersedeUnstarted(S)
  \/ Hold \/ Resume \/ Tick

QSpec == QInit /\ [][QNext]_qvars
-----------------------------------------------------------------------------
(* Properties. *)

JobRow == [state : Outcome \cup {"absent", "queued", "running", "superseded"},
           tries : 0..5, max : 1..5, token : Attempt \cup {None}, lease : Nat, avail : Nat,
           created : Nat, error : {"none", "lease_expired", "reported", "superseded"},
           result : Attempt \cup {None}]
AttemptRow == [status : Outcome \cup {"absent", "running", "lease_expired"},
               job : Job \cup {None}, ordinal : 0..5]

\* Rows keep their columns' types, and no job is tried more than five times.
QTypeOK ==
  /\ now \in Nat
  /\ job \in [Job -> JobRow]
  /\ att \in [Attempt -> AttemptRow]
  /\ hold \in BOOLEAN
  /\ cleared \in SUBSET Worker
  /\ held \in [Worker -> Attempt \cup {None}]

\* An attempt runs exactly while its job is running under its token: expiry,
\* retry and late delivery never leave two running attempts of a job, a job
\* running without an attempt, or an attempt running for nobody.
RunningIsCurrent ==
  /\ \A k \in Attempt : att[k].status = "running" =>
       att[k].job \in Job /\ job[att[k].job].state = "running" /\ job[att[k].job].token = k
  /\ \A j \in Job : job[j].state = "running" =>
       job[j].token # None /\ att[job[j].token].status = "running" /\ att[job[j].token].job = j

\* A queued job can still be claimed, and an ended one has used its budget no
\* further than allowed: attempts carry the ordinals 1 to tries, once each.
BudgetKept ==
  \A j \in Job :
    /\ job[j].state = "queued" => job[j].tries < job[j].max
    /\ job[j].tries <= job[j].max
    /\ {att[k].ordinal : k \in {a \in Attempt : att[a].job = j}} = 1..job[j].tries
    /\ Cardinality({k \in Attempt : att[k].job = j}) = job[j].tries

\* An archived job was never started: no attempt, no result and no provider
\* call belongs to a configuration that supersede_unstarted retired.
SupersededUnstarted ==
  \A j \in Job : job[j].state = "superseded" =>
    job[j].result = None /\ \A k \in Attempt : att[k].job # j

\* The one-pass policy of assertion audits: one job per identity, however
\* often, under whatever configuration and by whomever it is submitted.
OneAuditPerIdentity ==
  \A i, j \in Job :
    /\ WorkflowOf[i] = Audit /\ WorkflowOf[j] = Audit /\ IdentityOf[i] = IdentityOf[j]
    /\ job[i].state # "absent" /\ job[j].state # "absent"
    => i = j

\* The tables agree with each other and with the policies of the queue, through
\* every expiry, retry, supersession and repeated submission.
QueueConsistent ==
  QTypeOK /\ RunningIsCurrent /\ BudgetKept /\ SupersededUnstarted /\ OneAuditPerIdentity

\* The queue as an exclusive lease: who holds a job, and whose receipt settled it.
SettledBy(j) ==
  IF job[j].state \in Outcome /\ job[j].error = "reported" THEN job[j].result ELSE None

Lease == INSTANCE ExclusiveLease WITH
  Token <- Attempt,
  holder <- [j \in Job |-> job[j].token],
  result <- [j \in Job |-> SettledBy(j)],
  issued <- {k \in Attempt : att[k].status # "absent"}

\* The queue implements the exclusive lease: at most one holder and one
\* accepted result per job, whatever expires, is retried or arrives late.
QueueIsLease == Lease!Spec
=============================================================================
