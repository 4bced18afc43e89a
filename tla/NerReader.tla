------------------------------ MODULE NerReader ------------------------------
(***************************************************************************)
(* Durable passage readings: run and recover of                            *)
(* ingestion/ingestion/materials_ner/reviewed_reader.py on the queue of    *)
(* NerQueue.  (finite_stage.py repeats the same lifecycle for the source   *)
(* stages.)  A reading job is tried once; its attempt directory holds the  *)
(* dispatch intent, the provider's return and the receipts, each written   *)
(* once and never changed.  A process may die between any two writes, and  *)
(* recover settles what it left behind without calling the provider again. *)
(*                                                                         *)
(* Data: a provider's return is good or bad (it parses as a reading or     *)
(* not); drift says that a pinned input or source file no longer matches,  *)
(* which validate_job finds out.                                           *)
(***************************************************************************)
EXTENDS NerQueue

CONSTANTS
  Reader,       \* the workers that run readings; the others make open claims
  ReaderFlow,   \* the workflow reviewed_reader_v1
  MaxCrashes, MaxDrifts

ASSUME ReaderAssumption ==
  /\ Reader \subseteq Worker /\ None \notin Reader
  /\ ReaderFlow \in Restricted \ {Audit} /\ WorkflowOf \in [Job -> {ReaderFlow}]
  /\ MaxCrashes \in Nat /\ MaxDrifts \in Nat
  /\ {"succeeded", "quarantined", "blocked"} \subseteq Outcome

VARIABLES
  lock,      \* reader-locks/<job>: the process that holds the flock
  proc,      \* where each reader is, for which job, and its receipt in memory
  dir,       \* the attempt directories
  retained,  \* the receipt each job's row points at
  calls,     \* provider calls made for each job
  drift, crashes, drifts

rvars == <<qvars, lock, proc, dir, retained, calls, drift, crashes, drifts>>

Receipts == [state : {"succeeded", "quarantined", "blocked"},
             outcome : {"completed", "not_admitted", "unknown", "not_dispatched"},
             recovered : BOOLEAN]
EmptyDir == [intent |-> FALSE, result |-> "none", receipt |-> None, recovery |-> None]
Idle == [pc |-> "idle", job |-> None, attempt |-> None, text |-> "none",
         error |-> FALSE, recovers |-> FALSE, receipt |-> None]

\* The jobs were enqueued before the readers start.
RInit ==
  /\ now = 0
  /\ job = [j \in Job |-> [NoJob EXCEPT !.state = "queued"]]
  /\ att = [k \in Attempt |-> NoAttempt]
  /\ hold = FALSE /\ cleared = {} /\ held = [w \in Worker |-> None]
  /\ lock = [j \in Job |-> None]
  /\ proc = [w \in Reader |-> Idle]
  /\ dir = [k \in Attempt |-> EmptyDir]
  /\ retained = [j \in Job |-> None]
  /\ calls = [j \in Job |-> 0]
  /\ drift = FALSE /\ crashes = 0 /\ drifts = 0

At(w, label) == proc[w].pc = label
Goto(w, label) == proc' = [proc EXCEPT ![w].pc = label]
\* The end of run or recover, normal or by an exception: the lock is released.
Leave(w) ==
  /\ proc' = [proc EXCEPT ![w] = Idle]
  /\ lock' = [lock EXCEPT ![proc[w].job] = None]
World == <<drift, crashes, drifts>>
-----------------------------------------------------------------------------
(* Entering: the lock, and what the row says. *)

\* job_lock, which raises at once when the lock is taken.
Lock(w, j) ==
  /\ At(w, "idle") /\ lock[j] = None
  /\ lock' = [lock EXCEPT ![j] = w]
  /\ proc' = [proc EXCEPT ![w].pc = "row", ![w].job = j]
  /\ UNCHANGED <<qvars, dir, retained, calls, World>>

\* Faulty: recovers no job whose lease another claim has swept.
RecoverableRunning(j) == job[j].state = "running"

\* A running row whose process is gone, or one that a claim has swept since.
Recoverable(j) ==
  job[j].state = "running" \/ (job[j].state = "failed" /\ job[j].error = "lease_expired")

\* The first half of _recover_locked: a new job, a settled one, or a recovery.
ReadRow(w) ==
  LET j == proc[w].job IN
  /\ At(w, "row")
  /\ \/ /\ job[j].state = "queued"
        /\ Goto(w, "gate") /\ UNCHANGED lock
     \/ /\ job[j].state # "queued" /\ ~Recoverable(j)
        /\ Leave(w)
     \/ /\ Recoverable(j)
        /\ \E k \in Attempt : /\ att[k].job = j /\ att[k].ordinal = 1
                              /\ proc' = [proc EXCEPT ![w].pc = "terminal", ![w].attempt = k,
                                                      ![w].recovers = TRUE]
        /\ UNCHANGED lock
  /\ UNCHANGED <<qvars, dir, retained, calls, World>>
-----------------------------------------------------------------------------
(* A first run. *)

ReaderAsk(j) == [id |-> j, workflow |-> ReaderFlow]

Gate(w) ==
  /\ At(w, "gate")
  /\ \/ PassGate(w) /\ Goto(w, "claim") /\ UNCHANGED lock
     \/ hold /\ Leave(w) /\ UNCHANGED qvars
  /\ UNCHANGED <<dir, retained, calls, World>>

\* The claim, or reader_job_not_claimable.
Claim(w) ==
  LET j == proc[w].job IN
  /\ At(w, "claim")
  /\ \E t \in Readings :
       \/ \E k \in Attempt :
            /\ ClaimJob(w, ReaderAsk(j), j, k, t)
            /\ proc' = [proc EXCEPT ![w].pc = "prepare", ![w].attempt = k]
            /\ UNCHANGED lock
       \/ ClaimNothing(w, ReaderAsk(j), t) /\ Leave(w)
  /\ UNCHANGED <<dir, retained, calls, World>>

\* validate_job, then the durable intent: from here on the attempt is spent.
Intend(w) ==
  /\ At(w, "prepare") /\ ~drift
  /\ dir' = [dir EXCEPT ![proc[w].attempt].intent = TRUE]
  /\ Goto(w, "dispatch")
  /\ UNCHANGED <<qvars, lock, retained, calls, World>>

Dispatch(w) ==
  /\ At(w, "dispatch")
  /\ calls' = [calls EXCEPT ![proc[w].job] = @ + 1]
  /\ Goto(w, "await")
  /\ UNCHANGED <<qvars, lock, dir, retained, World>>

Return(w, text) ==
  /\ At(w, "await")
  /\ proc' = [proc EXCEPT ![w].pc = "keep", ![w].text = text]
  /\ UNCHANGED <<qvars, lock, dir, retained, calls, World>>

KeepResult(w) ==
  /\ At(w, "keep")
  /\ dir' = [dir EXCEPT ![proc[w].attempt].result = proc[w].text]
  /\ Goto(w, "terminal")
  /\ UNCHANGED <<qvars, lock, retained, calls, World>>

\* Anything raised in the try block, a provider failure or an interrupt included.
Raise(w) ==
  /\ proc[w].pc \in {"prepare", "dispatch", "await", "keep"}
  /\ proc' = [proc EXCEPT ![w].pc = "terminal", ![w].error = TRUE]
  /\ UNCHANGED <<qvars, lock, dir, retained, calls, World>>
-----------------------------------------------------------------------------
(* The end of a run, and the whole of a recovery. *)

\* _terminal: what the attempt directory amounts to.
TerminalOf(k, error, recovers) ==
  LET is(state, outcome) == [state |-> state, outcome |-> outcome, recovered |-> recovers] IN
  IF dir[k].result # "none" /\ ~error
  THEN IF drift \/ dir[k].result = "bad" THEN is("quarantined", "not_admitted")
       ELSE is("succeeded", "completed")
  ELSE is("blocked", IF dir[k].intent THEN "unknown" ELSE "not_dispatched")

Terminal(w) ==
  /\ At(w, "terminal")
  /\ proc' = [proc EXCEPT ![w].pc = "hold", ![w].receipt =
                TerminalOf(proc[w].attempt, proc[w].error, proc[w].recovers)]
  /\ UNCHANGED <<qvars, lock, dir, retained, calls, World>>

\* Faulty: holds the queue for provider failures only, not for what a crash hid.
HoldUncertainReported(w) ==
  /\ At(w, "hold")
  /\ hold' = (hold \/ (proc[w].receipt.outcome = "unknown" /\ ~proc[w].recovers))
  /\ Goto(w, "write")
  /\ UNCHANGED <<now, job, att, cleared, held, lock, dir, retained, calls, World>>

\* _hold_uncertain_dispatch, before anything is recorded as settled.
HoldUncertain(w) ==
  /\ At(w, "hold")
  /\ hold' = (hold \/ proc[w].receipt.outcome = "unknown")
  /\ Goto(w, "write")
  /\ UNCHANGED <<now, job, att, cleared, held, lock, dir, retained, calls, World>>

\* put is create-or-verify: another content under the same name is a collision.
WriteReceipt(w) ==
  LET k == proc[w].attempt
      file == IF proc[w].recovers THEN "recovery" ELSE "receipt" IN
  /\ At(w, "write")
  /\ IF dir[k][file] \in {None, proc[w].receipt}
     THEN /\ dir' = [dir EXCEPT ![k][file] = proc[w].receipt]
          /\ Goto(w, IF proc[w].recovers THEN "adopt" ELSE "finish")
          /\ UNCHANGED lock
     ELSE Leave(w) /\ UNCHANGED dir
  /\ UNCHANGED <<qvars, retained, calls, World>>

\* store.finish, retryable=False, or LostLease.
FinishRun(w) ==
  LET j == proc[w].job IN
  /\ At(w, "finish")
  /\ \E t \in Readings :
       \/ /\ Finish(w, proc[w].receipt.state, FALSE, t)
          /\ retained' = [retained EXCEPT ![j] = proc[w].receipt]
       \/ LoseLease(w, t) /\ UNCHANGED retained
  /\ Leave(w)
  /\ UNCHANGED <<dir, calls, World>>

\* The row is still one that a recovery may settle.
MayAdopt(j) == job[j].tries = 1 /\ Recoverable(j)

\* The transaction of _recover_locked, or reader_recovery_state_changed.
Adopt(w) ==
  LET j == proc[w].job
      k == proc[w].attempt
      r == proc[w].receipt IN
  /\ At(w, "adopt")
  /\ IF MayAdopt(j)
     THEN /\ att' = [att EXCEPT ![k].status = r.state]
          /\ job' = [job EXCEPT ![j] = [@ EXCEPT !.state = r.state, !.token = None, !.lease = 0,
                                                 !.error = "reported", !.result = k]]
          /\ retained' = [retained EXCEPT ![j] = r]
     ELSE UNCHANGED <<att, job, retained>>
  /\ Leave(w)
  /\ UNCHANGED <<now, hold, cleared, held, dir, calls, World>>
-----------------------------------------------------------------------------
(* The surroundings. *)

ReaderCrash(w) ==
  /\ ~At(w, "idle") /\ crashes < MaxCrashes
  /\ crashes' = crashes + 1
  /\ cleared' = cleared \ {w} /\ held' = [held EXCEPT ![w] = None]
  /\ Leave(w)
  /\ UNCHANGED <<now, job, att, hold, dir, retained, calls, drift, drifts>>

\* A pinned input or the reader's own source changes, or is put back.
Drift ==
  /\ drifts < MaxDrifts
  /\ drift' = ~drift /\ drifts' = drifts + 1
  /\ UNCHANGED <<qvars, lock, proc, dir, retained, calls, crashes>>

\* Open claims of other workers find nothing here, but sweep expired leases.
OpenClaim(w) ==
  /\ w \notin Reader
  /\ PassGate(w) \/ \E t \in Readings : ClaimNothing(w, [id |-> None, workflow |-> None], t)
  /\ UNCHANGED <<lock, proc, dir, retained, calls, World>>

Clock == Tick /\ UNCHANGED <<lock, proc, dir, retained, calls, World>>
-----------------------------------------------------------------------------
ReaderStep(w) ==
  \/ ReadRow(w) \/ Gate(w) \/ Claim(w) \/ Intend(w) \/ Dispatch(w)
  \/ \E text \in {"good", "bad"} : Return(w, text)
  \/ KeepResult(w) \/ Raise(w) \/ Terminal(w) \/ HoldUncertain(w) \/ WriteReceipt(w)
  \/ FinishRun(w) \/ Adopt(w)

RNext ==
  \/ \E w \in Reader : ReaderStep(w) \/ ReaderCrash(w) \/ \E j \in Job : Lock(w, j)
  \/ \E w \in Worker : OpenClaim(w)
  \/ Drift \/ Clock

RSpec == RInit /\ [][RNext]_rvars

\* A reader that runs goes on until it ends or dies, and an operator runs every
\* job again that has not been settled.
RFairSpec ==
  /\ RSpec
  /\ \A w \in Reader : WF_rvars(ReaderStep(w))
  /\ \A j \in Job : SF_rvars(\E w \in Reader : Lock(w, j))
-----------------------------------------------------------------------------
(* Properties. *)

\* Types of the reader's variables.
RTypeOK ==
  /\ lock \in [Job -> Reader \cup {None}]
  /\ \A w \in Reader : proc[w].receipt \in Receipts \cup {None}
  /\ \A k \in Attempt : {dir[k].receipt, dir[k].recovery} \subseteq Receipts \cup {None}
  /\ retained \in [Job -> Receipts \cup {None}]
  /\ calls \in [Job -> Nat]

\* The provider is never asked twice for one job, whatever crashes, expires or
\* is recovered: a dispatch consumes the only automatic attempt.
AtMostOneCall == \A j \in Job : calls[j] <= 1

\* A job is settled as completion unknown only under the dispatch hold, and a
\* call that was made is never settled as not dispatched.
UnknownIsHeld ==
  \A j \in Job : retained[j] # None =>
    /\ retained[j].outcome = "unknown" => hold
    /\ calls[j] > 0 => retained[j].outcome # "not_dispatched"

\* A job is not settled behind the back of the process that still runs it, so
\* a reading that comes back is never dropped in favour of a recovery.
NotSettledWhileRunning ==
  \A w \in Reader : LET p == proc[w] IN
    p.pc \in {"dispatch", "await", "keep"} => retained[p.job] = None

\* A provider call is made once, is never denied, and is settled by the one who
\* made it or after that one is gone, whichever files a crash left behind.
CallAccounted == RTypeOK /\ AtMostOneCall /\ UnknownIsHeld /\ NotSettledWhileRunning

\* A recovery that was interrupted and now comes to another verdict than the one
\* it has already written: create-or-verify refuses it, on every run.
Collides(j) ==
  \E k \in Attempt : /\ att[k].job = j /\ dir[k].recovery # None
                     /\ dir[k].recovery # TerminalOf(k, FALSE, TRUE)

\* Every job that was claimed comes to a retained outcome, through any crashes
\* and lost leases, or stays with the colliding receipt of a recovery whose
\* inputs drifted between two tries.
ClaimedSettles ==
  \A j \in Job : job[j].state = "running" ~> (retained[j] # None \/ Collides(j))
=============================================================================
