--------------------------- MODULE BackgroundJobs ---------------------------
(***************************************************************************)
(* run_background_cycle of api/services/background_jobs.py for one job:    *)
(* any number of API processes poll the same cycles of the table           *)
(* background_job_cycles, and a PostgreSQL session advisory lock decides   *)
(* which of them may claim and execute one.  Jobs have their own lock and  *)
(* their own rows, so one job is modelled.                                 *)
(*                                                                         *)
(* An invocation is identified with the database session it runs on; the   *)
(* session is also its owner_id and its backend_pid, so an owner_id may    *)
(* come back, which is less than the code has to go by (a fresh UUID).     *)
(* A session whose client is gone lives on at the server until its backend *)
(* notices, with its lock, and with a COMMIT that may still be under way.  *)
(***************************************************************************)
EXTENDS Integers, FiniteSets

CONSTANTS Session,          \* database sessions, pooled or new
          Hash,             \* schedule_sha256 of the processes' configurations
          Interval, Offset, \* the cadence
          BackoffBase, BackoffCap,
          MaxTime, MaxFaults,
          None

ASSUME JobsAssumption ==
  /\ Interval \in Nat \ {0} /\ Offset \in 0..(Interval - 1)
  /\ BackoffBase \in Nat /\ BackoffCap \in Nat
  /\ MaxTime \in Nat /\ Offset <= MaxTime /\ MaxFaults \in Nat
  /\ None \notin Session

VARIABLES now,      \* the database clock
          row,      \* background_job_cycles by scheduled_for
          applied,  \* how often the handler's effects were committed for a cycle
          lock,     \* the session that holds the job's advisory lock
          pc,       \* where the invocation on a session is
          claim,    \* the row an invocation claimed, as it was claimed
          faults

bvars == <<now, row, applied, lock, pc, claim, faults>>

\* The last boundary of the cadence at or before t; \div floors as // does.
DueCycle(t) == ((t - Offset) \div Interval) * Interval + Offset

Cycle == {c \in 0..MaxTime : DueCycle(c) = c}

Rows == [status : {"running", "succeeded", "failed"}, owner : Session,
         attempts : Nat \ {0}, started : 0..MaxTime, retry : Nat, hash : Hash]
Claims == [cycle : Cycle, attempts : Nat \ {0}]
Places == {"free", "held", "work", "commit", "failing", "unlock", "gone", "gonecommit"}

ASSUME RowsAssumption == None \notin Rows \cup Claims

BInit ==
  /\ now = Offset
  /\ row = [c \in Cycle |-> None]
  /\ applied = [c \in Cycle |-> 0]
  /\ lock = None
  /\ pc = [s \in Session |-> "free"]
  /\ claim = [s \in Session |-> None]
  /\ faults = 0

Succeeded(c) == row[c] # None /\ row[c].status = "succeeded"
Unfinished(c) == row[c] # None /\ row[c].status # "succeeded"
Oldest(C) == {c \in C : \A d \in C : c <= d}

At(s, place) == pc[s] = place
Moves(s, place) == pc' = [pc EXCEPT ![s] = place]
Fault == faults < MaxFaults /\ faults' = faults + 1
-----------------------------------------------------------------------------
(* Taking the lock and choosing a cycle. *)

\* Faulty: the answer of pg_try_advisory_lock is ignored.
TryLockIgnored(s) ==
  /\ At(s, "free")
  /\ lock' = s /\ Moves(s, "held")
  /\ UNCHANGED <<now, row, applied, claim, faults>>

\* pg_try_advisory_lock; a session that finds it taken answers busy.
TryLock(s) ==
  /\ At(s, "free") /\ lock = None
  /\ lock' = s /\ Moves(s, "held")
  /\ UNCHANGED <<now, row, applied, claim, faults>>

\* The lock was taken, but the answer never came: the connection is given up.
LockUnconfirmed(s) ==
  /\ At(s, "free") /\ lock = None /\ Fault
  /\ lock' = s /\ Moves(s, "gone")
  /\ UNCHANGED <<now, row, applied, claim>>

\* The row _select_cycle looks at: the oldest unfinished one, else the due one.
Candidates(due) ==
  LET pending == {c \in Cycle : c <= due /\ Unfinished(c)} IN
  IF pending = {} THEN {due} ELSE Oldest(pending)

\* Faulty: an old cycle that was never recorded may follow a newer success.
MayRunAnyway(c, due, h) ==
  IF row[c] = None THEN TRUE
  ELSE /\ row[c].hash = h
       /\ row[c].status # "succeeded"
       /\ row[c].status = "failed" => row[c].retry <= now

\* Faulty: the back-off of a failed attempt is not waited for.
MayRunAtOnce(c, due, h) ==
  IF row[c] = None THEN ~\E d \in Cycle : d > due /\ Succeeded(d)
  ELSE row[c].hash = h /\ row[c].status # "succeeded"

\* Faulty: a row that is still running is taken for somebody's.
MayRunFailedOnly(c, due, h) ==
  IF row[c] = None THEN ~\E d \in Cycle : d > due /\ Succeeded(d)
  ELSE row[c].hash = h /\ row[c].status = "failed" /\ row[c].retry <= now

\* No configuration_conflict, already_succeeded, retry_wait or superseded.
MayRun(c, due, h) ==
  IF row[c] = None THEN ~\E d \in Cycle : d > due /\ Succeeded(d)
  ELSE /\ row[c].hash = h
       /\ row[c].status # "succeeded"
       /\ row[c].status = "failed" => row[c].retry <= now

Attempts(c) == IF row[c] = None THEN 0 ELSE row[c].attempts

Claimed(s, c, h) ==
  [status |-> "running", owner |-> s, attempts |-> Attempts(c) + 1,
   started |-> now, retry |-> 0, hash |-> h]

\* The claim is a transaction of its own, committed before the handler runs.
SelectCycle(s, due, h) ==
  /\ At(s, "held")
  /\ \E c \in Candidates(due) :
       \/ /\ due <= now /\ MayRun(c, due, h)
          /\ row' = [row EXCEPT ![c] = Claimed(s, c, h)]
          /\ claim' = [claim EXCEPT ![s] = [cycle |-> c, attempts |-> Attempts(c) + 1]]
          /\ Moves(s, "work")
       \/ /\ due > now \/ ~MayRun(c, due, h)
          /\ Moves(s, "unlock") /\ UNCHANGED <<row, claim>>
  /\ UNCHANGED <<now, applied, lock, faults>>

\* The periodic loops ask for the cycle that is due now.
Poll(s) == \E due \in Cycle, h \in Hash : due = DueCycle(now) /\ SelectCycle(s, due, h)

\* A replay names another cycle, and is refused one of the future.
Replay(s) == \E due \in Cycle, h \in Hash : due # DueCycle(now) /\ SelectCycle(s, due, h)
-----------------------------------------------------------------------------
(* Executing the claimed cycle and recording the outcome. *)

\* The WHERE clause of _finish.
Owns(s) ==
  LET r == row[claim[s].cycle] IN
  /\ r # None
  /\ r.owner = s /\ r.attempts = claim[s].attempts /\ r.status = "running"

Success(r) == [r EXCEPT !.status = "succeeded"]

\* Faulty: the error code is written where the status belongs.
FailureCode(r, t) == [r EXCEPT !.status = "execution_failed", !.retry = t]

Failure(r, t) == [r EXCEPT !.status = "failed", !.retry = t]

\* min(300, 30 * 2 ** min(attempts - 1, 4)), in units of BackoffBase
Doubling == <<1, 2, 4, 8, 16>>
Backoff(attempts) ==
  LET wait == BackoffBase * Doubling[IF attempts < 5 THEN attempts ELSE 5] IN
  IF wait < BackoffCap THEN wait ELSE BackoffCap

\* The handler's writes and the result are in one transaction, not yet committed.
HandlerDone(s) ==
  /\ At(s, "work")
  /\ Moves(s, IF Owns(s) THEN "commit" ELSE "failing")
  /\ UNCHANGED <<now, row, applied, lock, claim, faults>>

\* The handler raises, times out or is cancelled; the connection is intact.
HandlerFails(s) ==
  /\ At(s, "work") /\ Fault
  /\ Moves(s, "failing")
  /\ UNCHANGED <<now, row, applied, lock, claim>>

Committed(s) ==
  LET c == claim[s].cycle IN
  /\ applied' = [applied EXCEPT ![c] = @ + 1]
  /\ row' = [row EXCEPT ![c] = Success(row[c])]

Commit(s) ==
  /\ At(s, "commit")
  /\ Committed(s) /\ Moves(s, "unlock")
  /\ UNCHANGED <<now, lock, claim, faults>>

\* Cancelled after the COMMIT, while the session is closed.
CommitInterrupted(s) ==
  /\ At(s, "commit") /\ Fault
  /\ Committed(s) /\ Moves(s, "failing")
  /\ UNCHANGED <<now, lock, claim>>

\* Faulty: a failure is recorded without looking at the row again.
SettleBlindly(s) ==
  LET c == claim[s].cycle IN
  /\ At(s, "failing")
  /\ row' = [row EXCEPT ![c] = Failure(row[c], now + Backoff(claim[s].attempts))]
  /\ Moves(s, "unlock")
  /\ UNCHANGED <<now, applied, lock, claim, faults>>

\* A success that was committed after all is kept, otherwise a failure recorded.
Settle(s) ==
  LET c == claim[s].cycle IN
  /\ At(s, "failing")
  /\ IF ~Succeeded(c) /\ Owns(s)
     THEN row' = [row EXCEPT ![c] = Failure(row[c], now + Backoff(claim[s].attempts))]
     ELSE UNCHANGED row
  /\ Moves(s, "unlock")
  /\ UNCHANGED <<now, applied, lock, claim, faults>>

\* Recording the failure fails as well: the row stays running.
SettleRaises(s) ==
  /\ At(s, "failing") /\ Fault
  /\ Moves(s, "unlock")
  /\ UNCHANGED <<now, row, applied, lock, claim>>

\* pg_advisory_unlock, then the connection is returned to the pool.
Unlock(s) ==
  /\ At(s, "unlock")
  /\ lock' = None /\ Moves(s, "free")
  /\ claim' = [claim EXCEPT ![s] = None]
  /\ UNCHANGED <<now, row, applied, faults>>
-----------------------------------------------------------------------------
(* The process dies, or the connection is lost or invalidated. *)

Disconnect(s) ==
  /\ pc[s] \notin {"free", "gone", "gonecommit"} /\ Fault
  /\ Moves(s, IF At(s, "commit") THEN "gonecommit" ELSE "gone")
  /\ UNCHANGED <<now, row, applied, lock, claim>>

LateCommit(s) ==
  /\ At(s, "gonecommit")
  /\ Committed(s) /\ Moves(s, "gone")
  /\ UNCHANGED <<now, lock, claim, faults>>

\* The backend ends: an open transaction is rolled back and the lock released.
BackendExit(s) ==
  /\ pc[s] \in {"gone", "gonecommit"}
  /\ lock' = None /\ Moves(s, "free")
  /\ claim' = [claim EXCEPT ![s] = None]
  /\ UNCHANGED <<now, row, applied, faults>>

Tick ==
  /\ now < MaxTime /\ now' = now + 1
  /\ UNCHANGED <<row, applied, lock, pc, claim, faults>>

Work(s) == HandlerDone(s) \/ Commit(s) \/ Settle(s) \/ Unlock(s) \/ BackendExit(s)

Trouble(s) ==
  \/ LockUnconfirmed(s) \/ HandlerFails(s) \/ CommitInterrupted(s) \/ SettleRaises(s)
  \/ Disconnect(s) \/ LateCommit(s)

BNext ==
  \/ Tick
  \/ \E s \in Session : TryLock(s) \/ Poll(s) \/ Replay(s) \/ Work(s) \/ Trouble(s)

BSpec == BInit /\ [][BNext]_bvars

\* The loop of every process polls again after a bounded sleep, a handler is
\* bounded by its timeout, and a server notices a dead client.  Polling is
\* strongly fair: a replay takes the lock only now and then, and processes of
\* every configuration take their turns.
BFairSpec ==
  /\ BSpec
  /\ WF_bvars(Tick)
  /\ WF_bvars(\E s \in Session : TryLock(s))
  /\ \A h \in Hash : SF_bvars(\E s \in Session, due \in Cycle :
                               due = DueCycle(now) /\ SelectCycle(s, due, h))
  /\ \A s \in Session : WF_bvars(Work(s))
-----------------------------------------------------------------------------
(* Properties. *)

\* The table, the lock and the invocations hold values of their types; a row
\* has one of the statuses that the CHECK constraints of the table know.
BTypeOK ==
  /\ now \in 0..MaxTime /\ Offset <= now
  /\ row \in [Cycle -> Rows \cup {None}]
  /\ applied \in [Cycle -> Nat]
  /\ lock \in Session \cup {None}
  /\ pc \in [Session -> Places]
  /\ claim \in [Session -> Claims \cup {None}]
  /\ faults \in 0..MaxFaults

\* A cycle succeeds only when every recorded older cycle has succeeded, and no
\* recorded older cycle is left or put behind a newer success: neither crashed,
\* failed nor replayed cycles are overtaken by _select_cycle.
SuccessInOrder ==
  \A c, d \in Cycle : c < d /\ Succeeded(d) => row[c] = None \/ Succeeded(c)

\* The effects of a handler are committed once for a cycle that succeeded and
\* never for another, whatever commit, crash or late COMMIT happened.
EffectOnce == \A c \in Cycle : applied[c] = IF Succeeded(c) THEN 1 ELSE 0

\* While an invocation executes, or while its COMMIT may still happen, the row
\* is exactly as it claimed it: _finish never finds "ownership changed".
OwnershipKept ==
  \A s \in Session : pc[s] \in {"work", "commit", "gonecommit"} => lock = s /\ Owns(s)

\* The transitions that the trigger sclib_background_job_guard_v1 admits.
GuardAccepts(old, new, s) ==
  \/ old = None /\ new.status = "running" /\ new.attempts = 1 /\ new.owner = s
  \/ /\ old # None /\ old.status # "succeeded" /\ new.hash = old.hash
     /\ \/ /\ new.status = "running" /\ new.owner = s
           /\ new.attempts = old.attempts + 1 /\ new.started >= old.started
           /\ old.status = "failed" => new.started >= old.retry
        \/ /\ old.status = "running" /\ new.status \in {"succeeded", "failed"}
           /\ new.attempts = old.attempts /\ new.started = old.started
           /\ new.owner = old.owner /\ new.owner = s

GuardedStep ==
  \A c \in Cycle : row'[c] # row[c] =>
    lock # None /\ row'[c] # None /\ GuardAccepts(row[c], row'[c], lock)

\* Every write of the coordinator is one that the table's trigger admits from
\* the session that holds the lock, so no invocation is ended by the trigger.
WritesPassGuard == [][GuardedStep]_bvars

\* A claimed cycle is not given up: it is retried until it succeeds, unless the
\* retry of it, or of an older one it has to wait for, lies beyond the horizon.
CyclesSucceed ==
  \A c \in Cycle : Unfinished(c) ~>
    Succeeded(c) \/ \E b \in Cycle : b <= c /\ Unfinished(b) /\ row[b].retry > MaxTime
=============================================================================
