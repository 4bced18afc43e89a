------------------------ MODULE BackgroundJobsProofs ------------------------
(***************************************************************************)
(* What BackgroundJobs guarantees for every number of sessions, cadence,   *)
(* back-off and set of configurations.                                     *)
(*                                                                         *)
(* The inductive invariant says that exactly the session with a live or    *)
(* dying invocation holds the lock (LockHeld), that the claim it made is   *)
(* still the row it would finish (OwnershipKept), and that this row stands *)
(* between the older cycles, all done, and the newer ones, none done       *)
(* (Frontier).  SuccessInOrder needs Frontier, because success is decided  *)
(* when the cycle is claimed and becomes visible only when it commits.     *)
(***************************************************************************)
EXTENDS BackgroundJobs, TLAPS

Executing == {"work", "commit", "gonecommit"}

LockHeld == \A s \in Session : pc[s] # "free" <=> lock = s

ClaimKnown == \A s \in Session : pc[s] \in Executing \cup {"failing"} => claim[s] # None

Frontier ==
  \A s \in Session : pc[s] \in Executing =>
    \A c \in Cycle : /\ c < claim[s].cycle => row[c] = None \/ Succeeded(c)
                     /\ c > claim[s].cycle => ~Succeeded(c)

StartedBefore == \A c \in Cycle : row[c] # None => row[c].started <= now

JobInv ==
  /\ BTypeOK
  /\ LockHeld /\ ClaimKnown /\ OwnershipKept /\ Frontier /\ StartedBefore
  /\ SuccessInOrder /\ EffectOnce
-----------------------------------------------------------------------------
(* Rows and claims. *)

\* A cycle is an instant up to the horizon.
LEMMA CycleNat == \A c \in Cycle : c \in 0..MaxTime
BY DEF Cycle

\* Recording a success, the UPDATE of _finish, changes the status of the row and nothing
\* that identifies the claim.
LEMMA SuccessRow ==
  ASSUME NEW r \in Rows
  PROVE  /\ Success(r) \in Rows /\ Success(r) # None
         /\ Success(r).status = "succeeded" /\ Success(r).owner = r.owner
         /\ Success(r).attempts = r.attempts /\ Success(r).started = r.started
         /\ Success(r).hash = r.hash
BY RowsAssumption DEF Success, Rows

\* Recording a failure changes the status and the retry time only.
LEMMA FailureRow ==
  ASSUME NEW r \in Rows, NEW t \in Nat
  PROVE  /\ Failure(r, t) \in Rows /\ Failure(r, t) # None
         /\ Failure(r, t).status = "failed" /\ Failure(r, t).owner = r.owner
         /\ Failure(r, t).attempts = r.attempts /\ Failure(r, t).started = r.started
         /\ Failure(r, t).hash = r.hash
BY RowsAssumption DEF Failure, Rows

\* The row that _select_cycle writes is well typed, running, and the session's.
LEMMA ClaimedRow ==
  ASSUME BTypeOK, NEW s \in Session, NEW c \in Cycle, NEW h \in Hash
  PROVE  /\ Claimed(s, c, h) \in Rows /\ Claimed(s, c, h) # None
         /\ Attempts(c) + 1 \in Nat \ {0}
         /\ Claimed(s, c, h).status = "running" /\ Claimed(s, c, h).owner = s
         /\ Claimed(s, c, h).attempts = Attempts(c) + 1
         /\ Claimed(s, c, h).started = now /\ Claimed(s, c, h).hash = h
<1>1. Attempts(c) + 1 \in Nat \ {0}
  BY DEF BTypeOK, Attempts, Rows
<1>2. now \in 0..MaxTime
  BY DEF BTypeOK
<1> QED
  BY <1>1, <1>2, RowsAssumption DEF Claimed, Rows

\* The back-off is an amount of time, however many attempts there were.
LEMMA BackoffNat ==
  ASSUME NEW a \in Nat \ {0}
  PROVE  Backoff(a) \in Nat
<1>1. Doubling[IF a < 5 THEN a ELSE 5] \in Nat
  <2>1. CASE a = 1
    BY <2>1 DEF Doubling
  <2>2. CASE a = 2
    BY <2>2 DEF Doubling
  <2>3. CASE a = 3
    BY <2>3 DEF Doubling
  <2>4. CASE a = 4
    BY <2>4 DEF Doubling
  <2>5. CASE a >= 5
    BY <2>5 DEF Doubling
  <2> QED
    BY <2>1, <2>2, <2>3, <2>4, <2>5
<1> DEFINE d == Doubling[IF a < 5 THEN a ELSE 5]
<1>2. d \in Nat
  BY <1>1
<1> HIDE DEF d
<1>3. BackoffBase * d \in Nat
  BY <1>2, JobsAssumption
<1>4. Backoff(a) = IF BackoffBase * d < BackoffCap THEN BackoffBase * d ELSE BackoffCap
  BY DEF Backoff, d
<1> QED
  BY <1>3, <1>4, JobsAssumption

\* The candidate has no unfinished cycle before it.
LEMMA CandidateFirst ==
  ASSUME BTypeOK, NEW due \in Cycle, NEW c \in Candidates(due)
  PROVE  /\ c \in Cycle /\ c <= due
         /\ \A b \in Cycle : b < c => row[b] = None \/ Succeeded(b)
         /\ row[c] = None => c = due
BY CycleNat DEF Candidates, Oldest, Unfinished, Succeeded
-----------------------------------------------------------------------------
(* Steps. *)

\* The empty table satisfies the invariant.
LEMMA InitInv == BInit => JobInv
BY JobsAssumption, CycleNat
   DEF BInit, JobInv, BTypeOK, LockHeld, ClaimKnown, OwnershipKept, Frontier, StartedBefore,
       SuccessInOrder, EffectOnce, Succeeded, Places, Executing, Rows, Claims
\* Steps that touch neither the rows nor the claims: the session s moves, the
\* lock stays with it, and it does not begin to execute.
LEMMA MoveInv ==
  ASSUME JobInv, NEW s \in Session, NEW place \in Places \ {"free"},
         Moves(s, place), lock' = s, lock \in {s, None},
         pc[s] = "free" => lock = None,
         faults' \in 0..MaxFaults, UNCHANGED <<now, row, applied, claim>>,
         place \in Executing => pc[s] \in Executing,
         place = "failing" => claim[s] # None
  PROVE  JobInv'
<1>1. BTypeOK'
  BY DEF JobInv, BTypeOK, Moves
<1>2. LockHeld'
  BY JobsAssumption DEF JobInv, LockHeld, BTypeOK, Moves
<1>3. ClaimKnown' /\ OwnershipKept' /\ Frontier'
  <2>1. \A u \in Session : pc'[u] \in Executing => pc[u] \in Executing
    BY DEF JobInv, BTypeOK, Moves
  <2>2. \A u \in Session : pc'[u] = "failing" => claim[u] # None
    BY DEF JobInv, BTypeOK, Moves, ClaimKnown
  <2>3. \A u \in Session : pc[u] \in Executing => u = s
    BY JobsAssumption DEF JobInv, LockHeld, Executing
  <2> QED
    BY <2>1, <2>2, <2>3
       DEF JobInv, ClaimKnown, OwnershipKept, Frontier, Owns, Succeeded, Executing
<1> QED
  BY <1>1, <1>2, <1>3 DEF JobInv, StartedBefore, SuccessInOrder, EffectOnce, Succeeded

\* The lock is released, by pg_advisory_unlock or with its backend, by the session
\* that holds it: nobody else can have been executing.
LEMMA ReleaseInv ==
  ASSUME JobInv, NEW s \in Session, pc[s] # "free",
         Moves(s, "free"), lock' = None, claim' = [claim EXCEPT ![s] = None],
         UNCHANGED <<now, row, applied, faults>>
  PROVE  JobInv'
<1>1. BTypeOK'
  BY DEF JobInv, BTypeOK, Moves, Places
<1>2. \A u \in Session : pc'[u] = "free"
  BY JobsAssumption DEF JobInv, LockHeld, BTypeOK, Moves
<1>3. LockHeld'
  BY <1>2, JobsAssumption DEF LockHeld
<1>4. ClaimKnown' /\ OwnershipKept' /\ Frontier'
  BY <1>2 DEF ClaimKnown, OwnershipKept, Frontier, Executing
<1> QED
  BY <1>1, <1>3, <1>4 DEF JobInv, StartedBefore, SuccessInOrder, EffectOnce, Succeeded

\* The claim is made behind finished cycles and before unfinished ones only.
LEMMA ClaimInv ==
  ASSUME JobInv, NEW s \in Session, NEW due \in Cycle, NEW h \in Hash,
         NEW c \in Candidates(due), At(s, "held"), MayRun(c, due, h),
         row' = [row EXCEPT ![c] = Claimed(s, c, h)],
         claim' = [claim EXCEPT ![s] = [cycle |-> c, attempts |-> Attempts(c) + 1]],
         Moves(s, "work"), UNCHANGED <<now, applied, lock, faults>>
  PROVE  JobInv'
<1> DEFINE r == Claimed(s, c, h)
<1>1. /\ c \in Cycle /\ c <= due
      /\ \A b \in Cycle : b < c => row[b] = None \/ Succeeded(b)
      /\ row[c] = None => c = due
  BY CandidateFirst DEF JobInv
<1>2. /\ r \in Rows /\ r # None /\ Attempts(c) + 1 \in Nat \ {0}
      /\ r.status = "running" /\ r.owner = s /\ r.attempts = Attempts(c) + 1 /\ r.started = now
  BY <1>1, ClaimedRow DEF JobInv
<1> HIDE DEF r
<1>3. /\ row' = [row EXCEPT ![c] = r] /\ row \in [Cycle -> Rows \cup {None}]
      /\ \A d \in Cycle : row'[d] = IF d = c THEN r ELSE row[d]
  BY DEF r, JobInv, BTypeOK
<1>4. ~Succeeded(c)
  BY DEF MayRun, Succeeded
<1>5. \A d \in Cycle : Succeeded(d)' <=> Succeeded(d)
  BY <1>2, <1>3, <1>4 DEF Succeeded
<1>6. \A d \in Cycle : d > c => ~Succeeded(d)
  <2>1. CASE row[c] = None
    BY <2>1, <1>1 DEF MayRun
  <2>2. CASE row[c] # None
    BY <2>2, <1>1, <1>4, CycleNat DEF JobInv, SuccessInOrder
  <2> QED
    BY <2>1, <2>2
<1>7. /\ claim'[s] = [cycle |-> c, attempts |-> Attempts(c) + 1]
      /\ claim' \in [Session -> Claims \cup {None}] /\ claim'[s] \in Claims
      /\ claim'[s].cycle = c
      /\ \A u \in Session : u # s => claim'[u] = claim[u]
  BY <1>1, <1>2 DEF JobInv, BTypeOK, Claims
<1>8. /\ lock = s
      /\ \A u \in Session : pc'[u] = IF u = s THEN "work" ELSE "free"
  BY DEF JobInv, LockHeld, BTypeOK, At, Moves
<1>9. BTypeOK'
  <2>1. row' \in [Cycle -> Rows \cup {None}]
    BY <1>2, <1>3
  <2>2. pc' \in [Session -> Places]
    BY DEF JobInv, BTypeOK, Moves, Places
  <2> QED
    BY <2>1, <2>2, <1>7 DEF JobInv, BTypeOK
<1>10. LockHeld'
  BY <1>8 DEF LockHeld
<1>11. ClaimKnown'
  <2>1. claim'[s] # None
    BY <1>7, RowsAssumption
  <2> QED
    BY <2>1, <1>8 DEF ClaimKnown, Executing
<1>12. OwnershipKept'
  BY <1>1, <1>2, <1>3, <1>7, <1>8 DEF OwnershipKept, Owns
<1>13. Frontier'
  BY <1>1, <1>3, <1>5, <1>6, <1>7, <1>8, CycleNat DEF Frontier, Executing
<1>14. StartedBefore'
  BY <1>2, <1>3 DEF JobInv, StartedBefore, BTypeOK
<1>15. SuccessInOrder'
  BY <1>1, <1>3, <1>5, <1>6, CycleNat DEF JobInv, SuccessInOrder
<1>16. EffectOnce'
  BY <1>5 DEF JobInv, EffectOnce
<1> QED
  BY <1>9, <1>10, <1>11, <1>12, <1>13, <1>14, <1>15, <1>16 DEF JobInv

\* The effects and the success of a claimed row become visible together.
LEMMA CommitInv ==
  ASSUME JobInv, NEW s \in Session, pc[s] \in {"commit", "gonecommit"}, Committed(s),
         NEW place \in {"unlock", "failing", "gone"}, Moves(s, place),
         faults' \in 0..MaxFaults, UNCHANGED <<now, lock, claim>>
  PROVE  JobInv'
<1>0. PICK c \in Cycle : c = claim[s].cycle
  BY DEF JobInv, BTypeOK, ClaimKnown, Executing, Claims, At
<1> DEFINE r == Success(row[c])
<1>1. claim[s] \in Claims /\ lock = s /\ Owns(s)
  BY DEF JobInv, BTypeOK, ClaimKnown, OwnershipKept, Executing, Claims
<1>2. row[c] \in Rows /\ row[c] # None /\ row[c].status = "running"
  BY <1>0, <1>1 DEF JobInv, BTypeOK, Owns
<1>3. /\ r \in Rows /\ r # None /\ r.status = "succeeded" /\ r.started = row[c].started
  BY <1>2, SuccessRow
<1>4. /\ row' = [row EXCEPT ![c] = r]
      /\ applied' = [applied EXCEPT ![c] = applied[c] + 1]
  BY <1>0 DEF Committed
<1>5. /\ \A b \in Cycle : b < c => row[b] = None \/ Succeeded(b)
      /\ \A b \in Cycle : b > c => ~Succeeded(b)
  BY <1>0 DEF JobInv, Frontier, Executing
<1> HIDE DEF r
<1>6. \A d \in Cycle : /\ row'[d] = IF d = c THEN r ELSE row[d]
                       /\ applied'[d] = IF d = c THEN applied[c] + 1 ELSE applied[d]
  BY <1>1, <1>4 DEF JobInv, BTypeOK
<1>7. Succeeded(c)' /\ \A d \in Cycle : d # c => (Succeeded(d)' <=> Succeeded(d))
  BY <1>1, <1>3, <1>6 DEF Succeeded
<1>8. \A u \in Session : pc'[u] \in Executing \cup {"failing"} => u = s /\ pc'[u] = "failing"
  BY <1>1 DEF JobInv, LockHeld, BTypeOK, Moves, Executing
<1>9. BTypeOK'
  BY <1>1, <1>3, <1>4 DEF JobInv, BTypeOK, Moves, Places
<1>10. LockHeld'
  BY <1>1 DEF JobInv, LockHeld, BTypeOK, Moves
<1>11. ClaimKnown' /\ OwnershipKept' /\ Frontier'
  BY <1>1, <1>8, RowsAssumption DEF ClaimKnown, OwnershipKept, Frontier, Executing
<1>12. StartedBefore'
  BY <1>1, <1>2, <1>3, <1>6 DEF JobInv, StartedBefore
<1>13. SuccessInOrder'
  <2> SUFFICES ASSUME NEW a \in Cycle, NEW d \in Cycle, a < d, Succeeded(d)'
               PROVE  row'[a] = None \/ Succeeded(a)'
    BY DEF SuccessInOrder
  <2>1. CASE d = c
    BY <2>1, <1>1, <1>5, <1>6, <1>7, CycleNat
  <2>2. CASE d # c /\ a = c
    BY <2>2, <1>7
  <2>3. CASE d # c /\ a # c
    BY <2>3, <1>6, <1>7 DEF JobInv, SuccessInOrder
  <2> QED
    BY <2>1, <2>2, <2>3
<1>14. EffectOnce'
  <2>1. applied[c] = 0
    BY <1>1, <1>2 DEF JobInv, EffectOnce, Succeeded
  <2> QED
    BY <2>1, <1>1, <1>6, <1>7 DEF JobInv, EffectOnce
<1> QED
  BY <1>9, <1>10, <1>11, <1>12, <1>13, <1>14 DEF JobInv

\* A failure is recorded only of a row that is still the claimed one.
LEMMA FailInv ==
  ASSUME JobInv, NEW s \in Session, At(s, "failing"), Owns(s), NEW t \in Nat,
         row' = [row EXCEPT ![claim[s].cycle] = Failure(row[claim[s].cycle], t)],
         Moves(s, "unlock"), UNCHANGED <<now, applied, lock, claim, faults>>
  PROVE  JobInv'
<1>0. PICK c \in Cycle : c = claim[s].cycle
  BY DEF JobInv, BTypeOK, ClaimKnown, Executing, Claims, At
<1> DEFINE r == Failure(row[c], t)
<1>1. claim[s] \in Claims /\ lock = s
  BY DEF JobInv, BTypeOK, ClaimKnown, LockHeld, Executing, Claims, At
<1>2. row[c] \in Rows /\ row[c] # None /\ row[c].status = "running"
  BY <1>0, <1>1 DEF JobInv, BTypeOK, Owns
<1>3. /\ r \in Rows /\ r # None /\ r.status = "failed" /\ r.started = row[c].started
  BY <1>2, FailureRow
<1>4. row' = [row EXCEPT ![c] = r]
  BY <1>0
<1> HIDE DEF r
<1>5. \A d \in Cycle : row'[d] = IF d = c THEN r ELSE row[d]
  BY <1>1, <1>4 DEF JobInv, BTypeOK
<1>6. \A d \in Cycle : Succeeded(d)' <=> Succeeded(d)
  BY <1>1, <1>2, <1>3, <1>5 DEF Succeeded
<1>7. \A u \in Session : pc'[u] \notin Executing \cup {"failing"}
  BY <1>1 DEF JobInv, LockHeld, BTypeOK, Moves, Executing
<1>8. BTypeOK'
  BY <1>1, <1>3, <1>4 DEF JobInv, BTypeOK, Moves, Places
<1>9. LockHeld'
  BY <1>1 DEF JobInv, LockHeld, BTypeOK, Moves, At
<1>10. ClaimKnown' /\ OwnershipKept' /\ Frontier'
  BY <1>7 DEF ClaimKnown, OwnershipKept, Frontier, Executing
<1>11. StartedBefore'
  BY <1>1, <1>2, <1>3, <1>5 DEF JobInv, StartedBefore
<1>12. SuccessInOrder'
  BY <1>1, <1>2, <1>5, <1>6 DEF JobInv, SuccessInOrder
<1>13. EffectOnce'
  BY <1>6 DEF JobInv, EffectOnce
<1> QED
  BY <1>8, <1>9, <1>10, <1>11, <1>12, <1>13 DEF JobInv

\* Time alone disturbs nothing.
LEMMA TickInv == JobInv /\ Tick => JobInv'
BY JobsAssumption
   DEF JobInv, Tick, BTypeOK, LockHeld, ClaimKnown, OwnershipKept, Owns, Frontier, StartedBefore,
       SuccessInOrder, EffectOnce, Succeeded, Rows

\* Choosing a cycle keeps the invariant, whether it is claimed or refused.
LEMMA SelectInv ==
  ASSUME JobInv, NEW s \in Session, NEW due \in Cycle, NEW h \in Hash, SelectCycle(s, due, h)
  PROVE  JobInv'
<1>1. lock = s /\ pc[s] = "held" /\ faults \in 0..MaxFaults
  BY DEF SelectCycle, At, JobInv, LockHeld, BTypeOK
<1>2. PICK c \in Candidates(due) :
        \/ /\ MayRun(c, due, h)
           /\ row' = [row EXCEPT ![c] = Claimed(s, c, h)]
           /\ claim' = [claim EXCEPT ![s] = [cycle |-> c, attempts |-> Attempts(c) + 1]]
           /\ Moves(s, "work")
        \/ Moves(s, "unlock") /\ UNCHANGED <<row, claim>>
  BY DEF SelectCycle
<1>3. UNCHANGED <<now, applied, lock, faults>> /\ At(s, "held")
  BY DEF SelectCycle
<1>4. CASE MayRun(c, due, h) /\ Moves(s, "work")
           /\ row' = [row EXCEPT ![c] = Claimed(s, c, h)]
           /\ claim' = [claim EXCEPT ![s] = [cycle |-> c, attempts |-> Attempts(c) + 1]]
  BY <1>3, <1>4, ClaimInv
<1>5. CASE Moves(s, "unlock") /\ UNCHANGED <<row, claim>>
  BY <1>1, <1>3, <1>5, MoveInv DEF Places, Executing
<1> QED
  BY <1>2, <1>4, <1>5

\* Settling a failed execution keeps the invariant, whether the row is found
\* succeeded or is recorded as failed.
LEMMA SettleInv ==
  ASSUME JobInv, NEW s \in Session, Settle(s)
  PROVE  JobInv'
<1>1. /\ At(s, "failing") /\ Moves(s, "unlock") /\ UNCHANGED <<now, applied, lock, claim, faults>>
      /\ lock = s /\ claim[s] \in Claims /\ faults \in 0..MaxFaults
  BY DEF Settle, At, JobInv, LockHeld, ClaimKnown, BTypeOK
<1>2. CASE ~Succeeded(claim[s].cycle) /\ Owns(s)
  <2>1. now + Backoff(claim[s].attempts) \in Nat
    <3>1. claim[s].attempts \in Nat \ {0} /\ now \in Nat
      BY <1>1 DEF Claims, JobInv, BTypeOK
    <3> QED
      BY <3>1, BackoffNat
  <2>2. row' = [row EXCEPT ![claim[s].cycle] =
                  Failure(row[claim[s].cycle], now + Backoff(claim[s].attempts))]
    BY <1>2 DEF Settle
  <2> QED
    BY <1>1, <1>2, <2>1, <2>2, FailInv
<1>3. CASE ~(~Succeeded(claim[s].cycle) /\ Owns(s))
  <2>1. UNCHANGED row
    BY <1>3 DEF Settle
  <2> QED
    BY <1>1, <2>1, MoveInv DEF Places, Executing, At
<1> QED
  BY <1>2, <1>3

\* Every step of run_background_cycle, and every fault, keeps the invariant.
THEOREM NextInv == JobInv /\ [BNext]_bvars => JobInv'
<1> SUFFICES ASSUME JobInv, [BNext]_bvars PROVE JobInv'
  OBVIOUS
<1>1. CASE UNCHANGED bvars
  BY <1>1 DEF bvars, JobInv, BTypeOK, LockHeld, ClaimKnown, OwnershipKept, Owns, Frontier,
              StartedBefore, SuccessInOrder, EffectOnce, Succeeded
<1>2. CASE Tick
  BY <1>2, TickInv
<1>3. ASSUME NEW s \in Session, TryLock(s) \/ Poll(s) \/ Replay(s) \/ Work(s) \/ Trouble(s)
      PROVE  JobInv'
  <2>0. /\ faults \in 0..MaxFaults /\ MaxFaults \in Nat
        /\ pc[s] # "free" => lock = s
        /\ Fault => faults' \in 0..MaxFaults
        /\ pc[s] \in Executing \cup {"failing"} => claim[s] # None
    BY JobsAssumption DEF JobInv, BTypeOK, LockHeld, ClaimKnown, Fault
  <2>1. CASE TryLock(s)
    BY <2>0, <2>1, MoveInv DEF TryLock, At, Places, Executing
  <2>2. CASE Poll(s) \/ Replay(s)
    BY <2>2, SelectInv DEF Poll, Replay
  <2>3. CASE HandlerDone(s)
    <3>1. Owns(s)
      BY <2>3 DEF HandlerDone, At, JobInv, OwnershipKept
    <3> QED
      BY <2>0, <2>3, <3>1, MoveInv DEF HandlerDone, At, Places, Executing
  <2>4. CASE Commit(s)
    BY <2>0, <2>4, CommitInv DEF Commit, At
  <2>5. CASE Settle(s)
    BY <2>5, SettleInv
  <2>6. CASE Unlock(s)
    BY <2>6, ReleaseInv DEF Unlock, At
  <2>7. CASE BackendExit(s)
    BY <2>7, ReleaseInv DEF BackendExit
  <2>8. CASE LockUnconfirmed(s)
    BY <2>0, <2>8, MoveInv DEF LockUnconfirmed, At, Places, Executing
  <2>9. CASE HandlerFails(s)
    BY <2>0, <2>9, MoveInv DEF HandlerFails, At, Places, Executing
  <2>10. CASE CommitInterrupted(s)
    BY <2>0, <2>10, CommitInv DEF CommitInterrupted, At
  <2>11. CASE SettleRaises(s)
    BY <2>0, <2>11, MoveInv DEF SettleRaises, At, Places, Executing
  <2>12. CASE Disconnect(s)
    BY <2>0, <2>12, MoveInv DEF Disconnect, At, Places, Executing
  <2>13. CASE LateCommit(s)
    BY <2>0, <2>13, CommitInv DEF LateCommit, At
  <2> QED
    BY <1>3, <2>1, <2>2, <2>3, <2>4, <2>5, <2>6, <2>7, <2>8, <2>9, <2>10, <2>11, <2>12, <2>13
       DEF Work, Trouble
<1> QED
  BY <1>1, <1>2, <1>3 DEF BNext

\* The inductive invariant holds in every reachable state of the coordinator.
THEOREM JobInvariant == BSpec => []JobInv
BY InitInv, NextInv, PTL DEF BSpec

\* Type correctness of the table, the lock and the invocations.
THEOREM JobTypeCorrect == BSpec => []BTypeOK
<1>1. JobInv => BTypeOK
  BY DEF JobInv
<1> QED
  BY <1>1, JobInvariant, PTL

\* No recorded older cycle is ever behind a newer success: _select_cycle and
\* the session lock order the successes, for any number of processes.
THEOREM CyclesOrdered == BSpec => []SuccessInOrder
<1>1. JobInv => SuccessInOrder
  BY DEF JobInv
<1> QED
  BY <1>1, JobInvariant, PTL

\* A handler's effects are committed exactly once for a succeeded cycle and
\* never otherwise, with uncertain commits and dying backends included.
THEOREM EffectsExactlyOnce == BSpec => []EffectOnce
<1>1. JobInv => EffectOnce
  BY DEF JobInv
<1> QED
  BY <1>1, JobInvariant, PTL

\* The compare-and-set of _finish cannot fail: "ownership changed" is unreachable.
THEOREM OwnershipStable == BSpec => []OwnershipKept
<1>1. JobInv => OwnershipKept
  BY DEF JobInv
<1> QED
  BY <1>1, JobInvariant, PTL

(* The trigger. *)

\* The INSERT or UPDATE of a claim is one the trigger admits: the attempts are
\* counted up, and a failed row is not started before its retry time.
LEMMA ClaimGuarded ==
  ASSUME JobInv, NEW s \in Session, NEW due \in Cycle, NEW h \in Hash, SelectCycle(s, due, h)
  PROVE  GuardedStep
<1>1. lock = s /\ lock # None
  BY JobsAssumption DEF SelectCycle, At, JobInv, LockHeld
<1>2. CASE UNCHANGED row
  BY <1>2 DEF GuardedStep
<1>3. ASSUME NEW c \in Candidates(due), MayRun(c, due, h),
             row' = [row EXCEPT ![c] = Claimed(s, c, h)]
      PROVE  GuardedStep
  <2> DEFINE r == Claimed(s, c, h)
  <2>1. c \in Cycle
    BY CandidateFirst DEF JobInv
  <2>2. /\ r # None /\ r.status = "running" /\ r.owner = s /\ r.hash = h
        /\ r.attempts = Attempts(c) + 1 /\ r.started = now
    BY <2>1, ClaimedRow DEF JobInv
  <2> HIDE DEF r
  <2>3. \A d \in Cycle : row'[d] = IF d = c THEN r ELSE row[d]
    BY <1>3, <2>1 DEF r, JobInv, BTypeOK
  <2>4. GuardAccepts(row[c], r, s)
    <3>1. CASE row[c] = None
      BY <3>1, <2>2 DEF GuardAccepts, Attempts
    <3>2. CASE row[c] # None
      <4>1. /\ row[c] \in Rows /\ row[c].started <= now
            /\ row[c].attempts \in Nat /\ row[c].started \in Nat /\ row[c].retry \in Nat
            /\ row[c].status \in {"running", "succeeded", "failed"} /\ now \in Nat
        BY <3>2, <2>1 DEF JobInv, BTypeOK, StartedBefore, Rows
      <4> QED
        BY <3>2, <4>1, <1>3, <2>2 DEF GuardAccepts, Attempts, MayRun
    <3> QED
      BY <3>1, <3>2
  <2> QED
    BY <1>1, <2>1, <2>2, <2>3, <2>4 DEF GuardedStep
<1> QED
  BY <1>2, <1>3 DEF SelectCycle

\* So is the UPDATE of _finish, from the session that owns the running row.
LEMMA FinishGuarded ==
  ASSUME JobInv, NEW s \in Session, lock = s, Owns(s), claim[s] \in Claims,
         NEW r \in {Success(row[claim[s].cycle])} \cup
                  {Failure(row[claim[s].cycle], t) : t \in Nat},
         row' = [row EXCEPT ![claim[s].cycle] = r]
  PROVE  GuardedStep
<1>1. PICK c \in Cycle : c = claim[s].cycle
  BY DEF Claims
<1>2. row[c] \in Rows /\ row[c] # None /\ row[c].status = "running" /\ row[c].owner = s
  BY <1>1 DEF JobInv, BTypeOK, Owns
<1>3. /\ r # None /\ r.status \in {"succeeded", "failed"} /\ r.owner = s
      /\ r.attempts = row[c].attempts /\ r.started = row[c].started /\ r.hash = row[c].hash
  <2>1. CASE r = Success(row[c])
    BY <2>1, <1>2, SuccessRow
  <2>2. ASSUME NEW t \in Nat, r = Failure(row[c], t)
        PROVE  /\ r # None /\ r.status \in {"succeeded", "failed"} /\ r.owner = s
               /\ r.attempts = row[c].attempts /\ r.started = row[c].started /\ r.hash = row[c].hash
    BY <2>2, <1>2, FailureRow
  <2> QED
    BY <1>1, <2>1, <2>2
<1>4. \A d \in Cycle : row'[d] = IF d = c THEN r ELSE row[d]
  BY <1>1 DEF JobInv, BTypeOK
<1>5. GuardAccepts(row[c], r, s)
  BY <1>2, <1>3 DEF GuardAccepts
<1> QED
  BY <1>1, <1>3, <1>4, <1>5, JobsAssumption DEF GuardedStep

\* Every step that writes a row is one that the trigger
\* sclib_background_job_guard_v1 admits: claims, recoveries, successes, failures.
THEOREM TriggerNeverFires == BSpec => WritesPassGuard
<1>1. ASSUME JobInv, [BNext]_bvars PROVE [GuardedStep]_bvars
  <2>1. ASSUME UNCHANGED row PROVE GuardedStep
    BY <2>1 DEF GuardedStep
  <2>2. ASSUME NEW s \in Session, Poll(s) \/ Replay(s) PROVE GuardedStep
    BY <1>1, <2>2, ClaimGuarded DEF Poll, Replay
  <2>3. ASSUME NEW s \in Session, Commit(s) \/ CommitInterrupted(s) \/ LateCommit(s)
        PROVE  GuardedStep
    <3>1. pc[s] \in {"commit", "gonecommit"} /\ Committed(s)
      BY <2>3 DEF Commit, CommitInterrupted, LateCommit, At
    <3>2. lock = s /\ Owns(s) /\ claim[s] \in Claims
      BY <1>1, <3>1 DEF JobInv, OwnershipKept, ClaimKnown, BTypeOK, Executing
    <3>3. row' = [row EXCEPT ![claim[s].cycle] = Success(row[claim[s].cycle])]
      BY <3>1 DEF Committed
    <3> QED
      BY <1>1, <3>2, <3>3, FinishGuarded
  <2>4. ASSUME NEW s \in Session, Settle(s), ~UNCHANGED row PROVE GuardedStep
    <3>1. lock = s /\ Owns(s) /\ claim[s] \in Claims
      BY <1>1, <2>4 DEF Settle, At, JobInv, LockHeld, ClaimKnown, BTypeOK, Executing
    <3>2. row' = [row EXCEPT ![claim[s].cycle] =
                    Failure(row[claim[s].cycle], now + Backoff(claim[s].attempts))]
      BY <2>4 DEF Settle
    <3>3. now + Backoff(claim[s].attempts) \in Nat
      <4>1. claim[s].attempts \in Nat \ {0} /\ now \in Nat
        BY <1>1, <3>1 DEF Claims, JobInv, BTypeOK
      <4> QED
        BY <4>1, BackoffNat
    <3> QED
      BY <1>1, <3>1, <3>2, <3>3, FinishGuarded
  <2>5. CASE UNCHANGED bvars
    BY <2>5
  <2>6. CASE Tick
    BY <2>1, <2>6 DEF Tick
  <2>7. ASSUME NEW s \in Session, TryLock(s) \/ Work(s) \/ Trouble(s) PROVE GuardedStep
    <3>1. CASE TryLock(s) \/ HandlerDone(s) \/ Unlock(s) \/ BackendExit(s)
               \/ LockUnconfirmed(s) \/ HandlerFails(s) \/ SettleRaises(s) \/ Disconnect(s)
      <4>1. UNCHANGED row
        BY <3>1 DEF TryLock, HandlerDone, Unlock, BackendExit, LockUnconfirmed, HandlerFails,
                    SettleRaises, Disconnect
      <4> QED
        BY <2>1, <4>1
    <3>2. CASE Commit(s) \/ CommitInterrupted(s) \/ LateCommit(s)
      BY <2>3, <3>2
    <3>3. CASE Settle(s)
      BY <2>1, <2>4, <3>3
    <3> QED
      BY <2>7, <3>1, <3>2, <3>3 DEF Work, Trouble
  <2> QED
    BY <1>1, <2>2, <2>5, <2>6, <2>7 DEF BNext
<1> QED
  BY <1>1, JobInvariant, PTL DEF BSpec, WritesPassGuard
=============================================================================
