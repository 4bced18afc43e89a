-------------------------- MODULE NerReaderProofs --------------------------
(***************************************************************************)
(* What NerReader guarantees for any number of readings, readers, crashes  *)
(* and drifts.                                                             *)
(*                                                                         *)
(* A reader changes what belongs to a reading only while it holds its      *)
(* lock, so what ReaderKept says of a reader is disturbed by no other one  *)
(* (OthersKept).  A reading is tried once, so the attempt a recovery finds *)
(* is the one that made the call.                                          *)
(***************************************************************************)
EXTENDS NerReader, NerQueueProofs

Texts == {"none", "good", "bad"}
Labels == {"idle", "row", "gate", "claim", "prepare", "dispatch", "await", "keep", "terminal",
           "hold", "write", "finish", "adopt"}
ProcRow == [pc : Labels, job : Job \cup {None}, attempt : Attempt \cup {None}, text : Texts,
            error : BOOLEAN, recovers : BOOLEAN, receipt : Receipts \cup {None}]
DirRow == [intent : BOOLEAN, result : Texts, receipt : Receipts \cup {None},
           recovery : Receipts \cup {None}]

\* Types of the reader's variables, as far as the argument needs them.
ReaderTypes ==
  /\ proc \in [Reader -> ProcRow] /\ dir \in [Attempt -> DirRow]
  /\ lock \in [Job -> Reader \cup {None}]
  /\ retained \in [Job -> Receipts \cup {None}]
  /\ calls \in [Job -> Nat]

\* A reading is tried once.
TriedOnce == \A j \in Job : job[j].max = 1

\* What a reader may rely on at each of its steps, while it holds the lock.
ReaderKept(w) ==
  LET p == proc[w] IN
  /\ p.pc # "idle" => p.job \in Job /\ lock[p.job] = w
  /\ p.pc \notin {"idle", "row", "gate", "claim"} =>
       p.attempt \in Attempt /\ att[p.attempt].job = p.job
  /\ p.pc \in {"prepare", "dispatch"} => calls[p.job] = 0
  /\ p.pc \in {"prepare", "dispatch", "await", "keep"} => retained[p.job] = None
  /\ p.pc \in {"dispatch", "await", "keep"} => dir[p.attempt].intent
  /\ p.pc \in {"hold", "write", "finish", "adopt"} =>
       /\ p.receipt \in Receipts
       /\ p.receipt.outcome = "not_dispatched" => calls[p.job] = 0
  /\ p.pc \in {"write", "finish", "adopt"} => (p.receipt.outcome = "unknown" => hold)

\* What is known of the call for reading j, whoever looks.
CallKept(j) ==
  /\ calls[j] > 0 \/ retained[j] # None => job[j].tries > 0
  /\ calls[j] <= 1
  /\ calls[j] > 0 => \A k \in Attempt : att[k].job = j => dir[k].intent
  /\ retained[j] # None =>
       /\ retained[j].outcome = "unknown" => hold
       /\ calls[j] > 0 => retained[j].outcome # "not_dispatched"

RInv ==
  /\ QInv /\ ReaderTypes /\ TriedOnce
  /\ \A w \in Reader : ReaderKept(w)
  /\ \A j \in Job : CallKept(j)
-----------------------------------------------------------------------------
(* What no step takes back, and what a step leaves alone. *)

\* No step takes back a try, an attempt's job, an intent or the hold.
Onward ==
  /\ \A j \in Job : job[j].tries > 0 => job'[j].tries > 0
  /\ \A k \in Attempt : att[k].job # None => att'[k].job = att[k].job
  /\ \A k \in Attempt : dir[k].intent => dir'[k].intent
  /\ hold => hold'

\* The step belongs to reading i.
AloneOn(i) ==
  \A j \in Job : j # i =>
    /\ calls'[j] = calls[j] /\ retained'[j] = retained[j] /\ lock'[j] = lock[j]
    /\ \A k \in Attempt : att'[k].job = j => att[k].job = j

\* The only attempt of a reading.
LEMMA OneAttempt ==
  ASSUME QInv, TriedOnce, NEW j \in Job, NEW a \in Attempt, att[a].job = j
  PROVE  job[j].tries = 1 /\ \A b \in Attempt : att[b].job = j => b = a
<1> DEFINE S == Of(att, j)
<1>1. /\ IsFiniteSet(S) /\ Cardinality(S) = job[j].tries /\ job[j].tries <= job[j].max
      /\ job[j].tries \in 0..5
  <2>1. Consistent(job, att) /\ job[j] \in JobRow
    BY DEF QInv, QTypeOK
  <2> QED
    BY <2>1 DEF Consistent, Budget, JobRow
<1>2. a \in S
  BY DEF Of
<1> HIDE DEF S
<1>3. Cardinality(S) # 0
  BY <1>1, <1>2, FS_EmptySet
<1>4. Cardinality(S) = 1
  BY <1>1, <1>3 DEF TriedOnce
<1>5. PICK x : S = {x}
  BY <1>1, <1>4, FS_Singleton
<1> QED
  BY <1>1, <1>2, <1>4, <1>5 DEF S, Of

\* Other readers, and what is known of other readings, are not disturbed by a
\* step on reading i, whose lock is free or the stepping reader's.
LEMMA OthersKept ==
  ASSUME RInv, NEW w \in Reader, NEW i \in Job, lock[i] \in {w, None}, Onward, AloneOn(i),
         \A v \in Reader : v # w => proc'[v] = proc[v]
  PROVE  /\ \A v \in Reader : v # w => ReaderKept(v)'
         /\ \A j \in Job : j # i => CallKept(j)'
<1>1. ASSUME NEW v \in Reader, v # w PROVE ReaderKept(v)'
  <2>1. proc'[v] = proc[v] /\ ReaderKept(v)
    BY <1>1 DEF RInv
  <2>2. proc[v].pc # "idle" => proc[v].job \in Job /\ proc[v].job # i
    BY <1>1, <2>1, ReaderAssumption DEF ReaderKept
  <2> DEFINE i0 == proc[v].job
             k0 == proc[v].attempt
  <2>3. proc[v].pc # "idle" =>
          calls'[i0] = calls[i0] /\ retained'[i0] = retained[i0] /\ lock'[i0] = lock[i0]
    BY <2>2 DEF AloneOn
  <2>4. k0 \in Attempt /\ att[k0].job \in Job =>
          /\ att'[k0].job = att[k0].job
          /\ dir[k0].intent => dir'[k0].intent
    BY QueueAssumption DEF Onward
  <2>5. hold => hold'
    BY DEF Onward
  <2> QED
    BY <2>1, <2>2, <2>3, <2>4, <2>5 DEF ReaderKept
<1>2. ASSUME NEW j \in Job, j # i PROVE CallKept(j)'
  <2>1. CallKept(j)
    BY DEF RInv
  <2> QED
    BY <1>2, <2>1, QueueAssumption DEF CallKept, Onward, AloneOn
<1> QED
  BY <1>1, <1>2

\* What is known of the call stays true when no call is made and nothing settled.
LEMMA CallStays ==
  ASSUME RInv, NEW j \in Job, calls'[j] = calls[j], retained'[j] = retained[j], Onward,
         \A k \in Attempt : att'[k].job = j => att[k].job = j
  PROVE  CallKept(j)'
BY QueueAssumption DEF RInv, CallKept, Onward

\* A step of reader w on reading i keeps the invariant if it keeps the tables,
\* the types, and what concerns w and i.
LEMMA ReaderMoves ==
  ASSUME RInv, NEW w \in Reader, NEW i \in Job, lock[i] \in {w, None}, Onward, AloneOn(i),
         \A v \in Reader : v # w => proc'[v] = proc[v],
         QInv', TriedOnce', ReaderTypes', ReaderKept(w)', CallKept(i)'
  PROVE  RInv'
<1>1. /\ \A v \in Reader : v # w => ReaderKept(v)'
      /\ \A j \in Job : j # i => CallKept(j)'
  BY OthersKept
<1>2. \A v \in Reader : ReaderKept(v)'
  BY <1>1
<1>3. \A j \in Job : CallKept(j)'
  BY <1>1
<1> QED
  BY <1>2, <1>3 DEF RInv

\* A step of the surroundings.
LEMMA Undisturbed ==
  ASSUME RInv, Onward, UNCHANGED <<lock, proc, dir, retained, calls>>, QInv', TriedOnce',
         \A k \in Attempt : att'[k].job = att[k].job
  PROVE  RInv'
<1>1. ASSUME NEW v \in Reader PROVE ReaderKept(v)'
  BY QueueAssumption DEF RInv, ReaderKept, Onward
<1>2. ASSUME NEW j \in Job PROVE CallKept(j)'
  BY CallStays
<1>3. ReaderTypes'
  BY DEF RInv, ReaderTypes
<1> QED
  BY <1>1, <1>2, <1>3 DEF RInv
-----------------------------------------------------------------------------
(* The rows of the readers. *)

LEMMA GotoRow ==
  ASSUME ReaderTypes, NEW w \in Reader, NEW l \in Labels, Goto(w, l)
  PROVE  /\ proc' \in [Reader -> ProcRow] /\ proc'[w].pc = l /\ proc'[w].job = proc[w].job
         /\ proc'[w].attempt = proc[w].attempt /\ proc'[w].receipt = proc[w].receipt
         /\ \A v \in Reader : v # w => proc'[v] = proc[v]
<1> DEFINE q == [proc[w] EXCEPT !.pc = l]
<1>1. proc \in [Reader -> ProcRow] /\ proc[w] \in ProcRow /\ proc' = [proc EXCEPT ![w] = q]
  BY DEF ReaderTypes, Goto
<1>2. /\ q \in ProcRow /\ q.pc = l /\ q.job = proc[w].job
      /\ q.attempt = proc[w].attempt /\ q.receipt = proc[w].receipt
  BY <1>1 DEF ProcRow
<1> HIDE DEF q
<1> QED
  BY <1>1, <1>2

LEMMA LeaveRow ==
  ASSUME ReaderTypes, NEW w \in Reader, proc[w].job \in Job, Leave(w)
  PROVE  /\ proc' \in [Reader -> ProcRow] /\ proc'[w].pc = "idle"
         /\ \A v \in Reader : v # w => proc'[v] = proc[v]
         /\ lock' \in [Job -> Reader \cup {None}]
         /\ \A j \in Job : j # proc[w].job => lock'[j] = lock[j]
<1>1. Idle \in ProcRow /\ Idle.pc = "idle"
  BY DEF Idle, ProcRow, Labels, Texts
<1> QED
  BY <1>1 DEF ReaderTypes, Leave

\* A reader that is not idle works on a reading whose lock it holds.
LEMMA AtWork ==
  ASSUME RInv, NEW w \in Reader, proc[w].pc # "idle"
  PROVE  proc[w].job \in Job /\ lock[proc[w].job] \in {w, None}
BY DEF RInv, ReaderKept

\* An idle reader has nothing to keep.
LEMMA IdleKept ==
  ASSUME NEW w \in Reader, proc'[w].pc = "idle"
  PROVE  ReaderKept(w)'
BY DEF ReaderKept
-----------------------------------------------------------------------------
(* The steps that leave the queue alone. *)

\* The queue, the calls and what is settled stay as they are.
LEMMA QuietStep ==
  ASSUME RInv, NEW w \in Reader, NEW i \in Job, lock[i] \in {w, None},
         UNCHANGED <<qvars, retained, calls>>,
         \A k \in Attempt : dir[k].intent => dir'[k].intent,
         \A v \in Reader : v # w => proc'[v] = proc[v],
         \A j \in Job : j # i => lock'[j] = lock[j],
         proc' \in [Reader -> ProcRow], dir' \in [Attempt -> DirRow],
         lock' \in [Job -> Reader \cup {None}],
         ReaderKept(w)'
  PROVE  RInv'
<1>1. job' = job /\ att' = att /\ hold' = hold /\ retained' = retained /\ calls' = calls
  BY DEF qvars
<1>2. Onward /\ AloneOn(i)
  BY <1>1 DEF Onward, AloneOn
<1>3. QInv'
  <2>1. [QNext]_qvars /\ QInv
    BY DEF RInv
  <2> QED
    BY <2>1, NextInv
<1>4. TriedOnce' /\ ReaderTypes'
  BY <1>1 DEF RInv, TriedOnce, ReaderTypes
<1>5. CallKept(i)'
  BY <1>1, <1>2, CallStays
<1> QED
  BY <1>2, <1>3, <1>4, <1>5, ReaderMoves

LEMMA LockStep == ASSUME RInv, NEW w \in Reader, NEW j \in Job, Lock(w, j) PROVE RInv'
<1> DEFINE q == [proc[w] EXCEPT !.pc = "row", !.job = j]
<1>1. /\ ReaderTypes /\ lock[j] = None /\ proc[w] \in ProcRow
      /\ proc' = [proc EXCEPT ![w] = q] /\ lock' = [lock EXCEPT ![j] = w]
  BY DEF RInv, ReaderTypes, Lock
<1>2. q \in ProcRow /\ q.pc = "row" /\ q.job = j
  BY <1>1 DEF ProcRow, Labels
<1> HIDE DEF q
<1>3. /\ proc' \in [Reader -> ProcRow] /\ proc'[w] = q
      /\ \A v \in Reader : v # w => proc'[v] = proc[v]
  BY <1>1, <1>2 DEF ReaderTypes
<1>4. lock' \in [Job -> Reader \cup {None}] /\ lock'[j] = w /\ \A i \in Job : i # j => lock'[i] = lock[i]
  BY <1>1 DEF ReaderTypes
<1>5. ReaderKept(w)'
  BY <1>2, <1>3, <1>4 DEF ReaderKept
<1>6. UNCHANGED <<qvars, retained, calls>> /\ dir' = dir /\ dir' \in [Attempt -> DirRow]
  BY <1>1 DEF Lock, ReaderTypes
<1> QED
  BY <1>1, <1>3, <1>4, <1>5, <1>6, QuietStep

\* A step to another label, with the reader's job, attempt and receipt kept.
LEMMA GotoStep ==
  ASSUME RInv, NEW w \in Reader, proc[w].pc # "idle", NEW l \in Labels, Goto(w, l), UNCHANGED lock,
         UNCHANGED <<qvars, retained, calls>>,
         \A k \in Attempt : dir[k].intent => dir'[k].intent, dir' \in [Attempt -> DirRow],
         ReaderKept(w)'
  PROVE  RInv'
<1>1. ReaderTypes /\ proc[w].job \in Job /\ lock[proc[w].job] \in {w, None}
  BY AtWork DEF RInv
<1>2. proc' \in [Reader -> ProcRow] /\ \A v \in Reader : v # w => proc'[v] = proc[v]
  BY <1>1, GotoRow
<1>3. lock' = lock /\ lock' \in [Job -> Reader \cup {None}]
  BY <1>1 DEF ReaderTypes
<1> QED
  BY <1>1, <1>2, <1>3, QuietStep

\* The end of a run that changes nothing else.
LEMMA LeaveStep ==
  ASSUME RInv, NEW w \in Reader, proc[w].pc # "idle", Leave(w), UNCHANGED dir,
         UNCHANGED <<qvars, retained, calls>>
  PROVE  RInv'
<1>1. ReaderTypes /\ proc[w].job \in Job /\ lock[proc[w].job] \in {w, None}
  BY AtWork DEF RInv
<1>2. /\ proc' \in [Reader -> ProcRow] /\ proc'[w].pc = "idle"
      /\ \A v \in Reader : v # w => proc'[v] = proc[v]
      /\ lock' \in [Job -> Reader \cup {None}]
      /\ \A j \in Job : j # proc[w].job => lock'[j] = lock[j]
  BY <1>1, LeaveRow
<1>3. dir' = dir /\ dir' \in [Attempt -> DirRow] /\ ReaderKept(w)'
  BY <1>1, <1>2, IdleKept DEF ReaderTypes
<1> QED
  BY <1>1, <1>2, <1>3, QuietStep

\* A step of the reader's own row: to p, which keeps its job.
LEMMA RowStep ==
  ASSUME RInv, NEW w \in Reader, proc[w].pc # "idle", NEW p \in ProcRow, p.job = proc[w].job,
         proc' = [proc EXCEPT ![w] = p], UNCHANGED <<qvars, lock, dir, retained, calls>>,
         ReaderKept(w)'
  PROVE  RInv'
<1>1. ReaderTypes /\ proc[w].job \in Job /\ lock[proc[w].job] \in {w, None}
  BY AtWork DEF RInv
<1>2. proc' \in [Reader -> ProcRow] /\ \A v \in Reader : v # w => proc'[v] = proc[v]
  BY <1>1 DEF ReaderTypes
<1>3. /\ lock' = lock /\ lock' \in [Job -> Reader \cup {None}] /\ dir' = dir
      /\ dir' \in [Attempt -> DirRow] /\ UNCHANGED <<qvars, retained, calls>>
  BY <1>1 DEF ReaderTypes
<1> QED
  BY <1>1, <1>2, <1>3, QuietStep

LEMMA ReadRowStep == ASSUME RInv, NEW w \in Reader, ReadRow(w) PROVE RInv'
<1> DEFINE j == proc[w].job
<1>1. /\ proc[w].pc = "row" /\ UNCHANGED <<qvars, retained, calls>> /\ dir' = dir
      /\ ReaderTypes /\ ReaderKept(w) /\ proc[w] \in ProcRow
      /\ dir' \in [Attempt -> DirRow] /\ j \in Job
  BY AtWork DEF RInv, ReaderTypes, ReadRow, At
<1>2. CASE Goto(w, "gate") /\ UNCHANGED lock
  <2>1. "gate" \in Labels
    BY DEF Labels
  <2>2. proc'[w].pc = "gate" /\ proc'[w].job = proc[w].job
    BY <1>1, <1>2, <2>1, GotoRow
  <2>3. ReaderKept(w)'
    BY <1>1, <1>2, <2>2 DEF ReaderKept
  <2> QED
    BY <1>1, <1>2, <2>1, <2>3, GotoStep
<1>3. CASE Leave(w)
  BY <1>1, <1>3, LeaveStep
<1>4. ASSUME NEW k \in Attempt, att[k].job = j, UNCHANGED lock,
             proc' = [proc EXCEPT ![w].pc = "terminal", ![w].attempt = k, ![w].recovers = TRUE]
      PROVE  RInv'
  <2> DEFINE q == [proc[w] EXCEPT !.pc = "terminal", !.attempt = k, !.recovers = TRUE]
  <2>1. proc' = [proc EXCEPT ![w] = q]
    BY <1>1, <1>4 DEF ReaderTypes
  <2>2. q \in ProcRow /\ q.pc = "terminal" /\ q.job = proc[w].job /\ q.attempt = k
    BY <1>1 DEF ProcRow, Labels
  <2> HIDE DEF q
  <2>3. proc'[w] = q
    BY <1>1, <2>1 DEF ReaderTypes
  <2>4. ReaderKept(w)'
    <3>1. att' = att /\ lock' = lock
      BY <1>1, <1>4 DEF qvars
    <3> QED
      BY <1>1, <1>4, <2>2, <2>3, <3>1 DEF ReaderKept
  <2> QED
    BY <1>1, <1>4, <2>1, <2>2, <2>4, RowStep
<1> QED
  BY <1>2, <1>3, <1>4 DEF ReadRow

LEMMA IntendStep == ASSUME RInv, NEW w \in Reader, Intend(w) PROVE RInv'
<1> DEFINE k == proc[w].attempt
           d == [dir[k] EXCEPT !.intent = TRUE]
<1>1. /\ proc[w].pc = "prepare" /\ UNCHANGED <<qvars, retained, calls>> /\ UNCHANGED lock
      /\ ReaderTypes /\ ReaderKept(w) /\ Goto(w, "dispatch") /\ "dispatch" \in Labels
      /\ dir' = [dir EXCEPT ![k] = d]
  BY DEF RInv, Intend, At, Labels
<1>2. k \in Attempt /\ dir[k] \in DirRow
  BY <1>1 DEF ReaderKept, ReaderTypes
<1>3. d \in DirRow /\ d.intent
  BY <1>2 DEF DirRow
<1> HIDE DEF d
<1>4. dir' \in [Attempt -> DirRow] /\ dir'[k].intent /\ \A a \in Attempt : dir[a].intent => dir'[a].intent
  BY <1>1, <1>2, <1>3 DEF ReaderTypes
<1>5. proc'[w].pc = "dispatch" /\ proc'[w].job = proc[w].job /\ proc'[w].attempt = k
  BY <1>1, GotoRow
<1>6. ReaderKept(w)'
  <2>1. att' = att /\ lock' = lock /\ calls' = calls /\ retained' = retained
    BY <1>1 DEF qvars
  <2> QED
    BY <1>1, <1>4, <1>5, <2>1 DEF ReaderKept
<1> QED
  BY <1>1, <1>4, <1>6, GotoStep

LEMMA ReturnStep ==
  ASSUME RInv, NEW w \in Reader, NEW text \in {"good", "bad"}, Return(w, text) PROVE RInv'
<1> DEFINE q == [proc[w] EXCEPT !.pc = "keep", !.text = text]
<1>1. /\ proc[w].pc = "await" /\ UNCHANGED <<qvars, lock, dir, retained, calls>>
      /\ ReaderTypes /\ ReaderKept(w) /\ proc[w] \in ProcRow
  BY DEF RInv, ReaderTypes, Return, At
<1>2. proc' = [proc EXCEPT ![w] = q]
  BY <1>1 DEF ReaderTypes, Return
<1>3. q \in ProcRow /\ q.pc = "keep" /\ q.job = proc[w].job /\ q.attempt = proc[w].attempt
  BY <1>1 DEF ProcRow, Labels, Texts
<1> HIDE DEF q
<1>4. proc'[w] = q
  BY <1>1, <1>2 DEF ReaderTypes
<1>5. ReaderKept(w)'
  <2>1. att' = att /\ lock' = lock /\ dir' = dir /\ calls' = calls /\ retained' = retained
    BY <1>1 DEF qvars
  <2> QED
    BY <1>1, <1>3, <1>4, <2>1 DEF ReaderKept
<1> QED
  BY <1>1, <1>2, <1>3, <1>5, RowStep

LEMMA KeepResultStep == ASSUME RInv, NEW w \in Reader, KeepResult(w) PROVE RInv'
<1> DEFINE k == proc[w].attempt
           d == [dir[k] EXCEPT !.result = proc[w].text]
<1>1. /\ proc[w].pc = "keep" /\ UNCHANGED <<qvars, retained, calls>> /\ UNCHANGED lock
      /\ ReaderTypes /\ ReaderKept(w) /\ Goto(w, "terminal") /\ "terminal" \in Labels
      /\ dir' = [dir EXCEPT ![k] = d]
  BY DEF RInv, KeepResult, At, Labels
<1>2. k \in Attempt /\ dir[k] \in DirRow /\ proc[w].text \in Texts
  BY <1>1 DEF ReaderKept, ReaderTypes, ProcRow
<1>3. d \in DirRow /\ d.intent = dir[k].intent
  BY <1>2 DEF DirRow
<1> HIDE DEF d
<1>4. dir' \in [Attempt -> DirRow] /\ \A a \in Attempt : dir[a].intent => dir'[a].intent
  BY <1>1, <1>2, <1>3 DEF ReaderTypes
<1>5. proc'[w].pc = "terminal" /\ proc'[w].job = proc[w].job /\ proc'[w].attempt = k
  BY <1>1, GotoRow
<1>6. ReaderKept(w)'
  <2>1. att' = att /\ lock' = lock /\ calls' = calls /\ retained' = retained
    BY <1>1 DEF qvars
  <2> QED
    BY <1>1, <1>5, <2>1 DEF ReaderKept
<1> QED
  BY <1>1, <1>4, <1>6, GotoStep

LEMMA RaiseStep == ASSUME RInv, NEW w \in Reader, Raise(w) PROVE RInv'
<1> DEFINE q == [proc[w] EXCEPT !.pc = "terminal", !.error = TRUE]
<1>1. /\ proc[w].pc \in {"prepare", "dispatch", "await", "keep"}
      /\ UNCHANGED <<qvars, lock, dir, retained, calls>>
      /\ ReaderTypes /\ ReaderKept(w) /\ proc[w] \in ProcRow
  BY DEF RInv, ReaderTypes, Raise
<1>2. proc' = [proc EXCEPT ![w] = q]
  BY <1>1 DEF ReaderTypes, Raise
<1>3. q \in ProcRow /\ q.pc = "terminal" /\ q.job = proc[w].job /\ q.attempt = proc[w].attempt
  BY <1>1 DEF ProcRow, Labels
<1> HIDE DEF q
<1>4. proc'[w] = q
  BY <1>1, <1>2 DEF ReaderTypes
<1>5. ReaderKept(w)'
  <2>1. att' = att /\ lock' = lock
    BY <1>1 DEF qvars
  <2> QED
    BY <1>1, <1>3, <1>4, <2>1 DEF ReaderKept
<1> QED
  BY <1>1, <1>2, <1>3, <1>5, RowStep

\* What _terminal derives: a receipt, and one that denies the call only where
\* there was no intent.
LEMMA TerminalVerdict ==
  ASSUME NEW k, NEW error, NEW recovers \in BOOLEAN
  PROVE  LET r == TerminalOf(k, error, recovers) IN
         /\ r \in Receipts
         /\ r.outcome = "not_dispatched" => ~dir[k].intent
BY DEF TerminalOf, Receipts

LEMMA TerminalStep == ASSUME RInv, NEW w \in Reader, Terminal(w) PROVE RInv'
<1> DEFINE r == TerminalOf(proc[w].attempt, proc[w].error, proc[w].recovers)
           q == [proc[w] EXCEPT !.pc = "hold", !.receipt = r]
<1>1. /\ proc[w].pc = "terminal" /\ UNCHANGED <<qvars, lock, dir, retained, calls>>
      /\ ReaderTypes /\ ReaderKept(w) /\ proc[w] \in ProcRow /\ proc[w].job \in Job
      /\ CallKept(proc[w].job)
  BY AtWork DEF RInv, ReaderTypes, Terminal, At
<1>2. proc' = [proc EXCEPT ![w] = q]
  BY <1>1 DEF ReaderTypes, Terminal
<1>3. r \in Receipts /\ (r.outcome = "not_dispatched" => ~dir[proc[w].attempt].intent)
  <2>1. proc[w].recovers \in BOOLEAN
    BY <1>1 DEF ProcRow
  <2> QED
    BY <2>1, TerminalVerdict
<1> HIDE DEF r
<1>4. /\ q \in ProcRow /\ q.pc = "hold" /\ q.job = proc[w].job /\ q.attempt = proc[w].attempt
      /\ q.receipt = r
  BY <1>1, <1>3 DEF ProcRow, Labels
<1> HIDE DEF q
<1>5. proc'[w] = q
  BY <1>1, <1>2 DEF ReaderTypes
<1>6. r.outcome = "not_dispatched" => calls[proc[w].job] = 0
  <2>1. calls[proc[w].job] \in Nat
    BY <1>1 DEF ReaderTypes
  <2> QED
    BY <1>1, <1>3, <2>1 DEF ReaderKept, CallKept
<1>7. ReaderKept(w)'
  <2>1. att' = att /\ lock' = lock /\ calls' = calls
    BY <1>1 DEF qvars
  <2> QED
    BY <1>1, <1>3, <1>4, <1>5, <1>6, <2>1 DEF ReaderKept
<1> QED
  BY <1>1, <1>2, <1>4, <1>7, RowStep

LEMMA WriteReceiptStep == ASSUME RInv, NEW w \in Reader, WriteReceipt(w) PROVE RInv'
<1> DEFINE k == proc[w].attempt
           r == proc[w].receipt
<1>1. /\ proc[w].pc = "write" /\ UNCHANGED <<qvars, retained, calls>>
      /\ ReaderTypes /\ ReaderKept(w) /\ k \in Attempt /\ dir[k] \in DirRow /\ r \in Receipts
  BY DEF RInv, ReaderTypes, ReaderKept, WriteReceipt, At
<1>2. CASE Leave(w) /\ UNCHANGED dir
  BY <1>1, <1>2, LeaveStep
<1>3. ASSUME NEW d \in DirRow, dir' = [dir EXCEPT ![k] = d], d.intent = dir[k].intent,
             NEW l \in {"adopt", "finish"}, Goto(w, l), UNCHANGED lock
      PROVE  RInv'
  <2>1. dir' \in [Attempt -> DirRow] /\ \A a \in Attempt : dir[a].intent => dir'[a].intent
    BY <1>1, <1>3 DEF ReaderTypes
  <2>2. l \in Labels
    BY DEF Labels
  <2>3. proc'[w].pc = l /\ proc'[w].job = proc[w].job /\ proc'[w].attempt = k /\ proc'[w].receipt = r
    BY <1>1, <1>3, <2>2, GotoRow
  <2>4. ReaderKept(w)'
    <3>1. att' = att /\ lock' = lock /\ calls' = calls /\ hold' = hold
      BY <1>1, <1>3 DEF qvars
    <3> QED
      BY <1>1, <2>3, <3>1 DEF ReaderKept
  <2> QED
    BY <1>1, <1>3, <2>1, <2>2, <2>4, GotoStep
<1>4. CASE ~(Leave(w) /\ UNCHANGED dir) /\ proc[w].recovers
  <2> DEFINE d == [dir[k] EXCEPT !.recovery = r]
  <2>1. dir' = [dir EXCEPT ![k] = d] /\ Goto(w, "adopt") /\ UNCHANGED lock
    BY <1>1, <1>4 DEF WriteReceipt, ReaderTypes, DirRow
  <2>2. d \in DirRow /\ d.intent = dir[k].intent
    BY <1>1 DEF DirRow
  <2> QED
    BY <1>3, <2>1, <2>2
<1>5. CASE ~(Leave(w) /\ UNCHANGED dir) /\ ~proc[w].recovers
  <2> DEFINE d == [dir[k] EXCEPT !.receipt = r]
  <2>1. dir' = [dir EXCEPT ![k] = d] /\ Goto(w, "finish") /\ UNCHANGED lock
    BY <1>1, <1>5 DEF WriteReceipt, ReaderTypes, DirRow
  <2>2. d \in DirRow /\ d.intent = dir[k].intent
    BY <1>1 DEF DirRow
  <2> QED
    BY <1>3, <2>1, <2>2
<1> QED
  BY <1>2, <1>4, <1>5
-----------------------------------------------------------------------------
(* The call, the hold, and the steps that use the queue. *)

LEMMA DispatchStep == ASSUME RInv, NEW w \in Reader, Dispatch(w) PROVE RInv'
<1> DEFINE k == proc[w].attempt
<1>0. PICK i \in Job : i = proc[w].job
  BY AtWork DEF Dispatch, At
<1>1. /\ proc[w].pc = "dispatch" /\ UNCHANGED <<qvars, lock, dir, retained>>
      /\ ReaderTypes /\ ReaderKept(w) /\ i \in Job /\ lock[i] \in {w, None} /\ Goto(w, "await")
      /\ "await" \in Labels /\ calls' = [calls EXCEPT ![i] = calls[i] + 1]
      /\ QInv /\ TriedOnce
  BY <1>0, AtWork DEF RInv, Dispatch, At, Labels
<1>2. job' = job /\ att' = att /\ hold' = hold /\ lock' = lock /\ dir' = dir /\ retained' = retained
  BY <1>1 DEF qvars
<1>3. /\ proc' \in [Reader -> ProcRow] /\ proc'[w].pc = "await" /\ proc'[w].job = i
      /\ proc'[w].attempt = k /\ \A v \in Reader : v # w => proc'[v] = proc[v]
  BY <1>0, <1>1, GotoRow
<1>4. /\ calls[i] = 0 /\ retained[i] = None /\ k \in Attempt /\ att[k].job = i /\ dir[k].intent
  BY <1>0, <1>1 DEF ReaderKept
<1>5. /\ calls' \in [Job -> Nat] /\ calls'[i] = 1 /\ \A j \in Job : j # i => calls'[j] = calls[j]
  BY <1>1, <1>4 DEF ReaderTypes
<1>6. Onward /\ AloneOn(i)
  BY <1>2, <1>5 DEF Onward, AloneOn
<1>7. QInv'
  BY <1>1, NextInv
<1>8. TriedOnce' /\ ReaderTypes'
  BY <1>1, <1>2, <1>3, <1>5 DEF TriedOnce, ReaderTypes
<1>9. ReaderKept(w)'
  BY <1>0, <1>1, <1>2, <1>3, <1>4 DEF ReaderKept
<1>10. CallKept(i)'
  <2>1. job[i].tries = 1 /\ \A b \in Attempt : att[b].job = i => b = k
    BY <1>1, <1>4, OneAttempt
  <2> QED
    BY <1>2, <1>4, <1>5, <2>1 DEF CallKept
<1> QED
  BY <1>1, <1>3, <1>6, <1>7, <1>8, <1>9, <1>10, ReaderMoves

LEMMA HoldUncertainStep == ASSUME RInv, NEW w \in Reader, HoldUncertain(w) PROVE RInv'
<1>0. PICK i \in Job : i = proc[w].job
  BY AtWork DEF HoldUncertain, At
<1>1. /\ proc[w].pc = "hold" /\ UNCHANGED <<lock, dir, retained, calls>>
      /\ UNCHANGED <<now, job, att, cleared, held>>
      /\ hold' = (hold \/ proc[w].receipt.outcome = "unknown")
      /\ ReaderTypes /\ ReaderKept(w) /\ i \in Job /\ lock[i] \in {w, None} /\ Goto(w, "write")
      /\ "write" \in Labels /\ QInv /\ TriedOnce
  BY <1>0, AtWork DEF RInv, HoldUncertain, At, Labels
<1>2. /\ proc' \in [Reader -> ProcRow] /\ proc'[w].pc = "write" /\ proc'[w].job = i
      /\ proc'[w].attempt = proc[w].attempt /\ proc'[w].receipt = proc[w].receipt
      /\ \A v \in Reader : v # w => proc'[v] = proc[v]
  BY <1>0, <1>1, GotoRow
<1>3. Onward /\ AloneOn(i)
  BY <1>1 DEF Onward, AloneOn
<1>4. QInv'
  <2>1. hold \in BOOLEAN
    BY <1>1 DEF QInv, QTypeOK
  <2>2. Hold \/ UNCHANGED qvars
    BY <1>1, <2>1 DEF Hold, qvars
  <2> QED
    BY <1>1, <2>2, NextInv DEF QNext
<1>5. TriedOnce' /\ ReaderTypes'
  BY <1>1, <1>2 DEF TriedOnce, ReaderTypes
<1>6. ReaderKept(w)'
  BY <1>0, <1>1, <1>2 DEF ReaderKept
<1>7. CallKept(i)'
  BY <1>1, <1>3, CallStays
<1> QED
  BY <1>1, <1>2, <1>3, <1>4, <1>5, <1>6, <1>7, ReaderMoves

\* A reader that ends after a step on the queue which gave out no attempt.
LEMMA LeavesQueue ==
  ASSUME RInv, NEW w \in Reader, proc[w].pc # "idle", NEW i \in Job, i = proc[w].job, Leave(w),
         UNCHANGED <<dir, calls>>, QInv', TriedOnce',
         \A j \in Job : job'[j].tries = job[j].tries,
         \A k \in Attempt : att'[k].job = att[k].job, hold' = hold,
         retained' \in [Job -> Receipts \cup {None}],
         \A j \in Job : j # i => retained'[j] = retained[j],
         CallKept(i)'
  PROVE  RInv'
<1>1. ReaderTypes /\ i \in Job /\ lock[i] \in {w, None}
  BY AtWork DEF RInv
<1>2. /\ proc' \in [Reader -> ProcRow] /\ proc'[w].pc = "idle"
      /\ \A v \in Reader : v # w => proc'[v] = proc[v]
      /\ lock' \in [Job -> Reader \cup {None}]
      /\ \A j \in Job : j # i => lock'[j] = lock[j]
  BY <1>1, LeaveRow
<1>3. Onward /\ AloneOn(i)
  BY <1>2 DEF Onward, AloneOn
<1>4. ReaderTypes' /\ ReaderKept(w)'
  BY <1>1, <1>2, IdleKept DEF ReaderTypes
<1> QED
  BY <1>1, <1>2, <1>3, <1>4, ReaderMoves

\* The same, when nothing is settled.
LEMMA LeavesUnsettled ==
  ASSUME RInv, NEW w \in Reader, proc[w].pc # "idle", Leave(w), UNCHANGED <<dir, calls, retained>>,
         QInv', TriedOnce', hold' = hold,
         \A j \in Job : job'[j].tries = job[j].tries,
         \A k \in Attempt : att'[k].job = att[k].job
  PROVE  RInv'
<1>1. PICK i \in Job : i = proc[w].job
  BY AtWork
<1>2. Onward /\ ReaderTypes
  BY DEF Onward, RInv
<1>3. CallKept(i)'
  BY <1>1, <1>2, CallStays
<1> QED
  BY <1>1, <1>2, <1>3, LeavesQueue DEF ReaderTypes

\* A claim that finds nothing sweeps, and counts no try.
LEMMA NothingClaimed ==
  ASSUME QInv, TriedOnce, NEW w \in Worker, NEW ask \in Ask, NEW t \in Readings, ClaimNothing(w, ask, t)
  PROVE  /\ QInv' /\ TriedOnce' /\ hold' = hold
         /\ \A j \in Job : job'[j].tries = job[j].tries
         /\ \A k \in Attempt : att'[k].job = att[k].job
<1>1. QInv'
  BY NextInv DEF QNext, WorkerNext, ClaimNext
<1>2. job' = SweptJobs(t) /\ att' = SweptAttempts(t) /\ hold' = hold
  BY DEF ClaimNothing
<1>3. /\ \A j \in Job : job'[j].tries = job[j].tries /\ job'[j].max = job[j].max
      /\ \A k \in Attempt : att'[k].job = att[k].job
  BY <1>2, SweptRows DEF QInv
<1> QED
  BY <1>1, <1>2, <1>3 DEF TriedOnce

LEMMA GateStep == ASSUME RInv, NEW w \in Reader, Gate(w) PROVE RInv'
<1>0. PICK i \in Job : i = proc[w].job
  BY AtWork DEF Gate, At
<1>1. /\ proc[w].pc = "gate" /\ UNCHANGED <<dir, retained, calls>> /\ ReaderTypes /\ ReaderKept(w)
      /\ i \in Job /\ lock[i] \in {w, None} /\ QInv /\ TriedOnce /\ w \in Worker
  BY <1>0, AtWork, ReaderAssumption DEF RInv, Gate, At
<1>2. CASE Leave(w) /\ UNCHANGED qvars
  <2>1. UNCHANGED <<qvars, retained, calls>> /\ UNCHANGED dir
    BY <1>1, <1>2
  <2> QED
    BY <1>1, <1>2, <2>1, LeaveStep
<1>3. CASE PassGate(w) /\ Goto(w, "claim") /\ UNCHANGED lock
  <2>1. job' = job /\ att' = att /\ hold' = hold /\ lock' = lock
    BY <1>3 DEF PassGate
  <2>2. "claim" \in Labels
    BY DEF Labels
  <2>3. /\ proc' \in [Reader -> ProcRow] /\ proc'[w].pc = "claim" /\ proc'[w].job = i
        /\ \A v \in Reader : v # w => proc'[v] = proc[v]
    BY <1>0, <1>1, <1>3, <2>2, GotoRow
  <2>4. Onward /\ AloneOn(i)
    BY <1>1, <2>1 DEF Onward, AloneOn
  <2>5. QInv'
    BY <1>1, <1>3, NextInv DEF QNext, WorkerNext
  <2>6. TriedOnce' /\ ReaderTypes'
    BY <1>1, <2>1, <2>3 DEF TriedOnce, ReaderTypes
  <2>7. ReaderKept(w)'
    BY <1>0, <1>1, <2>1, <2>3 DEF ReaderKept
  <2>8. CallKept(i)'
    BY <1>1, <2>1, <2>4, CallStays
  <2> QED
    BY <1>1, <2>3, <2>4, <2>5, <2>6, <2>7, <2>8, ReaderMoves
<1> QED
  BY <1>2, <1>3 DEF Gate

\* A claim gives a reading its only attempt, before which nobody called for it.
LEMMA ClaimedStep ==
  ASSUME RInv, NEW w \in Reader, proc[w].pc = "claim", NEW i \in Job, i = proc[w].job,
         NEW k \in Attempt, NEW t \in Readings, ClaimJob(w, ReaderAsk(i), i, k, t),
         proc' = [proc EXCEPT ![w].pc = "prepare", ![w].attempt = k],
         UNCHANGED <<lock, dir, retained, calls>>
  PROVE  RInv'
<1> DEFINE q == [proc[w] EXCEPT !.pc = "prepare", !.attempt = k]
<1>1. /\ ReaderTypes /\ ReaderKept(w) /\ lock[i] \in {w, None} /\ QInv /\ TriedOnce
      /\ w \in Worker /\ t \in Nat /\ CallKept(i) /\ proc[w] \in ProcRow
  <2>1. QInv /\ t \in Nat
    BY ReadingsNat DEF RInv, QInv
  <2> QED
    BY <2>1, AtWork, ReaderAssumption DEF RInv, ReaderTypes
<1>2. proc' = [proc EXCEPT ![w] = q]
  BY <1>1 DEF ReaderTypes
<1>3. q \in ProcRow /\ q.pc = "prepare" /\ q.job = i /\ q.attempt = k
  BY <1>1 DEF ProcRow, Labels
<1> HIDE DEF q
<1>4. /\ proc' \in [Reader -> ProcRow] /\ proc'[w] = q
      /\ \A v \in Reader : v # w => proc'[v] = proc[v]
  BY <1>1, <1>2, <1>3 DEF ReaderTypes
<1>5. QInv'
  <2>1. ReaderAsk(i) \in Ask
    BY QueueAssumption, ReaderAssumption DEF ReaderAsk, Ask
  <2>2. QNext
    BY <1>1, <2>1 DEF QNext, WorkerNext, ClaimNext
  <2> QED
    BY <1>1, <2>2, NextInv
<1>6. /\ \A j \in Job : j # i => job'[j] = SweptJobs(t)[j]
      /\ \A a \in Attempt : a # k => att'[a] = SweptAttempts(t)[a]
      /\ att[k].status = "absent"
  <2>1. PICK ask : ask = ReaderAsk(i)
    OBVIOUS
  <2>2. ClaimJob(w, ask, i, k, t)
    BY <2>1
  <2>3. QInv /\ w \in Worker /\ t \in Nat
    BY <1>1
  <2>4. /\ Consistent(job', att')
        /\ SweptJobs(t)[i].state = "queued" /\ att[k].status = "absent"
        /\ job'[i].state = "running" /\ job'[i].token = k
        /\ \A j \in Job : j # i => job'[j] = SweptJobs(t)[j]
        /\ att'[k].status = "running" /\ \A a \in Attempt : a # k => att'[a] = SweptAttempts(t)[a]
    BY ONLY <2>2, <2>3, i \in Job, k \in Attempt, ClaimConsistent
  <2> QED
    BY <2>4
<1>7. /\ job'[i].tries = job[i].tries + 1 /\ job'[i].max = job[i].max
      /\ job[i].tries < job[i].max /\ att'[k].job = i
  BY <1>1, ClaimCounts
<1>8. /\ \A j \in Job : SweptJobs(t)[j].tries = job[j].tries /\ SweptJobs(t)[j].max = job[j].max
      /\ \A a \in Attempt : SweptAttempts(t)[a].job = att[a].job
  BY <1>1, SweptRows DEF QInv
<1>9. job[i].tries = 0
  <2>1. job[i].tries \in 0..5
    BY <1>1 DEF QInv, QTypeOK, JobRow
  <2> QED
    BY <1>1, <1>7, <2>1 DEF TriedOnce
<1>10. att[k].job = None
  BY <1>1, <1>6 DEF QInv, Consistent, JobOf
<1>11. calls[i] = 0 /\ retained[i] = None
  <2>1. calls[i] \in Nat
    BY <1>1 DEF ReaderTypes
  <2> QED
    BY <1>1, <1>9, <2>1 DEF CallKept
<1>12. Onward
  <2>1. \A j \in Job : job[j].tries > 0 => job'[j].tries > 0
    BY <1>6, <1>8, <1>9
  <2>2. \A a \in Attempt : att[a].job # None => att'[a].job = att[a].job
    BY <1>6, <1>8, <1>10
  <2>3. dir' = dir /\ hold' = hold
    BY DEF ClaimJob
  <2> QED
    BY <2>1, <2>2, <2>3 DEF Onward
<1>13. AloneOn(i)
  BY <1>6, <1>7, <1>8 DEF AloneOn
<1>14. TriedOnce' /\ ReaderTypes'
  BY <1>1, <1>4, <1>6, <1>7, <1>8 DEF TriedOnce, ReaderTypes
<1>15. ReaderKept(w)'
  BY <1>1, <1>3, <1>4, <1>7, <1>11 DEF ReaderKept
<1>16. CallKept(i)'
  BY <1>11 DEF CallKept
<1> QED
  BY <1>1, <1>4, <1>5, <1>12, <1>13, <1>14, <1>15, <1>16, ReaderMoves

LEMMA ClaimStep == ASSUME RInv, NEW w \in Reader, Claim(w) PROVE RInv'
<1>1. PICK i \in Job : i = proc[w].job
  BY AtWork DEF Claim, At
<1>2. proc[w].pc = "claim" /\ UNCHANGED <<dir, retained, calls>> /\ QInv /\ TriedOnce /\ w \in Worker
  BY ReaderAssumption DEF RInv, Claim, At
<1>3. ASSUME NEW t \in Readings, ClaimNothing(w, ReaderAsk(i), t), Leave(w) PROVE RInv'
  <2>1. ReaderAsk(i) \in Ask
    BY QueueAssumption, ReaderAssumption DEF ReaderAsk, Ask
  <2>2. /\ QInv' /\ TriedOnce' /\ hold' = hold
        /\ \A j \in Job : job'[j].tries = job[j].tries
        /\ \A k \in Attempt : att'[k].job = att[k].job
    BY <1>2, <1>3, <2>1, NothingClaimed
  <2> QED
    BY <1>2, <1>3, <2>2, LeavesUnsettled
<1>4. ASSUME NEW t \in Readings, NEW k \in Attempt, ClaimJob(w, ReaderAsk(i), i, k, t),
             proc' = [proc EXCEPT ![w].pc = "prepare", ![w].attempt = k], UNCHANGED lock
      PROVE  RInv'
  BY <1>1, <1>2, <1>4, ClaimedStep
<1> QED
  BY <1>1, <1>3, <1>4 DEF Claim

\* Settling reading i with the receipt r of its attempt.
LEMMA SettledKept ==
  ASSUME RInv, NEW i \in Job, NEW k \in Attempt, att[k].job = i, NEW r \in Receipts,
         r.outcome = "unknown" => hold, r.outcome = "not_dispatched" => calls[i] = 0,
         retained' = [retained EXCEPT ![i] = r], UNCHANGED <<dir, calls>>, hold' = hold,
         \A j \in Job : job'[j].tries = job[j].tries,
         \A a \in Attempt : att'[a].job = att[a].job
  PROVE  /\ CallKept(i)' /\ retained' \in [Job -> Receipts \cup {None}]
         /\ \A j \in Job : j # i => retained'[j] = retained[j]
<1>1. /\ retained \in [Job -> Receipts \cup {None}] /\ CallKept(i) /\ QInv /\ TriedOnce
      /\ calls[i] \in Nat
  BY DEF RInv, ReaderTypes
<1>2. retained'[i] = r
  BY <1>1
<1>3. job'[i].tries = 1
  BY <1>1, OneAttempt
<1> QED
  BY <1>1, <1>2, <1>3 DEF CallKept

LEMMA FinishRunStep == ASSUME RInv, NEW w \in Reader, FinishRun(w) PROVE RInv'
<1> DEFINE r == proc[w].receipt
           k == proc[w].attempt
<1>1. PICK i \in Job : i = proc[w].job
  BY AtWork DEF FinishRun, At
<1>2. /\ proc[w].pc = "finish" /\ UNCHANGED <<dir, calls>> /\ QInv /\ TriedOnce /\ w \in Worker
      /\ Leave(w) /\ Readings \subseteq Nat
  BY ReaderAssumption, ReadingsNat DEF RInv, QInv, FinishRun, At
<1>3. /\ k \in Attempt /\ att[k].job = i /\ r \in Receipts
      /\ r.outcome = "unknown" => hold
      /\ r.outcome = "not_dispatched" => calls[i] = 0
  BY <1>1, <1>2 DEF RInv, ReaderKept
<1>4. r.state \in Outcome
  BY <1>3, ReaderAssumption DEF Receipts
<1>5. ASSUME NEW t \in Readings, Finish(w, r.state, FALSE, t),
             retained' = [retained EXCEPT ![i] = r]
      PROVE  RInv'
  <2>1. hold' = hold
    BY <1>5 DEF Finish
  <2>2. QInv'
    <3>1. FALSE \in BOOLEAN
      OBVIOUS
    <3>2. Deliver(w)
      BY <1>4, <1>5, <3>1 DEF Deliver
    <3> QED
      BY <1>2, <3>2, NextInv DEF QNext, WorkerNext
  <2> DEFINE h == held[w]
             g == att[h].job
  <2>3. /\ job'[g].tries = job[g].tries /\ job'[g].max = job[g].max
        /\ \A j \in Job : j # g => job'[j] = job[j]
        /\ \A a \in Attempt : att'[a].job = att[a].job
    BY <1>2, <1>4, <1>5, FinishConsistent
  <2>4. TriedOnce' /\ \A j \in Job : job'[j].tries = job[j].tries
    BY <1>2, <2>3 DEF TriedOnce
  <2>5. /\ CallKept(i)' /\ retained' \in [Job -> Receipts \cup {None}]
        /\ \A j \in Job : j # i => retained'[j] = retained[j]
    BY <1>2, <1>3, <1>5, <2>1, <2>3, <2>4, SettledKept
  <2> QED
    BY <1>1, <1>2, <2>1, <2>2, <2>3, <2>4, <2>5, LeavesQueue
<1>6. ASSUME NEW t \in Readings, LoseLease(w, t), UNCHANGED retained PROVE RInv'
  <2>1. QInv'
    BY <1>2, <1>6, NextInv DEF QNext, WorkerNext, Deliver
  <2>2. job' = job /\ att' = att /\ hold' = hold /\ TriedOnce'
    BY <1>2, <1>6 DEF LoseLease, TriedOnce
  <2> QED
    BY <1>2, <1>6, <2>1, <2>2, LeavesUnsettled
<1> QED
  BY <1>1, <1>5, <1>6 DEF FinishRun

\* The transaction of a recovery is not one of the queue's own, and keeps the
\* queue consistent all the same: the attempt it ends is the only one.
LEMMA AdoptedConsistent ==
  ASSUME QInv, TriedOnce, NEW i \in Job, NEW k \in Attempt, att[k].job = i, NEW s \in Outcome,
         att' = [att EXCEPT ![k].status = s],
         job' = [job EXCEPT ![i] = [@ EXCEPT !.state = s, !.token = None, !.lease = 0,
                                             !.error = "reported", !.result = k]],
         UNCHANGED <<now, hold, cleared, held>>
  PROVE  /\ QInv' /\ TriedOnce'
         /\ \A j \in Job : job'[j].tries = job[j].tries
         /\ \A a \in Attempt : att'[a].job = att[a].job
<1> DEFINE p == [job[i] EXCEPT !.state = s, !.token = None, !.lease = 0,
                               !.error = "reported", !.result = k]
           b == [att[k] EXCEPT !.status = s]
<1>1. /\ job \in [Job -> JobRow] /\ job[i] \in JobRow /\ Consistent(job, att)
      /\ att \in [Attempt -> AttemptRow] /\ att[k] \in AttemptRow
  BY DEF QInv, QTypeOK
<1>2. job' = [job EXCEPT ![i] = p] /\ att' = [att EXCEPT ![k] = b]
  BY <1>1
<1>3. /\ p \in JobRow /\ p.state = s /\ p.tries = job[i].tries /\ p.max = job[i].max
      /\ p.token = None
  BY <1>1 DEF JobRow
<1>4. b \in AttemptRow /\ b.status = s /\ b.job = i /\ b.ordinal = att[k].ordinal
  BY <1>1 DEF AttemptRow
<1>5. s \notin {"absent", "queued", "running"}
  BY QueueAssumption
<1>6. job[i].state = "running" => job[i].token = k
  BY <1>1, OneAttempt DEF Consistent, Running
<1> HIDE DEF p, b
<1>7. /\ Consistent(job', att')
      /\ job'[i] = p /\ \A j \in Job : j # i => job'[j] = job[j]
      /\ \A a \in Attempt : /\ att'[a].status = "absent" <=> att[a].status = "absent"
                            /\ att'[a].job = att[a].job
  <2>1. p.state \in Outcome \cup {"queued"} /\ (p.state = "queued" => p.tries < p.max) /\ b.status \in Outcome
    BY <1>3, <1>4, <1>5
  <2>2. /\ Consistent(job, att) /\ p \in JobRow /\ b \in AttemptRow
        /\ p.tries = job[i].tries /\ p.max = job[i].max /\ p.token = None
        /\ b.job = i /\ b.ordinal = att[k].ordinal
    BY <1>1, <1>3, <1>4
  <2>3. job' = [job EXCEPT ![i] = p] /\ att' = [att EXCEPT ![k] = b] /\ att[k].job = i
    BY <1>2
  <2> QED
    BY ONLY <1>6, <2>1, <2>2, <2>3, i \in Job, k \in Attempt, EndedConsistent
<1>8. QInv'
  <2>1. HeldIssued'
    BY <1>7 DEF QInv, QTypeOK, HeldIssued
  <2> QED
    BY <1>7, <2>1 DEF QInv, QTypeOK, Consistent, Rows
<1>9. \A j \in Job : job'[j].tries = job[j].tries /\ job'[j].max = job[j].max
  BY <1>3, <1>7
<1> QED
  BY <1>7, <1>8, <1>9 DEF TriedOnce

LEMMA AdoptStep == ASSUME RInv, NEW w \in Reader, Adopt(w) PROVE RInv'
<1>1. PICK i \in Job : i = proc[w].job
  BY AtWork DEF Adopt, At
<1>2. /\ proc[w].pc = "adopt" /\ UNCHANGED <<dir, calls>> /\ QInv /\ TriedOnce
      /\ Leave(w) /\ UNCHANGED <<now, hold, cleared, held>> /\ hold' = hold
  BY DEF RInv, Adopt, At
<1>3. PICK k \in Attempt : k = proc[w].attempt
  BY <1>2 DEF RInv, ReaderKept
<1>4. PICK r \in Receipts : r = proc[w].receipt
  BY <1>2 DEF RInv, ReaderKept
<1>5. /\ att[k].job = i
      /\ r.outcome = "unknown" => hold
      /\ r.outcome = "not_dispatched" => calls[i] = 0
  BY <1>1, <1>2, <1>3, <1>4 DEF RInv, ReaderKept
<1>6. r.state \in Outcome
  BY ReaderAssumption DEF Receipts
<1>7. CASE UNCHANGED <<att, job, retained>>
  <2>1. UNCHANGED qvars
    BY <1>2, <1>7 DEF qvars
  <2>2. QInv' /\ TriedOnce'
    BY <1>2, <1>7, <2>1, NextInv DEF TriedOnce
  <2> QED
    BY <1>2, <1>7, <2>2, LeavesUnsettled
<1>8. CASE /\ att' = [att EXCEPT ![k].status = r.state]
           /\ job' = [job EXCEPT ![i] = [@ EXCEPT !.state = r.state, !.token = None, !.lease = 0,
                                                  !.error = "reported", !.result = k]]
           /\ retained' = [retained EXCEPT ![i] = r]
  <2>1. PICK s \in Outcome : s = r.state
    BY <1>6
  <2>2. /\ QInv' /\ TriedOnce'
        /\ \A j \in Job : job'[j].tries = job[j].tries
        /\ \A a \in Attempt : att'[a].job = att[a].job
    BY <1>2, <1>5, <1>8, <2>1, AdoptedConsistent
  <2>3. /\ CallKept(i)' /\ retained' \in [Job -> Receipts \cup {None}]
        /\ \A j \in Job : j # i => retained'[j] = retained[j]
    BY <1>2, <1>5, <1>8, <2>2, SettledKept
  <2> QED
    BY <1>1, <1>2, <2>2, <2>3, LeavesQueue
<1> QED
  BY <1>1, <1>3, <1>4, <1>7, <1>8 DEF Adopt

LEMMA ReaderCrashStep == ASSUME RInv, NEW w \in Reader, ReaderCrash(w) PROVE RInv'
<1>1. /\ proc[w].pc # "idle" /\ UNCHANGED <<dir, calls, retained>> /\ QInv /\ TriedOnce
      /\ Leave(w) /\ job' = job /\ att' = att /\ hold' = hold /\ now' = now /\ w \in Worker
      /\ cleared' = cleared \ {w} /\ held' = [held EXCEPT ![w] = None]
  BY ReaderAssumption DEF RInv, ReaderCrash, At
<1>2. QInv'
  <2>1. /\ now' \in Nat /\ job' \in [Job -> JobRow] /\ att' \in [Attempt -> AttemptRow]
        /\ hold' \in BOOLEAN /\ cleared' \in SUBSET Worker /\ held' \in [Worker -> Attempt \cup {None}]
    BY <1>1 DEF QInv, QTypeOK
  <2>2. HeldIssued'
    BY <1>1 DEF QInv, QTypeOK, HeldIssued
  <2> QED
    BY <1>1, <2>1, <2>2 DEF QInv, QTypeOK
<1>3. TriedOnce'
  BY <1>1 DEF TriedOnce
<1> QED
  BY <1>1, <1>2, <1>3, LeavesUnsettled

LEMMA SurroundingsStep ==
  ASSUME RInv, (\E w \in Worker : OpenClaim(w)) \/ Drift \/ Clock \/ UNCHANGED rvars
  PROVE  RInv'
<1>1. QInv /\ TriedOnce
  BY DEF RInv
<1>2. UNCHANGED <<lock, proc, dir, retained, calls>>
  BY DEF OpenClaim, Drift, Clock, rvars
<1>3. ASSUME QInv', job' = job, att' = att, hold' = hold PROVE RInv'
  <2>1. Onward /\ TriedOnce'
    BY <1>1, <1>2, <1>3 DEF Onward, TriedOnce
  <2> QED
    BY <1>2, <1>3, <2>1, Undisturbed
<1>4. ASSUME NEW w \in Worker, NEW ask \in Ask, NEW t \in Readings, ClaimNothing(w, ask, t) PROVE RInv'
  <2>1. /\ QInv' /\ TriedOnce' /\ hold' = hold
        /\ \A j \in Job : job'[j].tries = job[j].tries
        /\ \A k \in Attempt : att'[k].job = att[k].job
    BY <1>1, <1>4, NothingClaimed
  <2>2. Onward
    BY <1>2, <2>1 DEF Onward
  <2> QED
    BY <1>2, <2>1, <2>2, Undisturbed
<1>5. CASE UNCHANGED qvars
  <2>1. QInv'
    BY <1>1, <1>5, NextInv
  <2> QED
    BY <1>3, <1>5, <2>1 DEF qvars
<1>6. CASE Tick
  <2>1. QInv'
    BY <1>1, <1>6, NextInv DEF QNext
  <2> QED
    BY <1>3, <1>6, <2>1 DEF Tick
<1>7. ASSUME NEW w \in Worker, PassGate(w) PROVE RInv'
  <2>1. QInv'
    BY <1>1, <1>7, NextInv DEF QNext, WorkerNext
  <2> QED
    BY <1>3, <1>7, <2>1 DEF PassGate
<1>8. [id |-> None, workflow |-> None] \in Ask
  BY DEF Ask
<1> QED
  BY <1>4, <1>5, <1>6, <1>7, <1>8 DEF OpenClaim, Drift, Clock, rvars
-----------------------------------------------------------------------------
(* The invariant, and the theorem. *)

LEMMA ReaderInit == RInit => RInv
<1> SUFFICES ASSUME RInit PROVE RInv
  OBVIOUS
<1> DEFINE q == [NoJob EXCEPT !.state = "queued"]
<1>1. /\ q \in JobRow /\ q.state = "queued" /\ q.tries = 0 /\ q.max = 1 /\ q.token = None
      /\ q.result = None
  BY DEF NoJob, JobRow
<1>2. NoAttempt \in AttemptRow /\ NoAttempt.status = "absent" /\ NoAttempt.job = None
  BY DEF NoAttempt, AttemptRow
<1>3. Idle \in ProcRow /\ Idle.pc = "idle" /\ EmptyDir \in DirRow
  BY DEF Idle, ProcRow, Labels, Texts, EmptyDir, DirRow
<1>4. /\ \A j \in Job : job[j] = q /\ lock[j] = None /\ retained[j] = None /\ calls[j] = 0
      /\ \A k \in Attempt : att[k] = NoAttempt /\ dir[k] = EmptyDir
      /\ \A w \in Reader : proc[w] = Idle
      /\ \A w \in Worker : held[w] = None
  BY DEF RInit
<1> HIDE DEF q, NoAttempt, Idle, EmptyDir
<1>5. QTypeOK
  BY <1>1, <1>2, <1>4 DEF RInit, QTypeOK
<1>6. \A j \in Job : Of(att, j) = {}
  BY <1>2, <1>4, QueueAssumption DEF Of
<1>7. Consistent(job, att)
  <2>1. Rows(job, att)
    BY <1>5 DEF QTypeOK, Rows
  <2>2. JobOf(att) /\ Running(job, att)
    BY <1>1, <1>2, <1>4 DEF JobOf, Running
  <2>3. Budget(job, att)
    <3>1. 1..0 = {}
      OBVIOUS
    <3>2. IsFiniteSet({}) /\ Cardinality({}) = 0
      BY FS_EmptySet
    <3> QED
      BY <1>1, <1>4, <1>6, <3>1, <3>2 DEF Budget
  <2>4. Unstarted(job, att)
    BY <1>1, <1>4, <1>6 DEF Unstarted
  <2>5. OneAudit(job)
    BY ReaderAssumption DEF OneAudit
  <2> QED
    BY <2>1, <2>2, <2>3, <2>4, <2>5 DEF Consistent
<1>8. HeldIssued /\ TriedOnce
  BY <1>1, <1>4 DEF HeldIssued, TriedOnce
<1>9. ReaderTypes
  BY <1>3 DEF RInit, ReaderTypes
<1>10. (\A w \in Reader : ReaderKept(w)) /\ (\A j \in Job : CallKept(j))
  BY <1>3, <1>4 DEF ReaderKept, CallKept
<1> QED
  BY <1>5, <1>7, <1>8, <1>9, <1>10 DEF RInv, QInv

LEMMA ReaderNext == RInv /\ [RNext]_rvars => RInv'
<1> SUFFICES ASSUME RInv, [RNext]_rvars PROVE RInv'
  OBVIOUS
<1>1. ASSUME NEW w \in Reader, ReaderStep(w) PROVE RInv'
  BY <1>1, ReadRowStep, GateStep, ClaimStep, IntendStep, DispatchStep, ReturnStep, KeepResultStep,
     RaiseStep, TerminalStep, HoldUncertainStep, WriteReceiptStep, FinishRunStep, AdoptStep
     DEF ReaderStep
<1>2. ASSUME NEW w \in Reader, ReaderCrash(w) \/ \E j \in Job : Lock(w, j) PROVE RInv'
  BY <1>2, ReaderCrashStep, LockStep
<1> QED
  BY <1>1, <1>2, SurroundingsStep DEF RNext

LEMMA RInvAlways == RSpec => []RInv
BY ReaderInit, ReaderNext, PTL DEF RSpec

\* A provider call is made at most once for a reading and never denied, an
\* unknown one is settled only under the hold, and no reading is settled behind
\* the process that runs it: for any number of readers, crashes, recoveries,
\* lost leases and changes of the inputs.
THEOREM ReaderAccountsCalls == RSpec => []CallAccounted
<1>1. ASSUME RInv PROVE CallAccounted
  <2>1. RTypeOK
    BY <1>1 DEF RInv, ReaderTypes, RTypeOK, ProcRow, DirRow
  <2>2. AtMostOneCall /\ UnknownIsHeld
    BY <1>1 DEF RInv, CallKept, AtMostOneCall, UnknownIsHeld
  <2>3. NotSettledWhileRunning
    BY <1>1 DEF RInv, ReaderKept, NotSettledWhileRunning
  <2> QED
    BY <2>1, <2>2, <2>3 DEF CallAccounted
<1> QED
  BY <1>1, RInvAlways, PTL

\* The rows of the queue stay consistent under the readers too, whose
\* recoveries write them without asking for a lease.
THEOREM ReaderKeepsQueue == RSpec => [](RunningIsCurrent /\ BudgetKept)
<1>1. ASSUME RInv PROVE RunningIsCurrent /\ BudgetKept
  <2>1. Consistent(job, att)
    BY <1>1 DEF RInv, QInv
  <2>2. \A k \in Attempt : att[k].status = "running" => att[k].job \in Job
    BY <2>1 DEF Consistent, JobOf
  <2> QED
    BY <2>1, <2>2, QueueAssumption
       DEF Consistent, Running, RunningIsCurrent, Budget, BudgetKept, Of
<1> QED
  BY <1>1, RInvAlways, PTL
=============================================================================
