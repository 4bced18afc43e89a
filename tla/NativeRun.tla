----------------------------- MODULE NativeRun -----------------------------
(***************************************************************************)
(* The native worker (scripts/sclib_compute/native_worker.py), the guardian *)
(* it spawns for every attempt (native_supervisor.py) and the MPI solver   *)
(* tree the guardian runs: three processes that die independently and meet *)
(* in files of the attempt's directory.  state.json is disk; run[a] is all *)
(* there is of attempt a.                                                  *)
(*                                                                         *)
(* External: the store of the attempts, which ComputeStore models; here an *)
(* attempt is live, ended or answered, and its calls are answered or lost. *)
(* Preparation before execution_started may be repeated at will and is one *)
(* step.  The four files of the outbox are one, execution.json, whose      *)
(* bytes depend on when they are made (Elapsed).                           *)
(***************************************************************************)
EXTENDS Naturals

CONSTANTS
  MaxAttempt,   \* bound on the attempts claimed, for model checking
  Elapsed,      \* elapsed_seconds an execution record may hold
  MaxFaults     \* bound on kills, errors and lost answers, for model checking

ASSUME RunAssumption == {MaxAttempt, MaxFaults} \subseteq Nat /\ Elapsed # {} /\ 0 \notin Elapsed

VARIABLES disk, pc, run, faults

nvars == <<disk, pc, run, faults>>

Attempt == 1..MaxAttempt
NoClaim == [attempt |-> 0, started |-> FALSE, outbox |-> FALSE, done |-> TRUE]
NoRun ==
  [store |-> "live", refused |-> FALSE,    \* of the attempt, external; its upload
   guard |-> "none", reason |-> "completed", pipe |-> FALSE, due |-> {},
   solver |-> "none", launches |-> 0,
   process |-> FALSE, result |-> "none",   \* process.json, solver-result.json
   final |-> 0,                            \* execution-final.json
   made |-> FALSE, bytes |-> 0]            \* return/execution.json

NInit ==
  /\ disk = NoClaim /\ pc = "idle" /\ run = [a \in Attempt |-> NoRun] /\ faults = 0

Now == disk.attempt
Mine == run[Now]
Dead(a) == run[a].guard \in {"none", "dead"}
Running(a) == run[a].solver \in {"running", "orphans"}
Killed(solver) == IF solver \in {"running", "orphans"} THEN "killed" ELSE solver

Goto(label) == pc' = label /\ UNCHANGED faults
Update(a, r) == run' = [run EXCEPT ![a] = r]
Fault == faults < MaxFaults /\ faults' = faults + 1
-----------------------------------------------------------------------------
(* The worker: one_cycle. *)

\* The state of a closed claim is dropped and the next attempt claimed.
Claim ==
  /\ pc = "idle" /\ disk.done
  /\ disk' = IF Now < MaxAttempt THEN [NoClaim EXCEPT !.attempt = Now + 1, !.done = FALSE] ELSE disk
  /\ UNCHANGED <<pc, run, faults>>

\* A started attempt is only ever archived; without a result it waits for
\* one, ten seconds in each cycle.
Resume ==
  /\ pc = "idle" /\ ~disk.done /\ ~disk.outbox /\ disk.started
  /\ IF Mine.result # "none" THEN Goto("freeze") ELSE UNCHANGED <<pc, faults>>
  /\ UNCHANGED <<disk, run>>

\* An attempt that is no longer live is abandoned; otherwise its inputs are
\* staged and execution_started is made durable.
Prepare ==
  /\ pc = "idle" /\ ~disk.done /\ ~disk.outbox /\ ~disk.started
  /\ IF Mine.store = "live" THEN disk' = [disk EXCEPT !.started = TRUE] /\ Goto("start")
                            ELSE disk' = [disk EXCEPT !.done = TRUE] /\ UNCHANGED <<pc, faults>>
  /\ UNCHANGED run

\* run_guardian: the first running heartbeat, lease.json, and the process.
StartGuardian ==
  /\ pc = "start" /\ Mine.store = "live"
  /\ Update(Now, [Mine EXCEPT !.guard = "check", !.pipe = TRUE])
  /\ Goto("watch") /\ UNCHANGED disk

\* A heartbeat while the guardian runs renews lease.json.
Beat ==
  /\ pc = "watch" /\ ~Dead(Now) /\ Mine.store = "live" /\ "lease" \in Mine.due
  /\ Update(Now, [Mine EXCEPT !.due = @ \ {"lease"}])
  /\ UNCHANGED <<disk, pc, faults>>

\* A heartbeat is refused, fails, or the worker is told to stop.
StopRunning ==
  /\ pc \in {"start", "watch"} /\ ((Mine.store # "live" /\ UNCHANGED faults) \/ Fault)
  /\ pc' = "close" /\ UNCHANGED <<disk, run>>

SeeGuardianEnd == pc = "watch" /\ Dead(Now) /\ Goto("close") /\ UNCHANGED <<disk, run>>

\* Closing the pipe is the end of file that stops the guardian.
ClosePipe ==
  /\ pc = "close" /\ Update(Now, [Mine EXCEPT !.pipe = FALSE])
  /\ Goto("wait") /\ UNCHANGED disk

\* wait, terminate, wait, kill: the guardian is gone in the end.
KillGuardian ==
  /\ pc = "wait" /\ ~Dead(Now) /\ Update(Now, [Mine EXCEPT !.guard = "dead"])
  /\ UNCHANGED <<disk, pc, faults>>

GuardianGone ==
  /\ pc = "wait" /\ Dead(Now)
  /\ IF Mine.result = "none" THEN Goto("reap") ELSE Goto("freeze")
  /\ UNCHANGED <<disk, run>>

\* The guardian left no result: the process it recorded is killed.
Reap ==
  /\ pc = "reap"
  /\ Update(Now, IF Mine.process THEN [Mine EXCEPT !.solver = Killed(@)] ELSE Mine)
  /\ Goto("record") /\ UNCHANGED disk

\* kill_tree could not verify the cleanup: the cycle ends without a result.
ReapFails ==
  /\ pc = "reap" /\ Mine.process /\ Fault
  /\ pc' = "idle" /\ UNCHANGED <<disk, run>>

Record ==
  /\ pc = "record" /\ Update(Now, [Mine EXCEPT !.result = "stopped"])
  /\ Goto("freeze") /\ UNCHANGED disk

\* Faulty: every preparation of the outbox makes a new record.
FreezeAnew(e) ==
  /\ pc = "freeze" /\ Update(Now, [Mine EXCEPT !.final = e])
  /\ Goto("write") /\ UNCHANGED disk

\* prepare_outbox: the first execution record is the one that stays.
Freeze(e) ==
  /\ pc = "freeze"
  /\ Update(Now, IF Mine.final = 0 THEN [Mine EXCEPT !.final = e] ELSE Mine)
  /\ Goto("write") /\ UNCHANGED disk

\* write_once: the file is created under its own name, then filled.
CreateReturn ==
  /\ pc = "write" /\ ~Mine.made
  /\ Update(Now, [Mine EXCEPT !.made = TRUE])
  /\ Goto("fill") /\ UNCHANGED disk

FillReturn ==
  /\ pc = "fill" /\ Update(Now, [Mine EXCEPT !.bytes = Mine.final])
  /\ Goto("outbox") /\ UNCHANGED disk

\* A file that exists must hold these bytes, or the worker stops.
FindReturn ==
  /\ pc = "write" /\ Mine.made
  /\ IF Mine.bytes = Mine.final THEN Goto("outbox") ELSE Goto("idle")
  /\ UNCHANGED <<disk, run>>

SaveOutbox ==
  /\ pc = "outbox" /\ disk' = [disk EXCEPT !.outbox = TRUE]
  /\ Goto("idle") /\ UNCHANGED run

\* upload: the outputs and the completion.  What the store takes ends in a
\* receipt, accepted or quarantined, unless the answer is lost.
Send ==
  /\ pc = "idle" /\ ~disk.done /\ disk.outbox /\ ~Mine.refused
  /\ Update(Now, [Mine EXCEPT !.store = "answered"])
  /\ (Goto("ack") \/ (Fault /\ UNCHANGED pc))
  /\ UNCHANGED disk

\* An output is refused: the store has no room (507; the worker sends it
\* again, with backoff, for ever) or no longer admits the worker (401, 403,
\* 422; the worker stops).  Nothing changes until an operator acts.
SendRefused ==
  /\ pc = "idle" /\ ~disk.done /\ disk.outbox /\ Mine.store # "answered"
  /\ Update(Now, [Mine EXCEPT !.refused = TRUE])
  /\ UNCHANGED <<disk, pc, faults>>

Acknowledge ==
  /\ pc = "ack" /\ disk' = [disk EXCEPT !.done = TRUE]
  /\ Goto("idle") /\ UNCHANGED run
-----------------------------------------------------------------------------
(* The guardian of attempt a: supervise. *)

GuardStep(a, from, r) == run[a].guard = from /\ Update(a, r) /\ UNCHANGED <<disk, pc, faults>>

\* Launched while the worker's end of the pipe is open.
Launch(a) ==
  /\ run[a].pipe
  /\ GuardStep(a, "check", [run[a] EXCEPT !.solver = "running", !.launches = @ + 1,
                                          !.guard = "launched"])

\* The pipe is closed already, or memory is short.
Decline(a) == GuardStep(a, "check", [run[a] EXCEPT !.reason = "stopped", !.guard = "report"])

RecordProcess(a) == GuardStep(a, "launched", [run[a] EXCEPT !.process = TRUE, !.guard = "watch"])

\* Faulty: lease.json is not read.
MustStopPipeOnly(a) == ~run[a].pipe \/ run[a].due \ {"lease"} # {}

\* One sample: the pipe, the wall limit, lease.json and the resource limits.
MustStop(a) == ~run[a].pipe \/ run[a].due # {}

\* Faulty: the reason keeps its first value.
StopReasonKept(a) == run[a].reason

StopReason(a) == "stopped"

Stop(a) ==
  /\ MustStop(a)
  /\ GuardStep(a, "watch", [run[a] EXCEPT !.reason = StopReason(a), !.guard = "kill"])

\* The launcher has exited; ranks it left behind are killed.
SeeExit(a) ==
  /\ ~MustStop(a)
  /\ \/ run[a].solver = "exited" /\ GuardStep(a, "watch", [run[a] EXCEPT !.guard = "report"])
     \/ run[a].solver = "orphans"
        /\ GuardStep(a, "watch", [run[a] EXCEPT !.reason = "stopped", !.guard = "kill"])

KillTree(a) ==
  GuardStep(a, "kill", [run[a] EXCEPT !.solver = Killed(@), !.guard = "report"])

Report(a) ==
  GuardStep(a, "report", [run[a] EXCEPT !.result = run[a].reason, !.guard = "dead"])

\* An exception in the guardian: the tree is killed on the way out.
GuardError(a) ==
  /\ run[a].guard \in {"launched", "watch"} /\ Fault
  /\ Update(a, [run[a] EXCEPT !.reason = "stopped", !.guard = "kill"])
  /\ UNCHANGED <<disk, pc>>

\* kill_tree fails twice: the guardian ends without a result.
KillTreeFails(a) ==
  /\ run[a].guard = "kill" /\ Fault
  /\ \E s \in {run[a].solver, Killed(run[a].solver)} :
       Update(a, [run[a] EXCEPT !.solver = s, !.guard = "dead"])
  /\ UNCHANGED <<disk, pc>>
-----------------------------------------------------------------------------
(* External: the solver, the clock, the store, and processes that die. *)

Environment(a, r) == Update(a, r) /\ UNCHANGED <<disk, pc, faults>>

SolverExits(a) ==
  \/ Running(a) /\ Environment(a, [run[a] EXCEPT !.solver = "exited"])
  \/ run[a].solver = "running" /\ Environment(a, [run[a] EXCEPT !.solver = "orphans"])

\* The store's lease expires, or an operator cancels.
StoreEnds(a) ==
  /\ a = Now /\ run[a].store = "live"
  /\ Environment(a, [run[a] EXCEPT !.store = "ended"])

\* The time in lease.json has passed.
LeaseDue(a) ==
  /\ ~Dead(a) /\ "lease" \notin run[a].due
  /\ Environment(a, [run[a] EXCEPT !.due = @ \cup {"lease"}])

\* The wall limit is reached.
WallEnds(a) ==
  /\ ~Dead(a) /\ "wall" \notin run[a].due
  /\ Environment(a, [run[a] EXCEPT !.due = @ \cup {"wall"}])

\* An operator makes room, or restores the worker's authority.
OperatorActs(a) == run[a].refused /\ Environment(a, [run[a] EXCEPT !.refused = FALSE])

WorkerDies ==
  /\ pc # "idle" /\ Fault /\ pc' = "idle"
  /\ Update(Now, [Mine EXCEPT !.pipe = FALSE]) /\ UNCHANGED disk

GuardianDies(a) ==
  /\ ~Dead(a) /\ Fault
  /\ Update(a, [run[a] EXCEPT !.guard = "dead"]) /\ UNCHANGED <<disk, pc>>
-----------------------------------------------------------------------------
WorkerStep ==
  \/ Claim \/ Resume \/ Prepare \/ StartGuardian \/ StopRunning \/ SeeGuardianEnd
  \/ ClosePipe \/ KillGuardian \/ GuardianGone \/ Reap \/ Record
  \/ \E e \in Elapsed : Freeze(e)
  \/ CreateReturn \/ FillReturn \/ FindReturn \/ SaveOutbox \/ Send \/ SendRefused \/ Acknowledge

GuardianStep(a) ==
  Launch(a) \/ Decline(a) \/ RecordProcess(a) \/ Stop(a) \/ SeeExit(a) \/ KillTree(a) \/ Report(a)

NNext ==
  \/ WorkerStep \/ Beat \/ ReapFails \/ WorkerDies
  \/ \E a \in Attempt :
       \/ GuardianStep(a) \/ GuardError(a) \/ KillTreeFails(a)
       \/ SolverExits(a) \/ StoreEnds(a) \/ LeaseDue(a) \/ WallEnds(a) \/ GuardianDies(a)
       \/ OperatorActs(a)

NSpec == NInit /\ [][NNext]_nvars
-----------------------------------------------------------------------------
(* A solver is launched at most once for an attempt, whichever process     *)
(* dies when.                                                              *)
LaunchedOnce == \A a \in Attempt : run[a].launches <= 1

(* When an attempt has a result, what its guardian recorded as running has *)
(* stopped: the worker neither archives a running solver nor claims the    *)
(* next job beside it.                                                     *)
RecordedIsStopped == \A a \in Attempt : run[a].result # "none" /\ run[a].process => ~Running(a)

(* Only a solver that ended by itself is archived as completed: every kill *)
(* and every disagreement on who ended it leaves an interruption.          *)
HonestResult == \A a \in Attempt : run[a].result = "completed" => run[a].solver = "exited"

(* What the files of an attempt say happened to its solver did happen,     *)
(* whichever of the three processes died.                                  *)
RunRecorded == LaunchedOnce /\ RecordedIsStopped /\ HonestResult

\* Worker and guardian are both gone without a result: for the operator.
Unverified(a) == disk.started /\ run[a].result = "none" /\ Dead(a) /\ pc = "idle"
Torn(a) == run[a].made /\ run[a].bytes = 0 /\ pc # "fill"

(* Every claim is closed: whatever dies while it runs, an attempt is       *)
(* acknowledged or abandoned, but for three cases that wait for an         *)
(* operator: worker and guardian are gone without a result (Unverified); a *)
(* crash between the creation and the filling of an outbox file left half  *)
(* a file, which every later cycle refuses (Torn); or the store refuses    *)
(* the upload, which is sent again and again.  After the operator acts the *)
(* claim is closed, or its upload is refused again.                        *)
ClaimCloses ==
  \A a \in Attempt :
    Now = a ~> Now # a \/ disk.done \/ Unverified(a) \/ Torn(a) \/ run[a].refused

(* A solver does not outlive the lease in lease.json, even when the worker *)
(* hangs in a heartbeat: its guardian stops it, or it is renewed, or the   *)
(* guardian was killed.                                                    *)
EndsWithLease ==
  \A a \in Attempt :
    Running(a) /\ "lease" \in run[a].due ~> ~Running(a) \/ "lease" \notin run[a].due \/ Dead(a)
=============================================================================
