---------------------------- MODULE ComputeWorker ----------------------------
(***************************************************************************)
(* The durable dummy workers of scripts/sclib_compute/worker.py against    *)
(* the store: one process per node (worker.lock), which keeps its progress *)
(* in state.json and repeats one_cycle from that file after every          *)
(* transport error and after every restart of the process.                 *)
(*                                                                         *)
(* disk is state.json; pc is where a running process is in one_cycle.      *)
(* A call to the store runs its handler, and its answer may be lost.  A    *)
(* call the worker has given up on may still reach the store later (late), *)
(* at most MaxFaults times in all, crashes and lost answers included.      *)
(***************************************************************************)
EXTENDS ComputeStore

CONSTANTS MaxFaults

\* The empty fields of state.json are not the names of anything.
ASSUME WorkerAssumption ==
  /\ MaxFaults \in Nat
  /\ None \notin Request \cup Manifests \cup {"none", "unclaimed"}
  /\ "none" \notin Attempt

VARIABLES disk, pc, late, faults

wvars == <<disk, pc, late, faults>>
allvars == <<vars, disk, pc, late, faults>>

\* An empty state.json: no claim requested, nothing claimed, nothing to send.
Fresh == [req |-> None, claim |-> "none", outbox |-> None, done |-> FALSE]

WInit ==
  /\ Init
  /\ disk = [n \in Node |-> Fresh]
  /\ pc = [n \in Node |-> "off"]
  /\ late = {}
  /\ faults = 0

Token(a) == att[a].fence
Goto(n, label) == pc' = [pc EXCEPT ![n] = label]
Persist(n, state) == disk' = [disk EXCEPT ![n] = state]
-----------------------------------------------------------------------------
(* Calls.  A call is [node, op, about, arg]; Handled is what the store does. *)

\* attach_output: the rule is read first, then the blob is put, then the name is
\* attached.  An identical output is accepted again without a change.
UploadHandled(n, a, name, c) ==
  /\ Owned(n, a) /\ Allowed(a, name, c)
  /\ \/ PutBlob(c)
     \/ AttachOutput(n, a, name, Token(a), c)
     \/ arts[a][name] = c /\ UNCHANGED vars

HeartbeatHandled(n, a, phase) ==
  \E t1 \in Later(now) :
    \/ HeartbeatStop(n, a, Token(a), t1)
    \/ \E t2 \in Later(t1) : HeartbeatRenew(n, a, Token(a), phase, t1, t2)

CompleteHandled(n, a, manifest) ==
  \E t1 \in Later(now) :
    \/ CompleteReplay(n, a, Token(a), "ok", manifest, t1)
    \/ \E t2 \in Later(t1) : Complete(n, a, Token(a), "ok", manifest, t1, t2)

Handled(q) ==
  \/ q.op = "claim" /\ ClaimNext(q.node, q.about)
  \/ q.op = "heartbeat" /\ HeartbeatHandled(q.node, q.about, q.arg)
  \/ q.op = "upload" /\ \E name \in Name :
       q.arg[name] # None /\ UploadHandled(q.node, q.about, name, q.arg[name])
  \/ q.op = "complete" /\ CompleteHandled(q.node, q.about, q.arg)

\* The call a running worker is about to make, if it is one that changes the store.
Pending(n) ==
  LET d == disk[n]
      call(op, about, arg) == {[node |-> n, op |-> op, about |-> about, arg |-> arg]} IN
  CASE pc[n] = "claim" -> call("claim", d.req, None)
    [] pc[n] = "prepare" -> call("heartbeat", d.claim, "preparing")
    [] pc[n] \in {"resume", "run"} -> call("heartbeat", d.claim, "running")
    [] pc[n] = "announce" -> call("heartbeat", d.claim, "uploading")
    [] pc[n] = "upload" -> call("upload", d.claim, d.outbox)
    [] pc[n] = "complete" -> call("complete", d.claim, d.outbox)
    [] OTHER -> {}

\* The store has handled the call; its answer leads to label, or is lost.
Answered(n, label) ==
  /\ UNCHANGED <<disk, late>>
  /\ \/ Goto(n, label) /\ UNCHANGED faults
     \/ faults < MaxFaults /\ faults' = faults + 1 /\ Goto(n, "start")

\* The store refused: HTTPStatusError, one_cycle is tried again after a pause.
Refused(n) == UNCHANGED <<vars, disk, late, faults>> /\ Goto(n, "start")
-----------------------------------------------------------------------------
(* one_cycle, step by step. *)

Start(n) ==
  /\ pc[n] = "off"
  /\ Goto(n, "start") /\ UNCHANGED <<vars, disk, late, faults>>

RegisterNode(n) ==
  /\ pc[n] = "start"
  /\ \/ \E r \in Registrations : Register(n, r)
     \/ reg[n] # None /\ UNCHANGED vars
  /\ Answered(n, "load")

\* Faulty: a claim whose answer was lost is asked for under a new request id.
LoadNewRequest(n) ==
  /\ pc[n] = "load"
  /\ LET d == IF disk[n].done THEN Fresh ELSE disk[n] IN
     \/ /\ d.claim = "none"
        /\ \E r \in Request : /\ claims[n][r] = "unclaimed"
                              /\ Persist(n, [Fresh EXCEPT !.req = r])
        /\ Goto(n, "claim")
     \/ d.claim = None /\ Goto(n, "ack") /\ UNCHANGED disk
     \/ d.claim \in Attempt /\ d.outbox = None /\ Goto(n, "get") /\ UNCHANGED disk
     \/ d.outbox # None /\ Goto(n, "upload") /\ UNCHANGED disk
  /\ UNCHANGED <<vars, late, faults>>

\* Faulty: a restart throws the saved outbox away.
LoadDiscards(n) ==
  /\ pc[n] = "load"
  /\ LET d == IF disk[n].done THEN Fresh ELSE [disk[n] EXCEPT !.outbox = None] IN
     \/ /\ d.req = None
        /\ \E r \in Request : /\ claims[n][r] = "unclaimed"
                              /\ Persist(n, [Fresh EXCEPT !.req = r])
        /\ Goto(n, "claim")
     \/ d.req # None /\ d.claim = "none" /\ Goto(n, "claim") /\ Persist(n, d)
     \/ d.claim = None /\ Goto(n, "ack") /\ Persist(n, d)
     \/ d.claim \in Attempt /\ Goto(n, "get") /\ Persist(n, d)
  /\ UNCHANGED <<vars, late, faults>>

\* A request id is made durable before it is first used.
Load(n) ==
  /\ pc[n] = "load"
  /\ LET d == IF disk[n].done THEN Fresh ELSE disk[n] IN
     \/ /\ d.req = None
        /\ \E r \in Request : /\ claims[n][r] = "unclaimed"
                              /\ Persist(n, [Fresh EXCEPT !.req = r])
        /\ Goto(n, "claim")
     \/ d.req # None /\ d.claim = "none" /\ Goto(n, "claim") /\ UNCHANGED disk
     \/ d.claim = None /\ Goto(n, "ack") /\ UNCHANGED disk
     \/ d.claim \in Attempt /\ d.outbox = None /\ Goto(n, "get") /\ UNCHANGED disk
     \/ d.outbox # None /\ Goto(n, "upload") /\ UNCHANGED disk
  /\ UNCHANGED <<vars, late, faults>>

ClaimRefused(n, r, t1) ==
  LET J == Jobs(t1) IN
  /\ claims[n][r] = "unclaimed"
  /\ \/ ~MayClaim(n, r, J, Attempts, t1)
     \/ \E j \in Oldest(J, Claimable(n, J)) : reserved + Cost(J[j].spec) > CpuBudget

SendClaim(n) ==
  /\ pc[n] = "claim"
  /\ \/ ClaimNext(n, disk[n].req) /\ Answered(n, "persist")
     \/ \E t1 \in Later(now) : ClaimRefused(n, disk[n].req, t1) /\ Refused(n)

\* The answer to a request id never changes, so it is read here.
PersistClaim(n) ==
  /\ pc[n] = "persist"
  /\ Persist(n, [disk[n] EXCEPT !.claim = claims[n][disk[n].req]])
  /\ Goto(n, IF claims[n][disk[n].req] = None THEN "ack" ELSE "get")
  /\ UNCHANGED <<vars, late, faults>>

\* Faulty: does not notice that the attempt has ended.
ReadAttemptInsists(n) ==
  LET a == disk[n].claim IN
  /\ pc[n] = "get"
  /\ \E t1 \in Later(now) :
       GetAttempt(n, a, t1) /\ Answered(n, IF rcpt[a] # None THEN "ack" ELSE "prepare")

\* What GET /attempts answers decides whether the attempt is executed.
ReadAttempt(n) ==
  LET a == disk[n].claim IN
  /\ pc[n] = "get"
  /\ \E t1 \in Later(now) :
       /\ GetAttempt(n, a, t1)
       /\ Answered(n, IF rcpt[a] # None \/ Attempts[a].status \notin ActiveStates THEN "ack"
                      ELSE IF Attempts[a].status \in {"leased", "preparing"} THEN "prepare" ELSE "resume")

\* continue = false raises WorkerStopped, which ends the process.
Heartbeat(n, phase, label) ==
  LET a == disk[n].claim IN
  \E t1 \in Later(now) :
    \/ HeartbeatStop(n, a, Token(a), t1) /\ Answered(n, "off")
    \/ \E t2 \in Later(t1) : HeartbeatRenew(n, a, Token(a), phase, t1, t2) /\ Answered(n, label)
    \/ /\ Live(Jobs(t1), Attempts, a, Token(a), t1)
       /\ PhaseOrder[phase] < PhaseOrder[Attempts[a].status]
       /\ Refused(n)

\* The first heartbeat keeps the phase of an execution that is done again.
Prepare(n) ==
  \/ pc[n] = "prepare" /\ Heartbeat(n, "preparing", "download")
  \/ pc[n] = "resume" /\ Heartbeat(n, "running", "download")

\* The input is served only to a live attempt; nothing is changed.
Download(n) ==
  LET a == disk[n].claim
      live == Live(job, att, a, Token(a), now) IN
  /\ pc[n] = "download"
  /\ \/ live /\ UNCHANGED vars /\ Answered(n, "run")
     \/ ~live /\ Refused(n)

Run(n) == pc[n] = "run" /\ Heartbeat(n, "running", "ran")

RunAgain(n) == pc[n] = "ran" /\ Goto(n, "run") /\ UNCHANGED <<vars, disk, late, faults>>

\* The exact bytes, which differ from one execution to the next, are made
\* durable before the first upload.
SaveOutbox(n) ==
  LET s == job[att[disk[n].claim].job].spec IN
  /\ pc[n] = "ran"
  /\ \E m \in Manifests :
       /\ {name \in Name : m[name] # None} = s.outputs
       /\ Persist(n, [disk[n] EXCEPT !.outbox = m])
  /\ Goto(n, "announce")
  /\ UNCHANGED <<vars, late, faults>>

Announce(n) == pc[n] = "announce" /\ Heartbeat(n, "uploading", "upload")

\* output_too_large, artifact_too_large, artifact_budget_exceeded and
\* attempt_output_budget_exceeded: 413 or 507, the same at every resend, since
\* neither the rules nor the bytes change and no blob is ever deleted.
NoRoom(a, name, c) ==
  \/ Bytes[c] > job[att[a].job].spec.limit[name]
  \/ c \notin blobs /\ (Bytes[c] > MaxArtifact \/ Stored + Bytes[c] > MaxTotal)
  \/ /\ c \in blobs /\ arts[a][name] = None
     /\ Staging(a) + Bytes[c] > job[att[a].job].spec.budget

\* ... or immutable_artifact_changed, 409.
UploadRefused(a, name, c) ==
  NoRoom(a, name, c) \/ (c \in blobs /\ arts[a][name] \notin {None, c})

\* insufficient_disk, 507: it may meet any upload, a repeated one included.  The
\* disk belongs to the environment; it is a fault, which ends.
LowDisk(n) ==
  /\ faults < MaxFaults /\ faults' = faults + 1
  /\ Goto(n, "start")
  /\ UNCHANGED <<vars, disk, late>>

\* The blob of an output is a transaction of its own, before it is attached.
Upload(n) ==
  LET a == disk[n].claim
      out == disk[n].outbox
      missing == {name \in Name : arts[a][name] # out[name]} IN
  /\ pc[n] = "upload"
  /\ \/ missing = {} /\ UNCHANGED vars /\ Answered(n, "complete")
     \/ \E name \in missing : \/ UploadHandled(n, a, name, out[name]) /\ Answered(n, "upload")
                              \/ UploadRefused(a, name, out[name]) /\ Refused(n)
     \/ LowDisk(n)

SendComplete(n) ==
  /\ pc[n] = "complete"
  /\ CompleteHandled(n, disk[n].claim, disk[n].outbox)
  /\ Answered(n, "ack")

\* acknowledged or abandoned: the state is closed, and a new cycle may begin.
Close(n) ==
  /\ pc[n] = "ack"
  /\ Persist(n, [disk[n] EXCEPT !.done = TRUE])
  /\ Goto(n, "start")
  /\ UNCHANGED <<vars, late, faults>>

WorkerNext(n) ==
  \/ Start(n) \/ RegisterNode(n) \/ Load(n) \/ SendClaim(n) \/ PersistClaim(n) \/ ReadAttempt(n)
  \/ Prepare(n) \/ Download(n) \/ Run(n) \/ RunAgain(n) \/ SaveOutbox(n) \/ Announce(n)
  \/ Upload(n) \/ SendComplete(n) \/ Close(n)
-----------------------------------------------------------------------------
(* Faults. *)

Crash(n) ==
  /\ pc[n] # "off" /\ faults < MaxFaults
  /\ faults' = faults + 1
  /\ Goto(n, "off")
  /\ UNCHANGED <<vars, disk, late>>

\* The worker times out on a call that has not reached the store yet.
GiveUp(n) ==
  /\ Pending(n) # {} /\ faults < MaxFaults
  /\ faults' = faults + 1
  /\ late' = late \cup Pending(n)
  /\ Goto(n, "start")
  /\ UNCHANGED <<vars, disk>>

ArriveLate(q) ==
  /\ Handled(q)
  /\ late' = late \ {q}
  /\ UNCHANGED <<disk, pc, faults>>

WNext ==
  \/ (OperatorNext \/ Tick) /\ UNCHANGED wvars
  \/ \E n \in Node : WorkerNext(n) \/ Crash(n) \/ GiveUp(n)
  \/ \E q \in late : ArriveLate(q)

WSpec == WInit /\ [][WNext]_allvars

\* The serve loop keeps polling and is started again, time passes, and the
\* final step of an execution, whose loop is bounded, is reached.
WFairSpec ==
  /\ WSpec
  /\ WF_allvars(Tick /\ UNCHANGED wvars)
  /\ \A n \in Node : WF_allvars(WorkerNext(n)) /\ SF_allvars(SaveOutbox(n))
-----------------------------------------------------------------------------
(* Properties. *)

\* A worker never forgets work: an attempt that holds a lease is the answer to
\* the claim request in its node's state.json, whatever was lost or crashed.
NoForgottenLease ==
  \A a \in Attempt : Active(a) =>
    LET d == disk[att[a].node] IN
    d.req # None /\ ~d.done /\ claims[att[a].node][d.req] = a

\* The store never holds bytes of an open attempt that the worker could no
\* longer send: what is staged, and what was answered, is what the outbox says.
StagedIsOutbox ==
  \A n \in Node : LET d == disk[n] IN
    d.claim \in Attempt =>
      /\ \A name \in Name : arts[d.claim][name] # None =>
           d.outbox # None /\ d.outbox[name] = arts[d.claim][name]
      /\ rcpt[d.claim] # None => d.outbox # None /\ rcpt[d.claim].manifest = d.outbox

\* An output the store will never take: of the refusals of an upload only 401, 403
\* and 422 stop the worker, so it sends the saved outbox again for ever.
Unsendable(n) ==
  LET d == disk[n] IN
  /\ d.claim \in Attempt /\ d.outbox # None
  /\ \E name \in Name : /\ d.outbox[name] # arts[d.claim][name]
                        /\ NoRoom(d.claim, name, d.outbox[name])

\* A worker that holds a claim gets rid of it whatever is lost, late, crashed or
\* superseded, unless an output of its saved outbox breaks a limit of the store
\* (DummyWorker.one_cycle, main): then only an operator can end the cycle.
ClaimsAreClosed ==
  \A n \in Node : disk[n].claim \in Attempt /\ ~disk[n].done
                   ~> disk[n].done \/ Unsendable(n)
=============================================================================
