--------------------------- MODULE ComputeWorkerProofs ---------------------------
(***************************************************************************)
(* What the dummy workers guarantee for any number of nodes, jobs and      *)
(* requests, any number of crashes, lost answers and late calls.           *)
(*                                                                         *)
(* A worker and the store share nothing but calls: a step changes the      *)
(* store or one state.json, never both.  So the invariant says what each   *)
(* side may rely on meanwhile: what state.json says of the claims table    *)
(* (DiskKept), what a running process has read from it (PcKept), and what  *)
(* a call that is still under way can do when it arrives (LateKept).       *)
(***************************************************************************)
EXTENDS ComputeWorker, ComputeStoreProofs

\* A job without an outbox is executed, one with an outbox is sent.
Executing == {"get", "prepare", "resume", "download", "run", "ran"}
Sending == {"announce", "upload", "complete"}
Labels == {"off", "start", "load", "claim", "persist", "ack"} \cup Executing \cup Sending

DiskRow == [req : Request \cup {None}, claim : Attempt \cup {None, "none"},
            outbox : Manifests \cup {None}, done : BOOLEAN]
Calls ==
  [node : Node, op : {"claim"}, about : Request, arg : {None}]
  \cup [node : Node, op : {"heartbeat"}, about : Attempt, arg : {"preparing", "running", "uploading"}]
  \cup [node : Node, op : {"upload", "complete"}, about : Attempt, arg : Manifests]

WTypes ==
  /\ disk \in [Node -> DiskRow]
  /\ pc \in [Node -> Labels]
  /\ late \subseteq Calls

\* The attempt a state.json is about, also before the answer to its claim is saved.
About(n, a) == disk[n].req # None /\ claims[n][disk[n].req] = a

\* A saved claim is the answer to the saved request, a closed one has ended, and
\* only a claimed attempt has an outbox.
DiskKept(n) ==
  /\ disk[n].claim # "none" => About(n, disk[n].claim)
  /\ disk[n].done => /\ disk[n].claim # "none"
                     /\ disk[n].claim \in Attempt => ~Active(disk[n].claim)
  /\ disk[n].outbox # None => disk[n].claim \in Attempt

\* What a process that has come to a label of one_cycle knows of its state.json.
PcKept(n, label) ==
  /\ label \in {"claim", "persist"} =>
       ~disk[n].done /\ disk[n].req # None /\ disk[n].claim = "none"
  /\ label = "persist" => claims[n][disk[n].req] # "unclaimed"
  /\ label \in Executing => ~disk[n].done /\ disk[n].claim \in Attempt /\ disk[n].outbox = None
  /\ label \in Sending => ~disk[n].done /\ disk[n].claim \in Attempt /\ disk[n].outbox # None
  /\ label = "ack" => /\ disk[n].claim # "none"
                      /\ disk[n].claim \in Attempt => ~Active(disk[n].claim)

\* A call under way that can still claim is for the request of the state.json, and
\* one that can still stage anything sends the bytes of its outbox.
LateKept(q) ==
  /\ q.op = "claim" /\ claims[q.node][q.about] = "unclaimed" =>
       disk[q.node].req = q.about /\ ~disk[q.node].done
  /\ q.op \in {"upload", "complete"} =>
       /\ att[q.about].status # "absent"
       /\ About(q.node, q.about) => disk[q.node].outbox = q.arg

\* StagedIsOutbox, of the attempt a state.json is about.
Staged(n, a) ==
  /\ \A name \in Name : arts[a][name] # None =>
       disk[n].outbox # None /\ disk[n].outbox[name] = arts[a][name]
  /\ rcpt[a] # None => disk[n].outbox # None /\ rcpt[a].manifest = disk[n].outbox

\* Nothing is staged for an attempt that was not issued, and fences begin at one.
Untouched ==
  \A a \in Attempt : IF att[a].status = "absent" THEN arts[a] = NoManifest ELSE att[a].fence # 0

\* What the store and the files say of each other.
Agreed ==
  /\ Untouched
  /\ NoForgottenLease
  /\ \A n \in Node : DiskKept(n)
  /\ \A n \in Node, a \in Attempt : About(n, a) => Staged(n, a)

WInv ==
  /\ LInv /\ WTypes /\ Agreed
  /\ \A n \in Node : PcKept(n, pc[n])
  /\ \A q \in late : LateKept(q)
-----------------------------------------------------------------------------
(* What a call does to the tables a worker depends on. *)

\* No operation moves an attempt to another node, forgets it or activates it again.
Carried(x) ==
  /\ att'[x].node = att[x].node /\ att'[x].fence = att[x].fence
  /\ att'[x].status = "absent" <=> att[x].status = "absent"
  /\ att'[x].status \in ActiveStates => att[x].status \in ActiveStates

\* A step that neither answers a request nor stages anything.
Calm == UNCHANGED <<claims, arts, rcpt>> /\ \A x \in Attempt : Carried(x)

\* The request r of node n is answered with v, a new attempt or none.
Records(n, r, v) ==
  /\ claims[n][r] = "unclaimed" /\ claims' = [claims EXCEPT ![n][r] = v]
  /\ v \in Attempt => /\ att[v].status = "absent"
                      /\ att'[v].status # "absent" /\ att'[v].node = n /\ att'[v].fence # 0
  /\ \A x \in Attempt : x # v => Carried(x)
  /\ UNCHANGED <<arts, rcpt>>

\* Node n stages or completes its attempt a, with outputs of m only.
Stages(n, a, m) ==
  /\ att[a].status # "absent" /\ att[a].node = n
  /\ \A x \in Attempt : x # a => arts'[x] = arts[x] /\ rcpt'[x] = rcpt[x]
  /\ \A name \in Name : arts'[a][name] \in {arts[a][name], m[name]}
  /\ rcpt'[a] = rcpt[a] \/ rcpt'[a].manifest = m
  /\ UNCHANGED claims /\ \A x \in Attempt : Carried(x)

\* A step that hands nothing out carries every attempt over.
LEMMA QuietCarried ==
  ASSUME Quiet, NEW x \in Attempt
  PROVE  Carried(x)
BY DEF Quiet, HandsNothingOut, AttemptKept, Carried

\* So does a transaction that only reconciles, and a step that leaves the table alone.
LEMMA ReconciledCarried ==
  ASSUME IInv, NEW x \in Attempt, (\E t1 \in Later(now) : att' = Attempts) \/ att' = att
  PROVE  Carried(x)
<1>1. CASE \E t1 \in Later(now) : att' = Attempts
  BY <1>1, TransactionKept DEF HandsNothingOut, AttemptKept, Carried
<1>2. CASE att' = att
  BY <1>2 DEF Carried
<1> QED
  BY <1>1, <1>2

\* Steps of the operator and of the clock are calm.
LEMMA OperatorCalm ==
  ASSUME IInv, OperatorNext \/ Tick \/ UNCHANGED vars
  PROVE  Calm
<1>1. UNCHANGED <<claims, arts, rcpt>>
  BY DEF OperatorNext, Tick, vars, PutBlob, Enqueue, Cancel, Drain, Reconcile, OnlyReconciled
<1>2. ASSUME NEW n \in Node, NEW r \in Request, NEW j \in Job, NEW a \in Attempt,
             NEW t1, NEW t2, ClaimJob(n, r, j, a, t1, t2)
      PROVE  FALSE
  <2>1. claims[n][r] = "unclaimed" /\ claims' = [claims EXCEPT ![n][r] = a]
    BY <1>2 DEF ClaimJob, MayClaim
  <2>2. claims'[n][r] = a
    BY <2>1 DEF IInv, TypeOK
  <2> QED
    BY <1>1, <2>1, <2>2, StoreAssumption
<1>3. Quiet
  BY <1>2, StepCases DEF Next, ClaimStep
<1> QED
  BY <1>1, <1>3, QuietCarried DEF Calm

\* So are reading an attempt and a heartbeat.
LEMMA HeartbeatCalm ==
  ASSUME IInv, NEW n \in Node, NEW a \in Attempt, NEW phase \in ActiveStates,
         NEW t1 \in Later(now),
         \/ GetAttempt(n, a, t1) \/ HeartbeatStop(n, a, Token(a), t1)
         \/ \E t2 \in Later(t1) : HeartbeatRenew(n, a, Token(a), phase, t1, t2)
  PROVE  Calm
<1>1. CASE GetAttempt(n, a, t1) \/ HeartbeatStop(n, a, Token(a), t1)
  BY <1>1, ReconciledCarried DEF GetAttempt, HeartbeatStop, OnlyReconciled, Calm
<1>2. ASSUME NEW t2 \in Later(t1), HeartbeatRenew(n, a, Token(a), phase, t1, t2) PROVE Calm
  <2>1. Token(a) \in Nat
    BY DEF Token, IInv, TypeOK, AttemptRow
  <2>2. Quiet
    BY <1>2, <2>1, HeartbeatRenewQuiet
  <2> QED
    BY <1>2, <2>2, QuietCarried DEF HeartbeatRenew, Calm
<1> QED
  BY <1>1, <1>2

\* A claim answers the request, or it was answered before.
LEMMA ClaimRecords ==
  ASSUME IInv, NEW n \in Node, NEW r \in Request, ClaimNext(n, r)
  PROVE  \/ Calm /\ claims[n][r] # "unclaimed"
         \/ \E v \in Attempt \cup {None} : Records(n, r, v)
<1> PICK t1 \in Later(now) :
      \/ ClaimReplay(n, r, t1)
      \/ ClaimNothing(n, r, t1)
      \/ \E j \in Job, a \in Attempt, t2 \in Later(t1) : ClaimJob(n, r, j, a, t1, t2)
  BY DEF ClaimNext
<1>1. CASE ClaimReplay(n, r, t1)
  BY <1>1, ReconciledCarried DEF ClaimReplay, OnlyReconciled, Calm
<1>2. CASE ClaimNothing(n, r, t1)
  <2>1. \A x \in Attempt : Carried(x)
    BY <1>2, ReconciledCarried DEF ClaimNothing
  <2> QED
    BY <1>2, <2>1, StoreAssumption DEF ClaimNothing, MayClaim, Records
<1>3. ASSUME NEW j \in Job, NEW a \in Attempt, NEW t2 \in Later(t1), ClaimJob(n, r, j, a, t1, t2)
      PROVE  Records(n, r, a)
  <2>1. /\ att[a].status = "absent" /\ att'[a].status = "leased" /\ att'[a].node = n
        /\ att'[a].fence = Jobs(t1)[j].fence + 1 /\ Rows(Jobs(t1), Attempts)
        /\ HandsNothingOut(job, att, rcpt, now, Jobs(t1), Attempts, t1)
        /\ \A x \in Attempt : x # a => att'[x] = Attempts[x]
    BY <1>3, ClaimEffect
  <2>2. Jobs(t1)[j].fence + 1 # 0
    BY <2>1 DEF Rows, JobRow
  <2>3. \A x \in Attempt : x # a => Carried(x)
    BY <2>1 DEF HandsNothingOut, AttemptKept, Carried
  <2>4. /\ claims[n][r] = "unclaimed" /\ claims' = [claims EXCEPT ![n][r] = a]
        /\ UNCHANGED <<arts, rcpt>>
    BY <1>3 DEF ClaimJob, MayClaim
  <2> QED
    BY <2>1, <2>2, <2>3, <2>4 DEF Records
<1> QED
  BY <1>1, <1>2, <1>3

\* An upload stages one name, or only its blob.
LEMMA UploadStages ==
  ASSUME IInv, NEW n \in Node, NEW a \in Attempt, NEW m \in Manifests, NEW name \in Name,
         UploadHandled(n, a, name, m[name])
  PROVE  Calm \/ Stages(n, a, m)
<1>1. CASE PutBlob(m[name])
  BY <1>1, ReconciledCarried DEF PutBlob, Calm
<1>2. CASE UNCHANGED vars
  BY <1>2, ReconciledCarried DEF vars, Calm
<1>3. CASE AttachOutput(n, a, name, Token(a), m[name])
  <2>1. /\ att[a].status # "absent" /\ att[a].node = n
        /\ arts' = [arts EXCEPT ![a][name] = m[name]]
        /\ UNCHANGED <<att, claims, rcpt>>
    BY <1>3 DEF AttachOutput, Owned
  <2>2. \A x \in Attempt : Carried(x)
    BY <2>1, ReconciledCarried
  <2>3. /\ \A x \in Attempt : x # a => arts'[x] = arts[x]
        /\ \A k \in Name : arts'[a][k] \in {arts[a][k], m[k]}
    BY <2>1 DEF IInv, TypeOK, Manifests
  <2> QED
    BY <2>1, <2>2, <2>3 DEF Stages
<1> QED
  BY <1>1, <1>2, <1>3 DEF UploadHandled

\* A completion answers for the manifest it was sent with, and afterwards the attempt
\* is not active.
LEMMA CompleteStages ==
  ASSUME IInv, NEW n \in Node, NEW a \in Attempt, NEW m \in Manifests, CompleteHandled(n, a, m)
  PROVE  (Calm \/ Stages(n, a, m)) /\ rcpt'[a] # None
<1> PICK t1 \in Later(now) :
      \/ CompleteReplay(n, a, Token(a), "ok", m, t1)
      \/ \E t2 \in Later(t1) : Complete(n, a, Token(a), "ok", m, t1, t2)
  BY DEF CompleteHandled
<1>1. CASE CompleteReplay(n, a, Token(a), "ok", m, t1)
  BY <1>1, ReconciledCarried DEF CompleteReplay, OnlyReconciled, Calm
<1>2. ASSUME NEW t2 \in Later(t1), Complete(n, a, Token(a), "ok", m, t1, t2)
      PROVE  Stages(n, a, m) /\ rcpt'[a] # None
  <2>1. Token(a) \in Nat /\ "ok" \in Verdicts
    BY DEF Token, IInv, TypeOK, AttemptRow, Verdicts
  <2>2. Quiet
    BY <1>2, <2>1, CompleteQuiet
  <2>3. PICK st \in {"returned", "quarantined"}, why \in {"none", "stale", "mismatch", "overrun"} :
          rcpt' = [rcpt EXCEPT ![a] = [status |-> st, reason |-> why, verdict |-> "ok", manifest |-> m]]
    BY <1>2 DEF Complete, Reason
  <2>4. [status |-> st, reason |-> why, verdict |-> "ok", manifest |-> m] \in Receipts
    BY <2>1 DEF Receipts
  <2>5. /\ rcpt'[a] = [status |-> st, reason |-> why, verdict |-> "ok", manifest |-> m]
        /\ \A x \in Attempt : x # a => rcpt'[x] = rcpt[x]
    BY <2>3 DEF IInv, TypeOK
  <2>6. att[a].status # "absent" /\ att[a].node = n /\ UNCHANGED <<arts, claims>>
    BY <1>2 DEF Complete, Owned
  <2>7. rcpt'[a] # None /\ rcpt'[a].manifest = m
    BY <2>4, <2>5, StoreAssumption
  <2> QED
    BY <2>2, <2>5, <2>6, <2>7, QuietCarried DEF Stages
<1> QED
  BY <1>1, <1>2
-----------------------------------------------------------------------------
(* A step of the store, whoever takes it, keeps what the files say of it. *)

\* A worker claims for the request of its state.json, and what it sends of the
\* attempt that file is about is the outbox.
OwnStep ==
  \/ Calm
  \/ \E n \in Node, v \in Attempt \cup {None} :
       Records(n, disk[n].req, v) /\ disk[n].req \in Request /\ ~disk[n].done
  \/ \E n \in Node, a \in Attempt, m \in Manifests :
       Stages(n, a, m) /\ (About(n, a) => disk[n].outbox = m)

\* The table of claims names each attempt for its own node only.
LEMMA ClaimOwner ==
  ASSUME LInv, NEW n \in Node, NEW r \in Request, NEW a \in Attempt, claims[n][r] = a
  PROVE  att[a].status # "absent" /\ att[a].node = n
<1>1. att[a].status # "absent" /\ att[a].node \in Node
  BY DEF LInv, Ledger, Issued
<1>2. PICK s \in Request : claims[att[a].node][s] = a
  BY <1>1 DEF LInv, Ledger, ClaimOfAttempt
<1>3. <<n, r>> = <<att[a].node, s>>
  <2>1. \A c, d \in Node \X Request : claims[c[1]][c[2]] = a /\ claims[d[1]][d[2]] = a => c = d
    BY <1>1 DEF LInv, Ledger, ClaimOfAttempt
  <2>2. <<n, r>> \in Node \X Request /\ <<att[a].node, s>> \in Node \X Request
    BY <1>1
  <2> QED
    BY <1>2, <2>1, <2>2
<1> QED
  BY <1>1, <1>3

\* What was answered and staged stays, and what is new is a worker's own.
LEMMA OwnEffects ==
  ASSUME WInv, OwnStep
  PROVE  /\ \A n \in Node, r \in Request :
              \/ claims'[n][r] = claims[n][r]
              \/ /\ claims[n][r] = "unclaimed" /\ disk[n].req = r /\ ~disk[n].done
                 /\ claims'[n][r] # "unclaimed"
                 /\ claims'[n][r] \in Attempt => att[claims'[n][r]].status = "absent"
         /\ \A a \in Attempt : att[a].status # "absent" => Carried(a)
         /\ \A a \in Attempt : Carried(a)
              \/ /\ att'[a].fence # 0 /\ att'[a].node \in Node
                 /\ att'[a].status # "absent"
                 /\ disk[att'[a].node].req \in Request /\ ~disk[att'[a].node].done
                 /\ claims'[att'[a].node][disk[att'[a].node].req] = a
         /\ \A a \in Attempt :
              \/ arts'[a] = arts[a] /\ rcpt'[a] = rcpt[a]
              \/ \E n \in Node, m \in Manifests :
                   /\ att[a].status # "absent" /\ att[a].node = n
                   /\ About(n, a) => disk[n].outbox = m
                   /\ \A name \in Name : arts'[a][name] \in {arts[a][name], m[name]}
                   /\ rcpt'[a] = rcpt[a] \/ rcpt'[a].manifest = m
<1>1. CASE Calm
  BY <1>1 DEF Calm
<1>2. ASSUME NEW n \in Node, NEW v \in Attempt \cup {None}, Records(n, disk[n].req, v),
             disk[n].req \in Request, ~disk[n].done
      PROVE  /\ \A k \in Node, r \in Request :
                  \/ claims'[k][r] = claims[k][r]
                  \/ /\ claims[k][r] = "unclaimed" /\ disk[k].req = r /\ ~disk[k].done
                     /\ claims'[k][r] = v
             /\ claims'[n][disk[n].req] = v
  BY <1>2 DEF Records, WInv, LInv, OInv, IInv, TypeOK
<1>3. CASE \E n \in Node, v \in Attempt \cup {None} :
             Records(n, disk[n].req, v) /\ disk[n].req \in Request /\ ~disk[n].done
  <2> PICK n \in Node, v \in Attempt \cup {None} :
        Records(n, disk[n].req, v) /\ disk[n].req \in Request /\ ~disk[n].done
    BY <1>3
  <2>1. /\ v \in Attempt => /\ att[v].status = "absent"
                            /\ att'[v].status # "absent" /\ att'[v].node = n /\ att'[v].fence # 0
        /\ \A x \in Attempt : x # v => Carried(x)
        /\ UNCHANGED <<arts, rcpt>>
    BY DEF Records
  <2>2. v # "unclaimed"
    BY StoreAssumption, WorkerAssumption
  <2> QED
    BY <1>2, <2>1, <2>2
<1>4. CASE \E n \in Node, a \in Attempt, m \in Manifests :
             Stages(n, a, m) /\ (About(n, a) => disk[n].outbox = m)
  BY <1>4 DEF Stages
<1> QED
  BY <1>1, <1>3, <1>4 DEF OwnStep

\* What a state.json is about stays, unless the answer to its request arrives.
LEMMA AboutKept ==
  ASSUME WInv, OwnStep, UNCHANGED disk, NEW n \in Node, NEW a
  PROVE  /\ About(n, a) /\ a # "unclaimed" => About(n, a)'
         /\ About(n, a)' /\ a \in Attempt => About(n, a) \/ att[a].status = "absent"
<1>1. disk[n].req # None => disk[n].req \in Request
  BY DEF WInv, WTypes, DiskRow
<1> QED
  BY <1>1, OwnEffects DEF About

\* The store and the files agree after the step.
LEMMA OwnAgreed ==
  ASSUME WInv, OwnStep, LInv', UNCHANGED disk
  PROVE  Agreed'
<1>1. /\ \A n \in Node, r \in Request : claims[n][r] \in Attempt =>
           att[claims[n][r]].status # "absent" /\ att[claims[n][r]].node = n
      /\ \A n \in Node : disk[n].req # None => disk[n].req \in Request
  BY ClaimOwner DEF WInv, WTypes, DiskRow
<1>2. Untouched'
  BY OwnEffects DEF WInv, Agreed, Untouched, Carried
<1>3. NoForgottenLease'
  <2> SUFFICES ASSUME NEW a \in Attempt, Active(a)'
               PROVE  LET d == disk[att'[a].node] IN
                      d.req # None /\ ~d.done /\ claims'[att'[a].node][d.req] = a
    BY DEF NoForgottenLease
  <2>1. CASE Carried(a)
    <3>1. Active(a) /\ att'[a].node = att[a].node /\ att[a].status # "absent"
      BY <2>1 DEF Carried, Active, ActiveStates
    <3>2. /\ disk[att[a].node].req # None /\ ~disk[att[a].node].done
          /\ claims[att[a].node][disk[att[a].node].req] = a
      BY <3>1 DEF WInv, Agreed, NoForgottenLease
    <3>3. att[a].node \in Node
      BY <3>1 DEF WInv, LInv, Ledger, Issued
    <3>4. claims'[att[a].node][disk[att[a].node].req] = a
      BY <1>1, <3>2, <3>3, OwnEffects, StoreAssumption
    <3> QED
      BY <3>1, <3>2, <3>4
  <2>2. CASE ~Carried(a)
    BY <2>2, OwnEffects, WorkerAssumption
  <2> QED
    BY <2>1, <2>2
<1>4. ASSUME NEW n \in Node PROVE DiskKept(n)'
  <2>1. DiskKept(n) /\ disk[n] \in DiskRow
    BY DEF WInv, Agreed, WTypes
  <2>2. disk[n].claim # "none" => About(n, disk[n].claim)'
    BY <2>1, AboutKept, StoreAssumption, WorkerAssumption DEF DiskKept, DiskRow
  <2>3. disk[n].claim \in Attempt => att[disk[n].claim].status # "absent"
    BY <1>1, <2>1, WorkerAssumption DEF DiskKept, About
  <2>4. disk[n].claim \in Attempt /\ ~Active(disk[n].claim) => ~Active(disk[n].claim)'
    BY <2>3, OwnEffects DEF Carried, Active
  <2> QED
    BY <2>1, <2>2, <2>4 DEF DiskKept
<1>5. ASSUME NEW n \in Node, NEW a \in Attempt, About(n, a)' PROVE Staged(n, a)'
  <2>1. CASE att[a].status = "absent"
    <3>1. arts[a] = NoManifest /\ rcpt[a] = None
      BY <2>1 DEF WInv, Agreed, Untouched, LInv, OInv, IInv, Linked, Receipted
    <3>2. arts'[a] = NoManifest /\ rcpt'[a] = None
      BY <2>1, <3>1, OwnEffects
    <3> QED
      BY <3>2 DEF Staged, NoManifest
  <2>2. CASE About(n, a) /\ att[a].status # "absent"
    <3>1. Staged(n, a)
      BY <2>2 DEF WInv, Agreed
    <3>2. att[a].node = n
      BY <1>1, <2>2 DEF About
    <3>3. CASE arts'[a] = arts[a] /\ rcpt'[a] = rcpt[a]
      BY <3>1, <3>3 DEF Staged
    <3>4. CASE \E m \in Manifests :
                 /\ disk[n].outbox = m
                 /\ \A name \in Name : arts'[a][name] \in {arts[a][name], m[name]}
                 /\ rcpt'[a] = rcpt[a] \/ rcpt'[a].manifest = m
      BY <3>1, <3>4, WorkerAssumption DEF Staged
    <3> QED
      BY <2>2, <3>2, <3>3, <3>4, OwnEffects
  <2> QED
    BY <1>5, <2>1, <2>2, AboutKept
<1> QED
  BY <1>2, <1>3, <1>4, <1>5 DEF Agreed

\* What running processes know stays true.
LEMMA OwnPcKept ==
  ASSUME WInv, OwnStep, UNCHANGED disk, NEW n \in Node, NEW label \in Labels, PcKept(n, label)
  PROVE  PcKept(n, label)'
<1>1. DiskKept(n) /\ disk[n] \in DiskRow
  BY DEF WInv, Agreed, WTypes
<1>2. disk[n].claim \in Attempt /\ ~Active(disk[n].claim) => ~Active(disk[n].claim)'
  <2>1. disk[n].claim \in Attempt => att[disk[n].claim].status # "absent"
    BY <1>1, ClaimOwner, WorkerAssumption DEF WInv, DiskKept, About, DiskRow
  <2> QED
    BY <2>1, OwnEffects DEF Carried, Active
<1>3. disk[n].req \in Request /\ claims[n][disk[n].req] # "unclaimed" =>
        claims'[n][disk[n].req] # "unclaimed"
  BY OwnEffects
<1>4. disk[n].req # None => disk[n].req \in Request
  BY <1>1 DEF DiskRow
<1> QED
  BY <1>2, <1>3, <1>4 DEF PcKept

\* So does what the calls under way can do.
LEMMA OwnLateKept ==
  ASSUME WInv, OwnStep, UNCHANGED disk, NEW q \in late
  PROVE  LateKept(q)'
<1>1. q \in Calls /\ LateKept(q)
  BY DEF WInv, WTypes
<1>2. q.op = "claim" => q.node \in Node /\ q.about \in Request
  BY <1>1 DEF Calls
<1>3. q.op \in {"upload", "complete"} => q.node \in Node /\ q.about \in Attempt
  BY <1>1 DEF Calls
<1>4. CASE q.op = "claim"
  BY <1>1, <1>2, <1>4, OwnEffects DEF LateKept
<1>5. CASE q.op \in {"upload", "complete"}
  <2>1. att[q.about].status # "absent" /\ Carried(q.about)
    BY <1>1, <1>3, <1>5, OwnEffects DEF LateKept
  <2>2. About(q.node, q.about)' => About(q.node, q.about)
    BY <1>3, <1>5, <2>1, AboutKept
  <2> QED
    BY <1>1, <1>5, <2>1, <2>2 DEF LateKept, Carried
<1> QED
  BY <1>1, <1>4, <1>5 DEF LateKept
-----------------------------------------------------------------------------
(* Steps that call the store. *)

\* A step of the store after which process n is at a label keeps the invariant.
LEMMA CallInv ==
  ASSUME WInv, [Next]_vars, OwnStep, UNCHANGED disk, late' \subseteq late,
         NEW n \in Node, NEW label \in Labels, PcKept(n, label)',
         pc' = [pc EXCEPT ![n] = label]
  PROVE  WInv'
<1>1. LInv' /\ Agreed'
  BY LedgerNext, OwnAgreed DEF WInv
<1>2. WTypes'
  BY DEF WInv, WTypes
<1>3. ASSUME NEW k \in Node PROVE PcKept(k, pc[k])'
  <2>1. CASE k = n
    <3>1. pc'[k] = label
      BY <2>1 DEF WInv, WTypes
    <3> QED
      BY <2>1, <3>1 DEF PcKept
  <2>2. CASE k # n
    <3>1. pc'[k] = pc[k] /\ pc[k] \in Labels /\ PcKept(k, pc[k])
      BY <2>2 DEF WInv, WTypes
    <3>2. PICK l \in Labels : l = pc[k]
      BY <3>1
    <3>3. PcKept(k, l)'
      BY <3>1, <3>2, OwnPcKept
    <3> QED
      BY <3>1, <3>2, <3>3 DEF PcKept
  <2> QED
    BY <2>1, <2>2
<1>4. \A q \in late' : LateKept(q)'
  BY OwnLateKept
<1> QED
  BY <1>1, <1>2, <1>3, <1>4 DEF WInv

\* So does one that leaves every process where it is.
LEMMA ElsewhereInv ==
  ASSUME WInv, [Next]_vars, OwnStep, UNCHANGED <<disk, pc>>, late' \subseteq late
  PROVE  WInv'
<1>1. LInv' /\ Agreed' /\ WTypes'
  BY LedgerNext, OwnAgreed DEF WInv, WTypes
<1>2. ASSUME NEW k \in Node PROVE PcKept(k, pc[k])'
  <2>1. PICK l \in Labels : l = pc[k]
    BY DEF WInv, WTypes
  <2>2. PcKept(k, l)'
    BY <2>1, OwnPcKept DEF WInv
  <2> QED
    BY <2>1, <2>2 DEF PcKept
<1>3. \A q \in late' : LateKept(q)'
  BY OwnLateKept
<1> QED
  BY <1>1, <1>2, <1>3 DEF WInv

\* The token of an attempt the store knows is one it has issued.
LEMMA TokenIssued ==
  ASSUME WInv, NEW n \in Node, NEW a \in Attempt, Owned(n, a)
  PROVE  Token(a) \in Tokens
BY DEF WInv, Agreed, Untouched, Owned, Token, Tokens

\* A heartbeat and a GET are steps of the store that answer and stage nothing.
LEMMA HeartbeatServed ==
  ASSUME WInv, NEW n \in Node, NEW a \in Attempt, NEW phase \in ActiveStates,
         NEW t1 \in Later(now),
         \/ GetAttempt(n, a, t1) \/ HeartbeatStop(n, a, Token(a), t1)
         \/ \E t2 \in Later(t1) : HeartbeatRenew(n, a, Token(a), phase, t1, t2)
  PROVE  Next /\ OwnStep
<1>1. Owned(n, a)
  BY DEF GetAttempt, HeartbeatStop, HeartbeatRenew
<1>2. Token(a) \in Tokens
  BY <1>1, TokenIssued
<1>3. AttemptNext(n, a, Token(a))
  BY DEF AttemptNext
<1>4. Calm
  BY HeartbeatCalm DEF WInv, LInv, OInv
<1> QED
  BY <1>2, <1>3, <1>4 DEF Next, NodeNext, OwnStep

\* A claim is one that answers no request but the one of the state.json.
LEMMA ClaimServed ==
  ASSUME WInv, NEW n \in Node, NEW r \in Request, ClaimNext(n, r),
         claims[n][r] = "unclaimed" => disk[n].req = r /\ ~disk[n].done
  PROVE  /\ Next /\ OwnStep
         /\ claims'[n][r] # "unclaimed"
<1>1. Next
  BY DEF Next, NodeNext
<1>2. CASE Calm /\ claims[n][r] # "unclaimed"
  BY <1>1, <1>2 DEF OwnStep, Calm
<1>3. CASE \E v \in Attempt \cup {None} : Records(n, r, v)
  <2> PICK v \in Attempt \cup {None} : Records(n, r, v)
    BY <1>3
  <2>1. claims'[n][r] = v /\ v # "unclaimed"
    BY StoreAssumption, WorkerAssumption DEF Records, WInv, LInv, OInv, IInv, TypeOK
  <2>2. disk[n].req = r /\ ~disk[n].done
    BY DEF Records
  <2>3. OwnStep
    BY <2>2 DEF OwnStep
  <2> QED
    BY <1>1, <2>1, <2>3
<1> QED
  BY <1>2, <1>3, ClaimRecords DEF WInv, LInv, OInv

\* An upload is one that stages bytes of the outbox, or one of its two halves.
LEMMA UploadServed ==
  ASSUME WInv, NEW n \in Node, NEW a \in Attempt, NEW m \in Manifests, NEW name \in Name,
         m[name] # None, UploadHandled(n, a, name, m[name]), About(n, a) => disk[n].outbox = m
  PROVE  [Next]_vars /\ OwnStep
<1>1. m[name] \in Content
  BY DEF Manifests
<1>2. [Next]_vars
  <2>1. CASE PutBlob(m[name])
    BY <1>1, <2>1 DEF Next, OperatorNext
  <2>2. CASE AttachOutput(n, a, name, Token(a), m[name])
    <3>1. Token(a) \in Tokens
      BY <2>2, TokenIssued DEF AttachOutput
    <3>2. AttemptNext(n, a, Token(a))
      BY <1>1, <2>2 DEF AttemptNext
    <3> QED
      BY <3>1, <3>2 DEF Next, NodeNext
  <2> QED
    BY <2>1, <2>2 DEF UploadHandled
<1>3. Calm \/ Stages(n, a, m)
  BY UploadStages DEF WInv, LInv, OInv
<1> QED
  BY <1>2, <1>3 DEF OwnStep

\* A completion is one too, and ends the attempt.
LEMMA CompleteServed ==
  ASSUME WInv, NEW n \in Node, NEW a \in Attempt, NEW m \in Manifests,
         CompleteHandled(n, a, m), About(n, a) => disk[n].outbox = m
  PROVE  Next /\ OwnStep /\ ~Active(a)'
<1>1. Owned(n, a)
  BY DEF CompleteHandled, CompleteReplay, Complete
<1>2. AttemptNext(n, a, Token(a))
  <2>1. "ok" \in Verdicts
    BY DEF Verdicts
  <2> QED
    BY <2>1 DEF CompleteHandled, AttemptNext
<1>3. Next
  BY <1>1, <1>2, TokenIssued DEF Next, NodeNext
<1>4. (Calm \/ Stages(n, a, m)) /\ rcpt'[a] # None
  BY CompleteStages DEF WInv, LInv, OInv
<1>5. ~Active(a)'
  <2>1. Receipted(att, rcpt)'
    BY <1>3, NextInv DEF WInv, LInv, OInv, IInv, Linked
  <2> QED
    BY <1>4, <2>1 DEF Receipted, Active, ActiveStates
<1> QED
  BY <1>3, <1>4, <1>5 DEF OwnStep
-----------------------------------------------------------------------------
(* The steps of one_cycle that call the store. *)

\* A step of the system keeps the invariant, and is a step of the store or none to it.
Kept == [Next]_vars /\ WInv'

\* An answer that arrives or is lost, after a call the store has handled.
LEMMA AnsweredInv ==
  ASSUME WInv, NEW n \in Node, NEW label \in Labels, Answered(n, label),
         [Next]_vars, OwnStep, PcKept(n, label)'
  PROVE  Kept
<1>1. PcKept(n, "start")' /\ "start" \in Labels
  BY DEF PcKept, Labels, Executing, Sending
<1> QED
  BY <1>1, CallInv DEF Answered, Goto, Kept

\* A call the store refuses.
LEMMA RefusedInv ==
  ASSUME WInv, NEW n \in Node, Refused(n)
  PROVE  Kept
<1>1. PcKept(n, "start")' /\ "start" \in Labels
  BY DEF PcKept, Labels, Executing, Sending
<1>2. OwnStep
  BY OperatorCalm DEF Refused, OwnStep, WInv, LInv, OInv
<1> QED
  BY <1>1, <1>2, CallInv DEF Refused, Goto, Kept

\* A step that calls nothing and only moves the process on.
LEMMA GotoInv ==
  ASSUME WInv, NEW n \in Node, NEW label \in Labels, Goto(n, label), PcKept(n, label),
         UNCHANGED <<vars, disk>>, late' \subseteq late
  PROVE  Kept
<1>1. OwnStep
  BY OperatorCalm DEF OwnStep, WInv, LInv, OInv
<1>2. PcKept(n, label)'
  BY <1>1, OwnPcKept
<1> QED
  BY <1>1, <1>2, CallInv DEF Goto, Kept

\* RegisterNode.
LEMMA RegisterInv ==
  ASSUME WInv, NEW n \in Node, RegisterNode(n)
  PROVE  Kept
<1>1. [Next]_vars
  BY DEF RegisterNode, Next, NodeNext
<1>2. Calm
  <2>1. UNCHANGED <<claims, arts, rcpt, att>>
    BY DEF RegisterNode, Register, vars
  <2> QED
    BY <2>1, ReconciledCarried DEF Calm, WInv, LInv, OInv
<1>3. PcKept(n, "load")' /\ "load" \in Labels
  BY DEF PcKept, Labels, Executing, Sending
<1> QED
  BY <1>1, <1>2, <1>3, AnsweredInv DEF RegisterNode, OwnStep

\* SendClaim.
LEMMA SendClaimInv ==
  ASSUME WInv, NEW n \in Node, SendClaim(n)
  PROVE  Kept
<1>1. ~disk[n].done /\ disk[n].req \in Request /\ disk[n].claim = "none"
  BY DEF WInv, PcKept, SendClaim, WTypes, DiskRow
<1>2. CASE ClaimNext(n, disk[n].req) /\ Answered(n, "persist")
  <2>1. Next /\ OwnStep /\ claims'[n][disk[n].req] # "unclaimed"
    BY <1>1, <1>2, ClaimServed
  <2>2. UNCHANGED disk /\ "persist" \in Labels
    BY <1>2 DEF Answered, Labels
  <2>3. PcKept(n, "persist")'
    BY <1>1, <2>1, <2>2, WorkerAssumption DEF PcKept, Executing, Sending
  <2> QED
    BY <1>2, <2>1, <2>2, <2>3, AnsweredInv
<1> QED
  BY <1>2, RefusedInv DEF SendClaim

\* ReadAttempt: what it takes for ended has ended, after the reconciliation too.
LEMMA ReadAttemptInv ==
  ASSUME WInv, NEW n \in Node, ReadAttempt(n)
  PROVE  Kept
<1>1. PcKept(n, "get") /\ disk[n].claim \in Attempt /\ ~disk[n].done /\ disk[n].outbox = None
  BY DEF WInv, PcKept, ReadAttempt, Executing
<1> PICK a \in Attempt : a = disk[n].claim
  BY <1>1
<1> PICK t1 \in Later(now) :
      /\ GetAttempt(n, a, t1)
      /\ Answered(n, IF rcpt[a] # None \/ Attempts[a].status \notin ActiveStates THEN "ack"
                     ELSE IF Attempts[a].status \in {"leased", "preparing"} THEN "prepare" ELSE "resume")
  BY DEF ReadAttempt
<1>2. Next /\ OwnStep
  <2>1. "running" \in ActiveStates
    BY DEF ActiveStates
  <2> QED
    BY <2>1, HeartbeatServed
<1>3. att' = Attempts /\ UNCHANGED <<disk, rcpt>>
  BY DEF GetAttempt, OnlyReconciled, Answered
<1>4. CASE (rcpt[a] # None \/ Attempts[a].status \notin ActiveStates) /\ Answered(n, "ack")
  <2>1. ~Active(a)'
    <3>1. Receipted(att, rcpt)'
      BY <1>2, NextInv DEF WInv, LInv, OInv, IInv, Linked
    <3> QED
      BY <1>3, <1>4, <3>1 DEF Receipted, Active, ActiveStates
  <2>2. PcKept(n, "ack")' /\ "ack" \in Labels
    BY <1>1, <1>3, <2>1, WorkerAssumption DEF PcKept, Labels, Executing, Sending
  <2> QED
    BY <1>2, <1>4, <2>2, AnsweredInv
<1>5. ASSUME NEW label \in {"prepare", "resume"}, Answered(n, label) PROVE Kept
  <2>1. PcKept(n, label)' /\ label \in Labels
    BY <1>1, <1>3 DEF PcKept, Labels, Executing, Sending
  <2> QED
    BY <1>2, <1>5, <2>1, AnsweredInv
<1> QED
  BY <1>4, <1>5

\* A heartbeat from a place in one_cycle to another of the same half.
LEMMA HeartbeatInv ==
  ASSUME WInv, NEW n \in Node, NEW phase \in ActiveStates, NEW label \in Labels,
         Heartbeat(n, phase, label), PcKept(n, label), disk[n].claim \in Attempt
  PROVE  Kept
<1> PICK a \in Attempt : a = disk[n].claim
  OBVIOUS
<1> PICK t1 \in Later(now) :
      \/ HeartbeatStop(n, a, Token(a), t1) /\ Answered(n, "off")
      \/ \E t2 \in Later(t1) : HeartbeatRenew(n, a, Token(a), phase, t1, t2) /\ Answered(n, label)
      \/ Refused(n)
  BY DEF Heartbeat
<1>1. ASSUME NEW l \in {"off", label}, Answered(n, l),
             \/ HeartbeatStop(n, a, Token(a), t1)
             \/ \E t2 \in Later(t1) : HeartbeatRenew(n, a, Token(a), phase, t1, t2)
      PROVE  Kept
  <2>1. Next /\ OwnStep
    BY <1>1, HeartbeatServed
  <2>2. PcKept(n, "off") /\ l \in Labels
    BY DEF PcKept, Labels, Executing, Sending
  <2>3. PcKept(n, l)'
    BY <1>1, <2>1, <2>2, OwnPcKept DEF Answered
  <2> QED
    BY <1>1, <2>1, <2>2, <2>3, AnsweredInv
<1> QED
  BY <1>1, RefusedInv

\* Upload: by StagedIsOutbox every name the store misses is one of the outbox.
LEMMA UploadInv ==
  ASSUME WInv, NEW n \in Node, Upload(n)
  PROVE  Kept
<1>1. /\ disk[n].claim \in Attempt /\ ~disk[n].done /\ disk[n].outbox # None
      /\ disk[n] \in DiskRow /\ DiskKept(n)
  BY DEF WInv, Agreed, WTypes, PcKept, Upload, Sending
<1> PICK a \in Attempt : a = disk[n].claim
  BY <1>1
<1> PICK m \in Manifests : m = disk[n].outbox
  BY <1>1 DEF DiskRow
<1>2. PcKept(n, "upload") /\ PcKept(n, "complete") /\ {"upload", "complete"} \subseteq Labels
  BY <1>1, WorkerAssumption DEF PcKept, Labels, Executing, Sending
<1>3. CASE UNCHANGED vars /\ Answered(n, "complete")
  <2>1. OwnStep
    BY <1>3, OperatorCalm DEF OwnStep, WInv, LInv, OInv
  <2>2. PcKept(n, "complete")'
    BY <1>2, <1>3, <2>1, OwnPcKept DEF Answered
  <2> QED
    BY <1>2, <1>3, <2>1, <2>2, AnsweredInv
<1>4. ASSUME NEW name \in Name, arts[a][name] # m[name],
             UploadHandled(n, a, name, m[name]), Answered(n, "upload")
      PROVE  Kept
  <2>1. About(n, a)
    BY <1>1, WorkerAssumption DEF DiskKept
  <2>2. m[name] # None
    BY <1>4, <2>1 DEF WInv, Agreed, Staged
  <2>3. [Next]_vars /\ OwnStep
    BY <1>4, <2>2, UploadServed
  <2>4. PcKept(n, "upload")'
    BY <1>2, <1>4, <2>3, OwnPcKept DEF Answered
  <2> QED
    BY <1>2, <1>4, <2>3, <2>4, AnsweredInv
<1>5. CASE LowDisk(n)
  <2>1. PcKept(n, "start") /\ "start" \in Labels
    BY DEF PcKept, Labels, Executing, Sending
  <2> QED
    BY <1>5, <2>1, GotoInv DEF LowDisk
<1> QED
  BY <1>3, <1>4, <1>5, RefusedInv DEF Upload

\* SendComplete.
LEMMA SendCompleteInv ==
  ASSUME WInv, NEW n \in Node, SendComplete(n)
  PROVE  Kept
<1>1. /\ disk[n].claim \in Attempt /\ ~disk[n].done /\ disk[n].outbox \in Manifests
  BY DEF WInv, WTypes, PcKept, SendComplete, Sending, DiskRow
<1> PICK a \in Attempt : a = disk[n].claim
  BY <1>1
<1>2. Next /\ OwnStep /\ ~Active(a)'
  BY <1>1, CompleteServed DEF SendComplete
<1>3. UNCHANGED disk /\ Answered(n, "ack")
  BY DEF SendComplete, Answered
<1>4. PcKept(n, "ack")' /\ "ack" \in Labels
  BY <1>1, <1>2, <1>3, WorkerAssumption DEF PcKept, Labels, Executing, Sending
<1> QED
  BY <1>2, <1>3, <1>4, AnsweredInv
-----------------------------------------------------------------------------
(* The steps of one_cycle that write state.json, and faults. *)

\* A write of one state.json, which the store does not see: what has to hold of it
\* is what the invariant says of that node.
LEMMA WriteInv ==
  ASSUME WInv, UNCHANGED <<vars, late>>, NEW n \in Node, NEW d \in DiskRow, Persist(n, d),
         NEW label \in Labels, Goto(n, label), PcKept(n, label)', DiskKept(n)',
         \A a \in Attempt : Active(a) /\ att[a].node = n => ~d.done /\ About(n, a)',
         \A a \in Attempt : About(n, a)' => Staged(n, a)',
         \A q \in late : q.node = n => LateKept(q)'
  PROVE  Kept
<1>1. LInv'
  BY LedgerNext DEF WInv
<1>2. /\ disk'[n] = d /\ \A k \in Node : k # n => disk'[k] = disk[k]
      /\ pc'[n] = label /\ \A k \in Node : k # n => pc'[k] = pc[k]
  BY DEF WInv, WTypes, Persist, Goto
<1>3. WTypes'
  BY DEF WInv, WTypes, Persist, Goto
<1>4. UNCHANGED <<att, claims, arts, rcpt>>
  BY DEF vars
<1>5. Agreed'
  <2>1. Untouched'
    BY <1>4 DEF WInv, Agreed, Untouched
  <2>2. NoForgottenLease'
    <3> SUFFICES ASSUME NEW a \in Attempt, Active(a)
                 PROVE  LET e == disk'[att[a].node] IN
                        e.req # None /\ ~e.done /\ claims[att[a].node][e.req] = a
      BY <1>4 DEF NoForgottenLease, Active
    <3>1. CASE att[a].node = n
      BY <1>2, <1>4, <3>1 DEF About
    <3>2. CASE att[a].node # n
      <4>1. att[a].node \in Node
        BY DEF WInv, LInv, Ledger, Issued, Active, ActiveStates
      <4> QED
        BY <1>2, <3>2, <4>1 DEF WInv, Agreed, NoForgottenLease
    <3> QED
      BY <3>1, <3>2
  <2>3. ASSUME NEW k \in Node PROVE DiskKept(k)'
    BY <1>2, <1>4 DEF WInv, Agreed, DiskKept, About, Active
  <2>4. ASSUME NEW k \in Node, NEW a \in Attempt, About(k, a)' PROVE Staged(k, a)'
    BY <1>2, <1>4, <2>4 DEF WInv, Agreed, About, Staged
  <2> QED
    BY <2>1, <2>2, <2>3, <2>4 DEF Agreed
<1>6. ASSUME NEW k \in Node PROVE PcKept(k, pc[k])'
  BY <1>2, <1>4 DEF WInv, PcKept, Active
<1>7. ASSUME NEW q \in late PROVE LateKept(q)'
  <2>1. CASE q.node # n
    <3>1. q.node \in Node
      BY DEF WInv, WTypes, Calls
    <3> QED
      BY <1>2, <1>4, <2>1, <3>1 DEF WInv, LateKept, About
  <2> QED
    BY <2>1
<1> QED
  BY <1>1, <1>3, <1>5, <1>6, <1>7 DEF WInv, Kept

\* Load: a request id is replaced only when its claim was closed.
LEMMA LoadInv ==
  ASSUME WInv, NEW n \in Node, Load(n)
  PROVE  Kept
<1> DEFINE d == IF disk[n].done THEN Fresh ELSE disk[n]
<1>1. /\ disk[n] \in DiskRow /\ DiskKept(n)
      /\ UNCHANGED <<vars, late>>
  BY DEF Load, WInv, Agreed, WTypes
<1>2. ASSUME NEW r \in Request, d.req = None, claims[n][r] = "unclaimed",
             Persist(n, [Fresh EXCEPT !.req = r]), Goto(n, "claim")
      PROVE  Kept
  <2> PICK e \in DiskRow : e = [Fresh EXCEPT !.req = r]
    BY DEF Fresh, DiskRow
  <2>1. e.req = r /\ e.claim = "none" /\ e.outbox = None /\ ~e.done /\ r # None
    BY WorkerAssumption DEF Fresh
  <2>2. disk'[n] = e /\ UNCHANGED <<claims, att, arts, rcpt>>
    BY <1>1, <1>2 DEF Persist, WInv, WTypes, vars
  <2>3. disk[n].done \/ disk[n].req = None
    BY <1>2
  <2>4. PcKept(n, "claim")' /\ "claim" \in Labels
    BY <2>1, <2>2 DEF PcKept, Labels, Executing, Sending
  <2>5. DiskKept(n)'
    BY <2>1, <2>2 DEF DiskKept
  <2>6. \A a \in Attempt : ~About(n, a)'
    BY <1>2, <2>1, <2>2, StoreAssumption DEF About
  <2>7. \A a \in Attempt : ~(Active(a) /\ att[a].node = n)
    BY <2>3 DEF WInv, Agreed, NoForgottenLease
  <2>8. ASSUME NEW q \in late, q.node = n PROVE LateKept(q)'
    <3>1. LateKept(q) /\ q \in Calls
      BY DEF WInv, WTypes
    <3>2. q.op = "claim" => claims[n][q.about] # "unclaimed"
      BY <2>3, <2>8, <3>1, WorkerAssumption DEF LateKept, Calls
    <3>3. q.op \in {"upload", "complete"} => q.about \in Attempt
      BY <3>1 DEF Calls
    <3> QED
      BY <2>2, <2>6, <2>8, <3>1, <3>2, <3>3 DEF LateKept
  <2> QED
    BY <1>1, <1>2, <2>4, <2>5, <2>6, <2>7, <2>8, WriteInv
<1>3. ASSUME NEW label \in Labels, Goto(n, label), UNCHANGED disk, PcKept(n, label) PROVE Kept
  BY <1>1, <1>3, GotoInv
<1>4. CASE d.req # None /\ d.claim = "none" /\ Goto(n, "claim") /\ UNCHANGED disk
  <2>1. PcKept(n, "claim") /\ "claim" \in Labels
    BY <1>4 DEF Fresh, PcKept, Labels, Executing, Sending
  <2> QED
    BY <1>3, <1>4, <2>1
<1>5. CASE d.claim = None /\ Goto(n, "ack") /\ UNCHANGED disk
  <2>1. PcKept(n, "ack") /\ "ack" \in Labels
    BY <1>5, StoreAssumption, WorkerAssumption DEF Fresh, PcKept, Labels, Executing, Sending
  <2> QED
    BY <1>3, <1>5, <2>1
<1>6. CASE d.claim \in Attempt /\ d.outbox = None /\ Goto(n, "get") /\ UNCHANGED disk
  <2>1. PcKept(n, "get") /\ "get" \in Labels
    BY <1>6, WorkerAssumption DEF Fresh, PcKept, Labels, Executing, Sending
  <2> QED
    BY <1>3, <1>6, <2>1
<1>7. CASE d.outbox # None /\ Goto(n, "upload") /\ UNCHANGED disk
  <2>1. PcKept(n, "upload") /\ "upload" \in Labels
    BY <1>1, <1>7 DEF DiskKept, Fresh, PcKept, Labels, Executing, Sending
  <2> QED
    BY <1>3, <1>7, <2>1
<1> QED
  BY <1>2, <1>4, <1>5, <1>6, <1>7 DEF Load

\* PersistClaim: the answer that is saved is the one in the claims table.
LEMMA PersistClaimInv ==
  ASSUME WInv, NEW n \in Node, PersistClaim(n)
  PROVE  Kept
<1>1. /\ disk[n] \in DiskRow /\ DiskKept(n) /\ disk[n].req \in Request /\ ~disk[n].done
      /\ disk[n].claim = "none" /\ disk[n].outbox = None
      /\ claims[n][disk[n].req] # "unclaimed"
  BY WorkerAssumption DEF WInv, Agreed, WTypes, DiskRow, DiskKept, PcKept, PersistClaim
<1> PICK v : v = claims[n][disk[n].req]
  OBVIOUS
<1>2. v \in Attempt \cup {None} /\ v # "none"
  BY <1>1, WorkerAssumption DEF WInv, LInv, OInv, IInv, TypeOK
<1> PICK e \in DiskRow : e = [disk[n] EXCEPT !.claim = v]
  BY <1>1, <1>2 DEF DiskRow
<1>3. e.req = disk[n].req /\ e.claim = v /\ e.outbox = None /\ ~e.done
  BY <1>1 DEF DiskRow
<1>4. /\ Persist(n, e) /\ UNCHANGED <<vars, late>> /\ UNCHANGED <<claims, att, arts, rcpt>>
      /\ disk'[n] = e
  BY DEF PersistClaim, Persist, WInv, WTypes, vars
<1>5. \A a : About(n, a)' <=> About(n, a)
  BY <1>3, <1>4 DEF About
<1>6. About(n, v)'
  BY <1>1, <1>5, WorkerAssumption DEF About
<1>7. DiskKept(n)'
  BY <1>3, <1>4, <1>6 DEF DiskKept
<1>8. \A a \in Attempt : Active(a) /\ att[a].node = n => ~e.done /\ About(n, a)'
  BY <1>3, <1>5 DEF WInv, Agreed, NoForgottenLease, About
<1>9. ASSUME NEW a \in Attempt, About(n, a)' PROVE Staged(n, a)'
  BY <1>1, <1>3, <1>4, <1>5, <1>9 DEF WInv, Agreed, Staged
<1>10. ASSUME NEW q \in late, q.node = n PROVE LateKept(q)'
  BY <1>1, <1>3, <1>4, <1>5, <1>10 DEF WInv, LateKept
<1>11. CASE v = None
  <2>1. Goto(n, "ack") /\ "ack" \in Labels
    BY <1>11 DEF PersistClaim, Labels
  <2>2. PcKept(n, "ack")'
    BY <1>2, <1>3, <1>4, <1>11, StoreAssumption DEF PcKept, Executing, Sending
  <2> QED
    BY <1>4, <1>7, <1>8, <1>9, <1>10, <2>1, <2>2, WriteInv
<1>12. CASE v # None
  <2>1. Goto(n, "get") /\ "get" \in Labels
    BY <1>12 DEF PersistClaim, Labels, Executing
  <2>2. PcKept(n, "get")'
    BY <1>2, <1>3, <1>4, <1>12 DEF PcKept, Executing, Sending
  <2> QED
    BY <1>4, <1>7, <1>8, <1>9, <1>10, <2>1, <2>2, WriteInv
<1> QED
  BY <1>11, <1>12
\* SaveOutbox: until then nothing was staged, and no call that could is under way.
LEMMA SaveOutboxInv ==
  ASSUME WInv, NEW n \in Node, SaveOutbox(n)
  PROVE  Kept
<1>1. /\ disk[n] \in DiskRow /\ DiskKept(n) /\ ~disk[n].done
      /\ disk[n].claim \in Attempt /\ disk[n].outbox = None
  BY DEF WInv, Agreed, WTypes, PcKept, SaveOutbox, Executing
<1> PICK m \in Manifests : Persist(n, [disk[n] EXCEPT !.outbox = m])
  BY DEF SaveOutbox
<1> PICK e \in DiskRow : e = [disk[n] EXCEPT !.outbox = m]
  BY <1>1 DEF DiskRow
<1>2. e.req = disk[n].req /\ e.claim = disk[n].claim /\ e.outbox = m /\ ~e.done /\ m # None
  BY <1>1, WorkerAssumption DEF DiskRow
<1>3. /\ Persist(n, e) /\ UNCHANGED <<vars, late>> /\ UNCHANGED <<claims, att, arts, rcpt>>
      /\ disk'[n] = e
  BY DEF SaveOutbox, Persist, WInv, WTypes, vars
<1>4. \A a : About(n, a)' <=> About(n, a)
  BY <1>2, <1>3 DEF About
<1>5. DiskKept(n)'
  BY <1>1, <1>2, <1>3, <1>4, WorkerAssumption DEF DiskKept
<1>6. \A a \in Attempt : Active(a) /\ att[a].node = n => ~e.done /\ About(n, a)'
  BY <1>2, <1>4 DEF WInv, Agreed, NoForgottenLease, About
<1>7. ASSUME NEW a \in Attempt, About(n, a)' PROVE Staged(n, a)'
  <2>1. rcpt[a] = None /\ \A name \in Name : arts[a][name] = None
    BY <1>1, <1>4, <1>7 DEF WInv, Agreed, Staged
  <2> QED
    BY <1>3, <2>1 DEF Staged
<1>8. ASSUME NEW q \in late, q.node = n PROVE LateKept(q)'
  <2>1. LateKept(q) /\ q \in Calls
    BY DEF WInv, WTypes
  <2>2. q.op \in {"upload", "complete"} => q.arg # None
    BY <2>1, WorkerAssumption DEF Calls
  <2> QED
    BY <1>1, <1>2, <1>3, <1>4, <1>8, <2>1, <2>2 DEF LateKept
<1>9. Goto(n, "announce") /\ "announce" \in Labels
  BY DEF SaveOutbox, Labels, Sending
<1>10. PcKept(n, "announce")'
  BY <1>1, <1>2, <1>3, WorkerAssumption DEF PcKept, Executing, Sending
<1> QED
  BY <1>3, <1>5, <1>6, <1>7, <1>8, <1>9, <1>10, WriteInv

\* Close: the attempt has ended, so nothing of the node is forgotten.
LEMMA CloseInv ==
  ASSUME WInv, NEW n \in Node, Close(n)
  PROVE  Kept
<1>1. /\ disk[n] \in DiskRow /\ DiskKept(n) /\ disk[n].claim # "none"
      /\ disk[n].claim \in Attempt => ~Active(disk[n].claim)
  BY DEF WInv, Agreed, WTypes, PcKept, Close
<1> PICK e \in DiskRow : e = [disk[n] EXCEPT !.done = TRUE]
  BY <1>1 DEF DiskRow
<1>2. e.req = disk[n].req /\ e.claim = disk[n].claim /\ e.outbox = disk[n].outbox /\ e.done
  BY <1>1 DEF DiskRow
<1>3. /\ Persist(n, e) /\ UNCHANGED <<vars, late>> /\ UNCHANGED <<claims, att, arts, rcpt>>
      /\ disk'[n] = e
  BY DEF Close, Persist, WInv, WTypes, vars
<1>4. /\ \A a : About(n, a)' <=> About(n, a)
      /\ About(n, disk[n].claim)
  BY <1>1, <1>2, <1>3 DEF About, DiskKept
<1>5. DiskKept(n)'
  BY <1>1, <1>2, <1>3, <1>4 DEF DiskKept, Active
<1>6. \A a \in Attempt : ~(Active(a) /\ att[a].node = n)
  <2> SUFFICES ASSUME NEW a \in Attempt, Active(a), att[a].node = n PROVE FALSE
    OBVIOUS
  <2>1. About(n, a)
    BY DEF WInv, Agreed, NoForgottenLease, About
  <2>2. disk[n].claim = a
    BY <1>4, <2>1 DEF About
  <2> QED
    BY <1>1, <2>2
<1>7. ASSUME NEW a \in Attempt, About(n, a)' PROVE Staged(n, a)'
  BY <1>2, <1>3, <1>4, <1>7 DEF WInv, Agreed, Staged
<1>8. ASSUME NEW q \in late, q.node = n PROVE LateKept(q)'
  <2>1. LateKept(q)
    BY DEF WInv
  <2>2. q.op = "claim" => claims[n][q.about] # "unclaimed"
    <3>1. q.op = "claim" /\ claims[n][q.about] = "unclaimed" => disk[n].claim = "unclaimed"
      BY <1>4, <1>8, <2>1 DEF LateKept, About
    <3> QED
      BY <1>1, <3>1, StoreAssumption, WorkerAssumption DEF DiskRow
  <2> QED
    BY <1>2, <1>3, <1>4, <1>8, <2>1, <2>2 DEF LateKept
<1>9. Goto(n, "start") /\ "start" \in Labels
  BY DEF Close, Labels
<1>10. PcKept(n, "start")'
  BY DEF PcKept, Executing, Sending
<1> QED
  BY <1>3, <1>5, <1>6, <1>7, <1>8, <1>9, <1>10, WriteInv

\* GiveUp: the call that is left under way is one the state.json stands for.
LEMMA GiveUpInv ==
  ASSUME WInv, NEW n \in Node, GiveUp(n)
  PROVE  Kept
<1>1. /\ disk[n] \in DiskRow /\ DiskKept(n) /\ PcKept(n, pc[n]) /\ pc[n] \in Labels
      /\ UNCHANGED <<vars, disk>> /\ UNCHANGED <<claims, att>>
  BY DEF WInv, Agreed, WTypes, GiveUp, vars
<1>2. disk[n].claim \in Attempt => att[disk[n].claim].status # "absent"
  BY <1>1, ClaimOwner, WorkerAssumption DEF WInv, DiskKept, About, DiskRow
<1>3. ASSUME NEW q \in Pending(n) PROVE q \in Calls /\ LateKept(q)'
  <2>1. CASE pc[n] = "claim"
    <3>1. q = [node |-> n, op |-> "claim", about |-> disk[n].req, arg |-> None]
      BY <1>3, <2>1 DEF Pending
    <3>2. disk[n].req \in Request /\ ~disk[n].done
      BY <1>1, <2>1 DEF PcKept, DiskRow
    <3> QED
      BY <1>1, <3>1, <3>2 DEF Calls, LateKept
  <2>2. CASE pc[n] \in {"prepare", "resume", "run", "announce"}
    <3>1. disk[n].claim \in Attempt
      BY <1>1, <2>2 DEF PcKept, Executing, Sending
    <3>2. PICK phase \in {"preparing", "running", "uploading"} :
            q = [node |-> n, op |-> "heartbeat", about |-> disk[n].claim, arg |-> phase]
      BY <1>3, <2>2 DEF Pending
    <3> QED
      BY <3>1, <3>2 DEF Calls, LateKept
  <2>3. CASE pc[n] \in {"upload", "complete"}
    <3>1. disk[n].claim \in Attempt /\ disk[n].outbox \in Manifests
      BY <1>1, <2>3 DEF PcKept, Sending, DiskRow
    <3>2. PICK op \in {"upload", "complete"} :
            q = [node |-> n, op |-> op, about |-> disk[n].claim, arg |-> disk[n].outbox]
      BY <1>3, <2>3 DEF Pending
    <3> QED
      BY <1>1, <1>2, <3>1, <3>2 DEF Calls, LateKept
  <2>4. CASE pc[n] \notin {"claim", "prepare", "resume", "run", "announce", "upload", "complete"}
    BY <1>3, <2>4 DEF Pending
  <2> QED
    BY <2>1, <2>2, <2>3, <2>4
<1>4. OwnStep
  BY <1>1, OperatorCalm DEF OwnStep, WInv, LInv, OInv
<1>5. LInv' /\ Agreed'
  BY <1>1, <1>4, LedgerNext, OwnAgreed DEF WInv
<1>6. WTypes'
  BY <1>3 DEF WInv, WTypes, GiveUp, Goto, Labels
<1>7. ASSUME NEW k \in Node PROVE PcKept(k, pc[k])'
  <2>1. CASE k = n
    <3>1. pc'[n] = "start"
      BY DEF GiveUp, Goto, WInv, WTypes
    <3> QED
      BY <2>1, <3>1 DEF PcKept, Executing, Sending
  <2>2. CASE k # n
    BY <1>1, <2>2 DEF GiveUp, Goto, WInv, WTypes, PcKept, Active
  <2> QED
    BY <2>1, <2>2
<1>8. \A q \in late' : LateKept(q)'
  BY <1>3, <1>4, <1>1, OwnLateKept DEF GiveUp
<1> QED
  BY <1>1, <1>5, <1>6, <1>7, <1>8 DEF WInv, Kept

\* ArriveLate: what a call does when it arrives is still the worker's own.
LEMMA ArriveLateInv ==
  ASSUME WInv, NEW q \in late, ArriveLate(q)
  PROVE  Kept
<1>1. q \in Calls /\ LateKept(q) /\ Handled(q)
  BY DEF WInv, WTypes, ArriveLate
<1>2. [Next]_vars /\ OwnStep
  <2>1. CASE q.op = "claim" /\ ClaimNext(q.node, q.about)
    <3>1. q.node \in Node /\ q.about \in Request
      BY <1>1, <2>1 DEF Calls
    <3> QED
      BY <1>1, <2>1, <3>1, ClaimServed DEF LateKept
  <2>2. CASE q.op = "heartbeat" /\ HeartbeatHandled(q.node, q.about, q.arg)
    <3>1. q.node \in Node /\ q.about \in Attempt /\ q.arg \in ActiveStates
      BY <1>1, <2>2 DEF Calls, ActiveStates
    <3> QED
      BY <2>2, <3>1, HeartbeatServed DEF HeartbeatHandled
  <2>3. CASE q.op = "upload" /\ \E name \in Name :
               q.arg[name] # None /\ UploadHandled(q.node, q.about, name, q.arg[name])
    <3>1. q.node \in Node /\ q.about \in Attempt /\ q.arg \in Manifests
      BY <1>1, <2>3 DEF Calls
    <3>2. About(q.node, q.about) => disk[q.node].outbox = q.arg
      BY <1>1, <2>3 DEF LateKept
    <3> QED
      BY <2>3, <3>1, <3>2, UploadServed
  <2>4. CASE q.op = "complete" /\ CompleteHandled(q.node, q.about, q.arg)
    <3>1. q.node \in Node /\ q.about \in Attempt /\ q.arg \in Manifests
      BY <1>1, <2>4 DEF Calls
    <3>2. About(q.node, q.about) => disk[q.node].outbox = q.arg
      BY <1>1, <2>4 DEF LateKept
    <3> QED
      BY <2>4, <3>1, <3>2, CompleteServed
  <2> QED
    BY <1>1, <2>1, <2>2, <2>3, <2>4 DEF Handled
<1>3. UNCHANGED <<disk, pc>> /\ late' \subseteq late
  BY DEF ArriveLate
<1> QED
  BY <1>2, <1>3, ElsewhereInv DEF Kept
-----------------------------------------------------------------------------
(* The theorems. *)

\* The empty store and the empty state.json agree.
LEMMA WInitInv == WInit => WInv
<1> SUFFICES ASSUME WInit PROVE WInv
  OBVIOUS
<1>1. LInv
  BY LedgerInit DEF WInit
<1>2. WTypes
  BY DEF WInit, WTypes, Fresh, DiskRow, Labels
<1>3. \A n \in Node : disk[n] = Fresh /\ pc[n] = "off"
  BY DEF WInit
<1>4. \A a \in Attempt : att[a].status = "absent" /\ arts[a] = NoManifest
  BY DEF WInit, Init, NoAttempt
<1>5. Agreed
  <2>1. Untouched /\ NoForgottenLease
    BY <1>4 DEF Untouched, NoForgottenLease, Active, ActiveStates
  <2>2. \A n \in Node : DiskKept(n)
    BY <1>3 DEF DiskKept, Fresh
  <2>3. \A n \in Node, a \in Attempt : ~About(n, a)
    BY <1>3 DEF About, Fresh
  <2> QED
    BY <2>1, <2>2, <2>3 DEF Agreed
<1>6. \A n \in Node : PcKept(n, pc[n])
  BY <1>3 DEF PcKept, Executing, Sending
<1>7. late = {}
  BY DEF WInit
<1> QED
  BY <1>1, <1>2, <1>5, <1>6, <1>7 DEF WInv

\* Every step of a worker keeps the invariant.
LEMMA WorkerNextInv ==
  ASSUME WInv, NEW n \in Node, WorkerNext(n)
  PROVE  Kept
<1>1. PcKept(n, pc[n])
  BY DEF WInv
<1>2. {"preparing", "running", "uploading"} \subseteq ActiveStates
  BY DEF ActiveStates
<1>3. CASE Start(n)
  <2>1. PcKept(n, "start") /\ "start" \in Labels
    BY DEF PcKept, Labels, Executing, Sending
  <2> QED
    BY <1>3, <2>1, GotoInv DEF Start
<1>4. CASE Prepare(n)
  <2>1. disk[n].claim \in Attempt /\ PcKept(n, "download") /\ "download" \in Labels
    BY <1>1, <1>4 DEF Prepare, PcKept, Labels, Executing, Sending
  <2> QED
    BY <1>2, <1>4, <2>1, HeartbeatInv DEF Prepare
<1>5. CASE Download(n)
  <2>1. PcKept(n, "run") /\ "run" \in Labels
    BY <1>1, <1>5 DEF Download, PcKept, Labels, Executing, Sending
  <2>2. CASE UNCHANGED vars /\ Answered(n, "run")
    <3>1. OwnStep
      BY <2>2, OperatorCalm DEF OwnStep, WInv, LInv, OInv
    <3>2. PcKept(n, "run")'
      BY <2>1, <2>2, <3>1, OwnPcKept DEF Answered
    <3> QED
      BY <2>1, <2>2, <3>1, <3>2, AnsweredInv
  <2> QED
    BY <1>5, <2>2, RefusedInv DEF Download
<1>6. CASE Run(n)
  <2>1. disk[n].claim \in Attempt /\ PcKept(n, "ran") /\ "ran" \in Labels
    BY <1>1, <1>6 DEF Run, PcKept, Labels, Executing, Sending
  <2> QED
    BY <1>2, <1>6, <2>1, HeartbeatInv DEF Run
<1>7. CASE RunAgain(n)
  <2>1. PcKept(n, "run") /\ "run" \in Labels
    BY <1>1, <1>7 DEF RunAgain, PcKept, Labels, Executing, Sending
  <2> QED
    BY <1>7, <2>1, GotoInv DEF RunAgain
<1>8. CASE Announce(n)
  <2>1. disk[n].claim \in Attempt /\ PcKept(n, "upload") /\ "upload" \in Labels
    BY <1>1, <1>8 DEF Announce, PcKept, Labels, Executing, Sending
  <2> QED
    BY <1>2, <1>8, <2>1, HeartbeatInv DEF Announce
<1> QED
  BY <1>3, <1>4, <1>5, <1>6, <1>7, <1>8, RegisterInv, LoadInv, SendClaimInv, PersistClaimInv,
     ReadAttemptInv, SaveOutboxInv, UploadInv, SendCompleteInv, CloseInv DEF WorkerNext

\* So does every step of the system, and to the store it is one of its operations.
LEMMA WNextInv ==
  ASSUME WInv, [WNext]_allvars
  PROVE  Kept
<1>1. CASE (OperatorNext \/ Tick) /\ UNCHANGED wvars
  <2>1. OwnStep
    BY <1>1, OperatorCalm DEF OwnStep, WInv, LInv, OInv
  <2> QED
    BY <1>1, <2>1, ElsewhereInv DEF wvars, Next, Kept
<1>2. ASSUME NEW n \in Node, Crash(n) PROVE Kept
  <2>1. PcKept(n, "off") /\ "off" \in Labels
    BY DEF PcKept, Labels, Executing, Sending
  <2> QED
    BY <1>2, <2>1, GotoInv DEF Crash
<1>3. CASE UNCHANGED allvars
  <2>1. OwnStep
    BY <1>3, OperatorCalm DEF allvars, OwnStep, WInv, LInv, OInv
  <2> QED
    BY <1>3, <2>1, ElsewhereInv DEF allvars, Kept
<1> QED
  BY <1>1, <1>2, <1>3, WorkerNextInv, GiveUpInv, ArriveLateInv DEF WNext

\* The workers are clients like any others: with their crashes, lost answers and
\* late calls, the store still behaves as its own specification says, so every
\* theorem about the store holds of the whole.
THEOREM WorkersAreClients == WSpec => Spec
<1>1. WInit => Init
  BY DEF WInit
<1>2. WInv /\ [WNext]_allvars => WInv' /\ [Next]_vars
  BY WNextInv DEF Kept
<1> QED
  BY <1>1, <1>2, WInitInv, PTL DEF WSpec, Spec

\* No worker forgets an attempt that still holds a lease, whatever crashes, is
\* lost or arrives late: its state.json is about that attempt.
THEOREM LeasesRemembered == WSpec => []NoForgottenLease
<1>1. WInv => NoForgottenLease
  BY DEF WInv, Agreed
<1>2. WInv /\ [WNext]_allvars => WInv'
  BY WNextInv DEF Kept
<1> QED
  BY <1>1, <1>2, WInitInv, PTL DEF WSpec

\* The store never holds bytes of a claimed attempt that its worker could not send
\* again: they, and the answered manifest, are those of the saved outbox.
THEOREM OutboxIsStaged == WSpec => []StagedIsOutbox
<1>1. WInv => StagedIsOutbox
  <2> SUFFICES ASSUME WInv, NEW n \in Node, disk[n].claim \in Attempt
               PROVE  Staged(n, disk[n].claim)
    BY DEF StagedIsOutbox, Staged
  <2>1. About(n, disk[n].claim)
    BY WorkerAssumption DEF WInv, Agreed, DiskKept
  <2> QED
    BY <2>1 DEF WInv, Agreed
<1>2. WInv /\ [WNext]_allvars => WInv'
  BY WNextInv DEF Kept
<1> QED
  BY <1>1, <1>2, WInitInv, PTL DEF WSpec
=============================================================================
