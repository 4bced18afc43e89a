------------------------- MODULE NativePublication -------------------------
(***************************************************************************)
(* From a captured paper to the content that retrieval serves: the         *)
(* publication outbox and its fenced claims, the native batch publisher,   *)
(* and the activation of a validated build by compare-and-swap.            *)
(*                                                                         *)
(* Data: a job is its sequence number and stands for one sealed            *)
(* publication of a paper, all of its chunks.  The identity of a content   *)
(* is a hash of its base and its changes, so here a content is the         *)
(* sequence of the changes from the legacy content <<>> on, and two        *)
(* batches that plan the same changes plan the same content.  Time is one  *)
(* event: a lease runs out.  A validation older than 15 minutes is void,   *)
(* but anyone with the builder role validates a sealed build again, with   *)
(* no plan and no lease: only whether a build was ever validated is kept.  *)
(***************************************************************************)
EXTENDS Naturals, Sequences, SequencesExt, FiniteSets, FiniteSetsExt

CONSTANTS
  Paper, Batch,
  Legacy,        \* the build of the legacy content, active from the start
  Parts,         \* partitions of a content, of at most 1000 members each
  MaxAttempts,   \* claims of one job (100 in the code)
  MaxJobs, MaxEvents   \* bounds, for model checking

ASSUME PublicationAssumption ==
  /\ {Parts, MaxAttempts, MaxJobs, MaxEvents} \subseteq Nat \ {0}
  /\ Legacy \notin Batch

VARIABLES
  paperOf,   \* the paper of each job, in the order of the queue
  claims,    \* the claims of each job, with their results
  made,      \* partitions appended so far, for every planned content
  sealed,    \* the contents that are sealed
  batch,     \* each batch: its plan, its phase and its build
  events     \* the activation events; the last one is the active pointer

pvars == <<paperOf, claims, made, sealed, batch, events>>

Anon == "anonymous"   \* the one-off claims of supersede_pending

\* A batch identity that has planned nothing holds no jobs.
Unplanned == [plan |-> <<>>, jobs |-> {}, cursor |-> 0, checked |-> FALSE,
              build |-> "none", expects |-> FALSE]

PInit ==
  /\ paperOf = <<>>
  /\ claims = [j \in 1..MaxJobs |-> <<>>]
  /\ made = [C \in {<<>>} |-> Parts] /\ sealed = {<<>>}
  /\ batch = [b \in Batch \cup {Legacy} |->
                IF b = Legacy THEN [Unplanned EXCEPT !.build = "valid"] ELSE Unplanned]
  /\ events = <<[content |-> <<>>, build |-> Legacy, action |-> "promote"]>>

Jobs == 1..Len(paperOf)
Terminal == {"published", "superseded"}

Newer(j) == {k \in Jobs : k > j /\ paperOf[k] = paperOf[j]}
Ended(j) == \E i \in DOMAIN claims[j] : claims[j][i].result \in Terminal
Leased(j) == claims[j] # <<>> /\ Last(claims[j]).live /\ Last(claims[j]).result = "none"
Active == Last(events).content

\* The publication of paper p in content C; 0 is the legacy one.
Ver(C, p) ==
  LET I == {i \in DOMAIN C : p \in DOMAIN C[i]} IN IF I = {} THEN 0 ELSE C[Max(I)][p]
-----------------------------------------------------------------------------
(* The queue. *)

\* publish_prepared: the paper, its sealed publication and its job, at once.
Enqueue(p) ==
  /\ Len(paperOf) < MaxJobs
  /\ paperOf' = Append(paperOf, p)
  /\ UNCHANGED <<claims, made, sealed, batch, events>>

\* Faulty: hands out a job again while its lease runs.
ClaimableLeased(j) == ~Ended(j) /\ Len(claims[j]) < MaxAttempts

\* What the trigger asks of a new claim.
Claimable(j) ==
  /\ ~Ended(j)
  /\ claims[j] # <<>> => ~Last(claims[j]).live \/ Last(claims[j]).result = "retry"
  /\ Len(claims[j]) < MaxAttempts

Claim(who) == [by |-> who, live |-> TRUE, result |-> "none", at |-> 0]

Latest(j) == Newer(j) = {}

\* claim_and_plan: a batch identity claims every job once, or nothing.
ClaimAndPlan(b, base, J) ==
  LET C == Append(base, [p \in {paperOf[j] : j \in J} |-> CHOOSE j \in J : paperOf[j] = p]) IN
  /\ batch[b].jobs = {}
  /\ base \in sealed /\ J # {}
  /\ \A j \in J : Latest(j) /\ Claimable(j)
  /\ \A j, k \in J : paperOf[j] = paperOf[k] => j = k
  /\ claims' = [j \in DOMAIN claims |-> IF j \in J THEN Append(claims[j], Claim(b)) ELSE claims[j]]
  /\ batch' = [batch EXCEPT ![b].plan = C, ![b].jobs = J]
  /\ made' = [D \in DOMAIN made \cup {C} |-> IF D \in DOMAIN made THEN made[D] ELSE 0]
  /\ UNCHANGED <<paperOf, sealed, events>>

\* What the trigger asks of a result: the last claim, not run out.  A claim
\* has one result; another one conflicts with it.
Holds(j, b) == Leased(j) /\ Last(claims[j]).by = b /\ ~Ended(j)

Answered(j, res) == [claims[j] EXCEPT ![Len(claims[j])].result = res, ![Len(claims[j])].at = Len(events)]

\* Faulty: takes the operator's word for the publication.
ServedAny(j) == TRUE

\* The active content holds exactly the members of this publication.
Served(j) == Ver(Active, paperOf[j]) = j

\* finish_batch records what was really activated, for all jobs or for none.
FinishBatch(b) ==
  LET J == batch[b].jobs IN
  /\ J # {} /\ \A j \in J : Holds(j, b) /\ Served(j)
  /\ claims' = [j \in DOMAIN claims |-> IF j \in J THEN Answered(j, "published") ELSE claims[j]]
  /\ UNCHANGED <<paperOf, made, sealed, batch, events>>

RetryBatch(b) ==
  LET J == batch[b].jobs IN
  /\ J # {} /\ \A j \in J : Holds(j, b)
  /\ claims' = [j \in DOMAIN claims |-> IF j \in J THEN Answered(j, "retry") ELSE claims[j]]
  /\ UNCHANGED <<paperOf, made, sealed, batch, events>>

Old == {j \in Jobs : ~Ended(j) /\ ~Leased(j) /\ Newer(j) # {}}

\* supersede_pending claims every old job and names its successor, or fails
\* as a whole when one claim is refused.
SupersedePending ==
  /\ Old # {} /\ \A j \in Old : Claimable(j)
  /\ claims' = [j \in DOMAIN claims |->
                  IF j \in Old
                  THEN Append(claims[j], [Claim(Anon) EXCEPT !.result = "superseded", !.at = Len(events)])
                  ELSE claims[j]]
  /\ UNCHANGED <<paperOf, made, sealed, batch, events>>

\* The lease of an unfinished claim runs out.
Expire(j) ==
  /\ Leased(j)
  /\ claims' = [claims EXCEPT ![j][Len(claims[j])].live = FALSE]
  /\ UNCHANGED <<paperOf, made, sealed, batch, events>>
-----------------------------------------------------------------------------
(* The batch publisher.  Every transaction checks the plan first and commits
   later; the corpus phases check it once more before they commit. *)

\* verify_plan
Usable(b) == batch[b].jobs # {} /\ \A j \in batch[b].jobs : Holds(j, b) /\ Latest(j)

Check(b) ==
  /\ ~batch[b].checked /\ batch[b].build # "valid" /\ Usable(b)
  /\ batch' = [batch EXCEPT ![b].checked = TRUE]
  /\ UNCHANGED <<paperOf, claims, made, sealed, events>>

\* append_content_partition; a partition that is there is only replayed.
AppendPartition(b) ==
  LET B == batch[b] IN
  /\ B.checked /\ B.cursor < Parts /\ B.build = "none"
  /\ made' = [made EXCEPT ![B.plan] = IF @ > B.cursor THEN @ ELSE B.cursor + 1]
  /\ batch' = [batch EXCEPT ![b].cursor = @ + 1, ![b].checked = FALSE]
  /\ UNCHANGED <<paperOf, claims, sealed, events>>

\* seal_content, once the enumeration has come to its end.
SealContent(b) ==
  LET B == batch[b] IN
  /\ B.checked /\ B.cursor = Parts /\ B.build = "none"
  /\ made[B.plan] = Parts
  /\ sealed' = sealed \cup {B.plan}
  /\ batch' = [batch EXCEPT ![b].cursor = 0, ![b].checked = FALSE]
  /\ UNCHANGED <<paperOf, claims, made, events>>

\* prepare_projection.  The table, its partitions and the graph are committed
\* one by one under the same check; only the sealed graph can be validated.
Build(b) ==
  LET B == batch[b] IN
  /\ B.checked /\ B.plan \in sealed /\ B.build = "none"
  /\ batch' = [batch EXCEPT ![b].build = "built", ![b].checked = FALSE]
  /\ UNCHANGED <<paperOf, claims, made, sealed, events>>

Validate(b) ==
  /\ batch[b].checked /\ batch[b].build = "built"
  /\ batch' = [batch EXCEPT ![b].build = "valid", ![b].checked = FALSE]
  /\ UNCHANGED <<paperOf, claims, made, sealed, events>>

\* The worker dies between two transactions; SQL keeps what was committed.
Interrupt(b) ==
  /\ batch[b].checked \/ batch[b].cursor > 0
  /\ batch' = [batch EXCEPT ![b].cursor = 0, ![b].checked = FALSE]
  /\ UNCHANGED <<paperOf, claims, made, sealed, events>>
-----------------------------------------------------------------------------
(* The publisher role: acceptance and activation of a build. *)

\* record_operator_acceptance; the operator reads the pointer to start from.
AcceptBuild(b) ==
  /\ batch[b].build = "valid" /\ ~batch[b].expects
  /\ batch' = [batch EXCEPT ![b].expects = TRUE]
  /\ UNCHANGED <<paperOf, claims, made, sealed, events>>

\* Faulty: a promotion may start from any content.
ExtendsAny(C) == C # <<>>

\* A promotion rebuilds the current content or adds one change to it.
Extends(C) == C = Active \/ (C # <<>> /\ Front(C) = Active)

WasActive(b) == \E i \in DOMAIN events : events[i].build = b

\* activate_backend: the compare-and-swap of the pointer, after which nobody's
\* expected_event_id is the current one.
Activate(b, action) ==
  LET B == batch[b] IN
  /\ Len(events) < MaxEvents
  /\ B.build = "valid" /\ B.expects
  /\ action = "promote" => Extends(B.plan)
  /\ action = "rollback" => WasActive(b)
  /\ events' = Append(events, [content |-> B.plan, build |-> b, action |-> action])
  /\ batch' = [c \in DOMAIN batch |-> [batch[c] EXCEPT !.expects = FALSE]]
  /\ UNCHANGED <<paperOf, claims, made, sealed>>
-----------------------------------------------------------------------------
PNext ==
  \/ \E p \in Paper : Enqueue(p)
  \/ \E j \in Jobs : Expire(j)
  \/ SupersedePending
  \/ \E b \in Batch :
       \/ \E base \in sealed, J \in SUBSET Jobs : ClaimAndPlan(b, base, J)
       \/ Check(b) \/ AppendPartition(b) \/ SealContent(b) \/ Build(b) \/ Validate(b)
       \/ Interrupt(b) \/ FinishBatch(b) \/ RetryBatch(b)
  \/ \E b \in Batch \cup {Legacy} :
       \/ AcceptBuild(b)
       \/ \E action \in {"promote", "rollback"} : Activate(b, action)

PSpec == PInit /\ [][PNext]_pvars
-----------------------------------------------------------------------------
(* Properties. *)

\* Among all the claims of a job, retried, expired and superseding ones, only
\* the last one can be unfinished and unexpired, and only the last one can
\* have ended the job.
OneAnswer ==
  \A j \in Jobs : \A i \in DOMAIN claims[j] :
    \/ claims[j][i].live /\ claims[j][i].result = "none"
    \/ claims[j][i].result \in Terminal
    => i = Len(claims[j])

\* A paper never loses its last word: whatever was superseded, the paper has
\* a later publication that is waiting, at work or published.
LastWordKept ==
  \A j \in Jobs : \E k \in Jobs :
    /\ k >= j /\ paperOf[k] = paperOf[j]
    /\ \A i \in DOMAIN claims[k] : claims[k][i].result # "superseded"

\* A publication gets one answer, and the last word of its paper stays.
JobsAnswered == OneAnswer /\ LastWordKept

\* Whoever resumed, repeated or shared its construction, a content that was
\* ever active is sealed with all its partitions, and so is all it rests on.
ActiveIsWhole ==
  \A n \in DOMAIN events : \A i \in 0..Len(events[n].content) :
    LET C == SubSeq(events[n].content, 1, i) IN C \in sealed /\ made[C] = Parts

\* What was reported as published is still served, in this or in a later
\* publication, unless the operator rolled back since.
PublishedIsServed ==
  \A j \in Jobs : \A i \in DOMAIN claims[j] :
    /\ claims[j][i].result = "published"
    /\ \A n \in (claims[j][i].at + 1)..Len(events) : events[n].action = "promote"
    => Ver(Active, paperOf[j]) >= j

\* What was reported is served, and what is served is whole.
ServedIsWhole == ActiveIsWhole /\ PublishedIsServed

\* A promotion never takes a paper back to an older publication, whatever
\* other batches promoted since this one was planned.
ForwardOnly ==
  [][Len(events') > Len(events) /\ Last(events').action = "promote"
     => \A p \in Paper : Ver(Last(events').content, p) >= Ver(Active, p)]_pvars
=============================================================================
