--------------------------- MODULE ServicesProofs ---------------------------
(***************************************************************************)
(* What the services that MCServices runs on small instances guarantee for *)
(* every value of their constants.  They share no state: each section      *)
(* below is about one of them, and rests on nothing from another.          *)
(***************************************************************************)
EXTENDS ReleaseCache, CircuitBreaker, Quota, CatalogueCache, TimelineProjection,
        IndexGenerations, BlobStore, NativeRun, FiniteSumProofs, SequenceTheorems, TLAPS
-----------------------------------------------------------------------------
(* BlobStore: where a put stands decides what its object and its row are.  *)

PutRow == [pc : {"idle", "write", "rename", "syncdir", "insert"}, blob : Blob \cup {"none"},
           bytes : {"none", "cached", "whole"}]

\* A pending file is written before it is renamed; the bytes are on disk before
\* the name is, and the name before the row, unless the object was adopted.
PutOrder ==
  /\ ~PutAt("idle") => put.blob \in Blob
  /\ PutAt("rename") => put.bytes = "whole"
  /\ PutAt("syncdir") => object[put.blob] = "whole"
  /\ PutAt("insert") => put.blob \in adopted \/ (put.blob \in durable /\ object[put.blob] = "whole")
  /\ PutAt("write") \/ PutAt("rename") => pending > 0

SInv ==
  /\ rows \subseteq Blob /\ object \in [Blob -> {"none", "cached", "torn", "whole"}]
  /\ pending \in Nat /\ crashes \in Nat /\ put \in PutRow
  /\ PutOrder /\ ObjectsKept

LEMMA BlobInit == SInit => SInv
<1> SUFFICES ASSUME SInit PROVE SInv
  OBVIOUS
<1>1. put \in PutRow /\ put.pc = "idle"
  BY DEF SInit, NoPut, PutRow
<1> QED
  BY <1>1 DEF SInit, SInv, PutOrder, PutAt, ObjectsKept, NamedIsWhole, WrittenIsDurable, LeftByCrashOnly

LEMMA BlobStep == SInv /\ [SNext]_svars => SInv'
<1> SUFFICES ASSUME SInv, [SNext]_svars PROVE SInv'
  OBVIOUS
<1> USE DEF SInv, PutOrder, PutAt, ObjectsKept, NamedIsWhole, WrittenIsDurable, LeftByCrashOnly
<1>1. ASSUME NEW b \in Blob, OpenFile(b) PROVE SInv'
  <2>1. put' \in PutRow /\ put'.pc = "write" /\ put'.blob = b
    BY <1>1 DEF OpenFile, PutRow
  <2> QED
    BY <1>1, <2>1 DEF OpenFile
<1>2. ASSUME NEW b \in Blob, Adopt(b) PROVE SInv'
  <2>1. put' \in PutRow /\ put'.pc = "insert" /\ put'.blob = b
    BY <1>2 DEF Adopt, PutRow, Readable
  <2> QED
    BY <1>2, <2>1 DEF Adopt
<1>3. CASE SyncFile
  <2>1. put' \in PutRow /\ put'.pc = "rename" /\ put'.blob = put.blob /\ put'.bytes = "whole"
    BY <1>3 DEF SyncFile, PutRow
  <2> QED
    BY <1>3, <2>1 DEF SyncFile
<1>4. CASE Rename
  <2>1. put' \in PutRow /\ put'.pc = "syncdir" /\ put'.blob = put.blob /\ put.blob \in Blob
    BY <1>4 DEF Rename, PutRow
  <2>2. object' = [object EXCEPT ![put.blob] = "whole"] /\ pending' = pending - 1
    BY <1>4 DEF Rename
  <2>3. \A b \in Blob : object'[b] = IF b = put.blob THEN "whole" ELSE object[b]
    BY <2>1, <2>2
  <2> QED
    BY <1>4, <2>1, <2>2, <2>3 DEF Rename
<1>5. CASE SyncDirectory
  <2>1. put' \in PutRow /\ put'.pc = "insert" /\ put'.blob = put.blob /\ put.blob \in Blob
    BY <1>5 DEF SyncDirectory, PutRow
  <2> QED
    BY <1>5, <2>1 DEF SyncDirectory, Named
<1>6. CASE Insert
  <2>1. put' \in PutRow /\ put'.pc = "idle"
    BY <1>6 DEF Insert, PutRow, NoPut
  <2> QED
    BY <1>6, <2>1 DEF Insert
<1>7. CASE RaiseError
  <2>1. put' \in PutRow /\ put'.pc = "idle"
    BY <1>7 DEF RaiseError, Gone, PutRow, NoPut
  <2> QED
    BY <1>7, <2>1 DEF RaiseError, Gone
<1>8. CASE Kill
  <2>1. put' \in PutRow /\ put'.pc = "idle"
    BY <1>8 DEF Kill, Gone, PutRow, NoPut
  <2> QED
    BY <1>8, <2>1 DEF Kill, Gone
<1>9. CASE PowerLoss
  <2>1. put' \in PutRow /\ put'.pc = "idle"
    BY <1>9 DEF PowerLoss, Gone, PutRow, NoPut
  <2>2. \A b \in Blob : /\ object[b] \in {"none", "whole"}
                        /\ object'[b] \in {"none", object[b]}
                        /\ b \in durable => object'[b] = object[b] /\ b \in durable'
    BY <1>9 DEF PowerLoss, Named
  <2> QED
    BY <1>9, <2>1, <2>2 DEF PowerLoss, Gone
<1>10. ASSUME UNCHANGED svars PROVE SInv'
  BY <1>10 DEF svars
<1> QED
  BY <1>1, <1>2, <1>3, <1>4, <1>5, <1>6, <1>7, <1>8, <1>9, <1>10 DEF SNext, AnswerOnly

\* put_blob, interrupted anywhere by errors, kills and power losses: nothing
\* but whole objects under their names, rows that keep the objects they were
\* written for, and no more pending files than there were crashes.
THEOREM BlobObjectsKept == SSpec => []ObjectsKept
<1>1. SInv => ObjectsKept
  BY DEF SInv
<1> QED
  BY <1>1, BlobInit, BlobStep, PTL DEF SSpec
-----------------------------------------------------------------------------
(* IndexGenerations: the pointer's history.                                *)

EventRow == [key : IdemKey, gen : Generation \cup {"none"}, prev : Nat]
RequestRow == [gen : Generation \cup {"none"}, action : {"none", "promote", "rollback"}, expected : Nat]

GInv ==
  /\ events \in Seq(EventRow) /\ request \in [IdemKey -> RequestRow]
  /\ taken \in [by : {"v1", "v2"}, seen : Nat]
  /\ OneHistory

\* The event that ActivateGeneration appends.
NewEvent(k) == [key |-> k, gen |-> request[k].gen, prev |-> request[k].expected]

LEMMA GenerationsInit == GInit => GInv
<1> SUFFICES ASSUME GInit PROVE GInv
  OBVIOUS
<1>1. Unasked \in RequestRow
  BY DEF Unasked, RequestRow
<1>2. events = <<>> /\ taken = [by |-> "v1", seen |-> 0]
  BY DEF GInit
<1>3. events \in Seq(EventRow) /\ DOMAIN events = {} /\ taken.by = "v1"
  BY <1>2
<1> QED
  BY <1>1, <1>2, <1>3 DEF GInit, GInv, OneHistory, OneChain, OneAuthority

\* An activation extends the chain by the event its operator expected.
LEMMA ActivationExtends ==
  ASSUME GInv, NEW k \in IdemKey, ActivateGeneration(k)
  PROVE  /\ events' \in Seq(EventRow) /\ Len(events') = Len(events) + 1 /\ OneChain'
         /\ Last(events') = NewEvent(k) /\ Whole(request[k].gen) /\ Current(request[k].gen)
<1> DEFINE e == NewEvent(k)
<1>1. /\ events' = Append(events, e) /\ request[k].expected = Len(events) /\ ~Done(k)
      /\ Whole(request[k].gen) /\ Current(request[k].gen)
  BY DEF ActivateGeneration, Expected, NewEvent
<1>2. e \in EventRow /\ e.key = k /\ e.prev = Len(events)
  BY <1>1 DEF GInv, RequestRow, EventRow, NewEvent
<1> HIDE DEF e
<1>3. events \in Seq(EventRow) /\ OneChain
  BY DEF GInv, OneHistory
<1>4. /\ events' \in Seq(EventRow) /\ Len(events') = Len(events) + 1
      /\ DOMAIN events = 1..Len(events) /\ DOMAIN events' = 1..(Len(events) + 1)
      /\ events'[Len(events) + 1] = e /\ \A i \in DOMAIN events : events'[i] = events[i]
  BY <1>1, <1>2, <1>3
<1>5. \A i \in DOMAIN events : events[i].key # k
  BY <1>1 DEF Done
<1>6. Len(events) \in Nat
  BY <1>3
<1>7. OneChain'
  <2> SUFFICES ASSUME NEW i \in DOMAIN events'
               PROVE  /\ events'[i].prev = i - 1
                      /\ \A j \in DOMAIN events' : events'[i].key = events'[j].key => i = j
    BY DEF OneChain
  <2>1. \A j \in DOMAIN events' : j \in DOMAIN events \/ j = Len(events) + 1
    BY <1>4, <1>6
  <2>2. CASE i \in DOMAIN events
    BY <1>2, <1>3, <1>4, <1>5, <2>1, <2>2 DEF OneChain
  <2>3. CASE i = Len(events) + 1
    BY <1>2, <1>3, <1>4, <1>5, <1>6, <2>1, <2>3 DEF OneChain
  <2> QED
    BY <2>1, <2>2, <2>3
<1>8. Last(events') = e
  BY <1>4 DEF Last
<1> QED
  BY <1>1, <1>4, <1>7, <1>8 DEF e

LEMMA GenerationsStep == GInv /\ [GNext]_gvars => GInv'
<1> SUFFICES ASSUME GInv, [GNext]_gvars PROVE GInv'
  OBVIOUS
<1>1. /\ events \in Seq(EventRow) /\ request \in [IdemKey -> RequestRow]
      /\ taken \in [by : {"v1", "v2"}, seen : Nat] /\ OneChain /\ OneAuthority /\ Len(events) \in Nat
  BY DEF GInv, OneHistory
<1>2. ASSUME events' = events, request' \in [IdemKey -> RequestRow],
             taken' \in [by : {"v1", "v2"}, seen : Nat], OneAuthority'
      PROVE  GInv'
  BY <1>1, <1>2 DEF GInv, OneHistory, OneChain
<1>3. ASSUME events' = events, request' = request, taken' = taken PROVE GInv'
  BY <1>1, <1>2, <1>3 DEF OneAuthority
<1>4. ASSUME NEW p \in Paper, Revise(p) \/ HoldPaper(p) PROVE GInv'
  BY <1>3, <1>4 DEF Revise, HoldPaper
<1>5. ASSUME NEW g \in Generation,
             \/ RecordValidation(g) \/ GrowStale(g) \/ (\E P \in SUBSET Paper : StageGeneration(g, P))
             \/ (\E P \in SUBSET Paper \ {{}} : \E plan \in [P -> 0..MaxVersion] : CreateCorpus(g, plan))
             \/ (\E p \in Paper : StagePartition(g, p))
      PROVE  GInv'
  BY <1>3, <1>5 DEF RecordValidation, GrowStale, StageGeneration, CreateCorpus, StagePartition
<1>6. ASSUME NEW g \in Generation, NEW k \in IdemKey, NEW action \in {"promote", "rollback"}, Ask(k, g, action)
      PROVE  GInv'
  <2>1. [gen |-> g, action |-> action, expected |-> Len(events)] \in RequestRow
    BY <1>1 DEF RequestRow
  <2>2. request' \in [IdemKey -> RequestRow] /\ events' = events /\ taken' = taken
    BY <1>1, <1>6, <2>1 DEF Ask
  <2> QED
    BY <1>1, <1>2, <2>2 DEF OneAuthority
<1>7. ASSUME NEW k \in IdemKey, ActivateGeneration(k) PROVE GInv'
  <2>1. events' \in Seq(EventRow) /\ OneChain'
    BY <1>7, ActivationExtends
  <2>2. request' = request /\ taken' = taken /\ taken.by # "v2"
    BY <1>7 DEF ActivateGeneration, OpenToV1
  <2> QED
    BY <1>1, <2>1, <2>2 DEF GInv, OneHistory, OneAuthority
<1>8. CASE ReadPointer \/ TakeOver
  <2>1. /\ events' = events /\ request' = request /\ taken' \in [by : {"v1", "v2"}, seen : Nat]
        /\ taken'.by = "v2" => taken'.seen = Len(events)
    BY <1>1, <1>8 DEF ReadPointer, TakeOver
  <2> QED
    BY <1>1, <1>2, <2>1 DEF OneAuthority
<1>9. ASSUME UNCHANGED gvars PROVE GInv'
  BY <1>3, <1>9 DEF gvars
<1> QED
  BY <1>4, <1>5, <1>6, <1>7, <1>8, <1>9 DEF GNext

\* Activations form one chain, each key moving the pointer once and only from
\* the event its operator saw, and after the takeover the pointer rests.
THEOREM GenerationsOneHistory == GSpec => []OneHistory
<1>1. GInv => OneHistory
  BY DEF GInv
<1> QED
  BY <1>1, GenerationsInit, GenerationsStep, PTL DEF GSpec

\* The pointer moves only to a generation staged to the last partition, whose
\* papers are all current at the moment of the move and, unless it is a corpus,
\* not held.
THEOREM GenerationsActivateCurrent == GSpec => ActivatesCurrent
<1> DEFINE Move == Len(events') > Len(events) =>
                     LET g == Last(events').gen IN
                     /\ sealed[g] = DOMAIN members[g]
                     /\ \A p \in DOMAIN members[g] :
                          members[g][p] = source[p] /\ (g \in Corpus \/ p \notin held)
<1>1. GInv /\ [GNext]_gvars => [Move]_gvars
  <2> SUFFICES ASSUME GInv, [GNext]_gvars PROVE Move
    OBVIOUS
  <2>1. CASE events' = events
    <3>1. Len(events) \in Nat
      BY DEF GInv
    <3> QED
      BY <2>1, <3>1
  <2>2. ASSUME NEW k \in IdemKey, ActivateGeneration(k) PROVE Move
    <3>1. /\ Last(events').gen = request[k].gen
          /\ Whole(request[k].gen) /\ Current(request[k].gen)
      BY <2>2, ActivationExtends DEF NewEvent
    <3> QED
      BY <3>1 DEF Whole, Current
  <2> QED
    BY <2>1, <2>2 DEF GNext, gvars, Revise, HoldPaper, RecordValidation, GrowStale, StageGeneration,
                      CreateCorpus, StagePartition, Ask, ReadPointer, TakeOver
<1> QED
  BY <1>1, GenerationsInit, GenerationsStep, PTL DEF GSpec, ActivatesCurrent
-----------------------------------------------------------------------------
(* NativeRun: three processes that meet in the files of an attempt.        *)

RunRow ==
  [store : {"live", "ended", "answered"}, refused : BOOLEAN,
   guard : {"none", "check", "launched", "watch", "kill", "report", "dead"},
   reason : {"completed", "stopped"}, pipe : BOOLEAN, due : SUBSET {"lease", "wall"},
   solver : {"none", "running", "orphans", "exited", "killed"}, launches : Nat,
   process : BOOLEAN, result : {"none", "completed", "stopped"},
   final : Elapsed \cup {0}, made : BOOLEAN, bytes : Elapsed \cup {0}]

DiskRow == [attempt : 0..MaxAttempt, started : BOOLEAN, outbox : BOOLEAN, done : BOOLEAN]

Tree(r) == r.solver \in {"running", "orphans"}

\* One attempt: nothing is launched before its guardian runs, a guardian that
\* reports has ended the tree or seen it end, and a result is written only
\* when no guardian is left to launch or to record anything.
RunKept(r) ==
  /\ r \in RunRow /\ r.launches <= 1
  /\ r.guard \in {"none", "check"} => r.launches = 0 /\ r.solver = "none" /\ r.process = FALSE
  /\ r.guard = "kill" => r.reason = "stopped"
  /\ r.guard = "report" => ~Tree(r) /\ (r.reason = "completed" => r.solver = "exited")
  /\ r.result # "none" => r.guard \in {"none", "dead"} /\ (r.process = TRUE => ~Tree(r))
  /\ r.result = "completed" => r.solver = "exited"

\* No guardian was ever started and nothing was recorded.
Fresh(r) == r.guard = "none" /\ r.result = "none"

\* The worker: a guardian is started only for an attempt that never had one,
\* and a missing result is recorded only after the guardian is gone and the
\* tree it recorded is dead.
WorkerKept ==
  /\ disk \in DiskRow
  /\ disk.done = FALSE => Now \in Attempt
  /\ pc # "idle" => disk.done = FALSE /\ disk.started = TRUE
  /\ disk.outbox = TRUE => disk.started = TRUE
  /\ \A a \in Attempt : a > Now => Fresh(run[a])
  /\ disk.done = FALSE /\ disk.started = FALSE => Fresh(run[Now])
  /\ pc = "start" => Fresh(run[Now])
  /\ pc \in {"reap", "record"} => run[Now].guard \in {"none", "dead"}
  /\ pc = "record" => (run[Now].process = TRUE => ~Tree(run[Now]))

NInv == run \in [Attempt -> RunRow] /\ (\A a \in Attempt : RunKept(run[a])) /\ WorkerKept

LEMMA RunInit == NInit => NInv
<1> SUFFICES ASSUME NInit PROVE NInv
  OBVIOUS
<1>1. NoRun \in RunRow /\ RunKept(NoRun) /\ Fresh(NoRun)
  BY DEF NoRun, RunRow, RunKept, Tree, Fresh
<1>2. NoClaim \in DiskRow /\ NoClaim.done = TRUE /\ NoClaim.outbox = FALSE
  BY RunAssumption DEF NoClaim, DiskRow
<1>3. /\ run = [a \in Attempt |-> NoRun] /\ disk = NoClaim /\ pc = "idle"
  BY DEF NInit
<1> HIDE DEF NoRun, NoClaim
<1>4. \A a \in Attempt : run[a] = NoRun
  BY <1>3
<1>5. run \in [Attempt -> RunRow]
  BY <1>1, <1>3
<1>6. WorkerKept
  BY <1>1, <1>2, <1>3, <1>4 DEF WorkerKept
<1> QED
  BY <1>1, <1>4, <1>5, <1>6 DEF NInv

\* A step that changes one attempt's row r into q, and the claim not at all,
\* preserves the invariant if q is kept and keeps what the worker relies on.
LEMMA RowStep ==
  ASSUME NInv, NEW a \in Attempt, NEW q, Update(a, q), RunKept(q), disk' = disk,
         run[a].guard = "none" => q.guard = "none" /\ q.result = run[a].result,
         pc' = pc \/ pc' \notin {"start", "reap", "record"},
         pc' # "idle" => pc # "idle" \/ (disk.done = FALSE /\ disk.started = TRUE),
         run[a].guard = "dead" => q.guard = "dead",
         run[a].guard \in {"none", "dead"} /\ (run[a].process = TRUE => ~Tree(run[a])) =>
           (q.process = TRUE => ~Tree(q))
  PROVE  NInv'
<1>1. /\ run' \in [Attempt -> RunRow] /\ run'[a] = q /\ \A b \in Attempt : b # a => run'[b] = run[b]
  BY DEF NInv, Update, RunKept
<1>2. \A b \in Attempt : RunKept(run'[b])
  BY <1>1 DEF NInv
<1>3. \A b \in Attempt : Fresh(run[b]) => Fresh(run'[b])
  BY <1>1 DEF Fresh
<1>4. \A b \in Attempt : run[b].guard \in {"none", "dead"} => run'[b].guard \in {"none", "dead"}
  BY <1>1
<1>5. disk.done = FALSE => Now \in Attempt
  BY DEF NInv, WorkerKept
<1>6. WorkerKept'
  BY <1>1, <1>3, <1>4, <1>5 DEF NInv, WorkerKept, Now
<1> QED
  BY <1>1, <1>2, <1>6 DEF NInv

\* What guardian, solver and environment do to a row.
LEMMA GuardianSteps ==
  ASSUME NInv, NEW a \in Attempt,
         \/ GuardianStep(a) \/ GuardError(a) \/ KillTreeFails(a)
         \/ SolverExits(a) \/ StoreEnds(a) \/ LeaseDue(a) \/ WallEnds(a) \/ GuardianDies(a)
         \/ OperatorActs(a)
  PROVE  NInv'
<1> DEFINE r == run[a]
<1>1. RunKept(r) /\ r \in RunRow
  BY DEF NInv
<1> USE DEF GuardStep, Environment
<1>2. CASE Launch(a)
  <2> DEFINE n == r.launches + 1
             q == [r EXCEPT !.solver = "running", !.launches = n, !.guard = "launched"]
  <2>1. r.guard = "check" /\ Update(a, q) /\ disk' = disk /\ pc' = pc
    BY <1>2 DEF Launch
  <2>2. n = 1 /\ r.process = FALSE /\ r.result = "none"
    BY <1>1, <2>1 DEF RunKept
  <2> HIDE DEF n
  <2>3. /\ q \in RunRow /\ q.guard = "launched" /\ q.process = r.process /\ q.solver = "running"
        /\ q.launches = 1 /\ q.result = r.result
    BY <1>1, <2>2 DEF RunRow
  <2>4. RunKept(q)
    BY <2>2, <2>3 DEF RunKept, Tree
  <2> QED
    BY <2>1, <2>2, <2>3, <2>4, RowStep
<1>3. CASE Decline(a)
  <2> DEFINE q == [r EXCEPT !.reason = "stopped", !.guard = "report"]
  <2>1. r.guard = "check" /\ Update(a, q) /\ disk' = disk /\ pc' = pc
    BY <1>3 DEF Decline
  <2>2. RunKept(q) /\ (q.process = TRUE => ~Tree(q))
    BY <1>1, <2>1 DEF RunKept, RunRow, Tree
  <2> QED
    BY <2>1, <2>2, RowStep
<1>4. CASE RecordProcess(a)
  <2> DEFINE q == [r EXCEPT !.process = TRUE, !.guard = "watch"]
  <2>1. r.guard = "launched" /\ Update(a, q) /\ disk' = disk /\ pc' = pc
    BY <1>4 DEF RecordProcess
  <2>2. RunKept(q)
    BY <1>1, <2>1 DEF RunKept, RunRow, Tree
  <2> QED
    BY <2>1, <2>2, RowStep
<1>5. ASSUME r.guard \in {"launched", "watch"}, disk' = disk, pc' = pc,
             Update(a, [r EXCEPT !.reason = "stopped", !.guard = "kill"])
      PROVE  NInv'
  <2> DEFINE q == [r EXCEPT !.reason = "stopped", !.guard = "kill"]
  <2>1. RunKept(q)
    BY <1>1, <1>5 DEF RunKept, RunRow, Tree
  <2> QED
    BY <1>5, <2>1, RowStep
<1>6. CASE Stop(a)
  BY <1>5, <1>6 DEF Stop, StopReason
<1>7. CASE SeeExit(a)
  <2>1. CASE r.solver = "exited" /\ GuardStep(a, "watch", [r EXCEPT !.guard = "report"])
    <3> DEFINE q == [r EXCEPT !.guard = "report"]
    <3>1. r.guard = "watch" /\ Update(a, q) /\ disk' = disk /\ pc' = pc
      BY <2>1
    <3>2. RunKept(q)
      BY <1>1, <2>1, <3>1 DEF RunKept, RunRow, Tree
    <3> QED
      BY <3>1, <3>2, RowStep
  <2>2. CASE r.solver = "orphans" /\ GuardStep(a, "watch", [r EXCEPT !.reason = "stopped", !.guard = "kill"])
    BY <1>5, <2>2
  <2> QED
    BY <1>7, <2>1, <2>2 DEF SeeExit
<1>8. CASE KillTree(a)
  <2> DEFINE q == [r EXCEPT !.solver = Killed(@), !.guard = "report"]
  <2>1. r.guard = "kill" /\ Update(a, q) /\ disk' = disk /\ pc' = pc
    BY <1>8 DEF KillTree
  <2>2. RunKept(q)
    BY <1>1, <2>1 DEF RunKept, RunRow, Tree, Killed
  <2> QED
    BY <2>1, <2>2, RowStep
<1>9. CASE Report(a)
  <2> DEFINE q == [r EXCEPT !.result = r.reason, !.guard = "dead"]
  <2>1. r.guard = "report" /\ Update(a, q) /\ disk' = disk /\ pc' = pc
    BY <1>9 DEF Report
  <2>2. RunKept(q)
    BY <1>1, <2>1 DEF RunKept, RunRow, Tree
  <2> QED
    BY <2>1, <2>2, RowStep
<1>10. CASE GuardError(a)
  BY <1>5, <1>10 DEF GuardError
<1>11. CASE KillTreeFails(a)
  <2>1. PICK s \in {r.solver, Killed(r.solver)} : Update(a, [r EXCEPT !.solver = s, !.guard = "dead"])
    BY <1>11 DEF KillTreeFails
  <2> DEFINE q == [r EXCEPT !.solver = s, !.guard = "dead"]
  <2>2. r.guard = "kill" /\ Update(a, q) /\ disk' = disk /\ pc' = pc
    BY <1>11, <2>1 DEF KillTreeFails
  <2>3. s \in {"none", "running", "orphans", "exited", "killed"} /\ (r.solver = "exited" => s = "exited")
    BY <1>1 DEF RunRow, Killed
  <2>4. RunKept(q)
    BY <1>1, <2>2, <2>3 DEF RunKept, RunRow, Tree
  <2> QED
    BY <2>2, <2>4, RowStep
<1>12. CASE SolverExits(a)
  <2>1. PICK s \in {"exited", "orphans"} :
          /\ Tree(r) /\ Update(a, [r EXCEPT !.solver = s]) /\ disk' = disk /\ pc' = pc
          /\ s = "orphans" => r.solver = "running"
    BY <1>12 DEF SolverExits, Running, Tree
  <2> DEFINE q == [r EXCEPT !.solver = s]
  <2>2. RunKept(q) /\ q.guard = r.guard /\ q.process = r.process /\ q.result = r.result
    BY <1>1, <2>1 DEF RunKept, RunRow, Tree
  <2> HIDE DEF q
  <2> QED
    BY <2>1, <2>2, RowStep DEF q
<1>13. CASE StoreEnds(a) \/ LeaseDue(a) \/ WallEnds(a)
  <2>1. PICK s \in {"live", "ended", "answered"} : \E d \in SUBSET {"lease", "wall"} :
          Update(a, [r EXCEPT !.store = s, !.due = d])
    <3>1. CASE StoreEnds(a)
      <4>1. Update(a, [r EXCEPT !.store = "ended", !.due = r.due])
        BY <1>1, <3>1 DEF StoreEnds, Update, RunRow
      <4> QED
        BY <1>1, <4>1 DEF RunRow
    <3>2. CASE LeaseDue(a)
      <4>1. Update(a, [r EXCEPT !.store = r.store, !.due = r.due \cup {"lease"}])
        BY <1>1, <3>2 DEF LeaseDue, Update, RunRow
      <4> QED
        BY <1>1, <4>1 DEF RunRow
    <3>3. CASE WallEnds(a)
      <4>1. Update(a, [r EXCEPT !.store = r.store, !.due = r.due \cup {"wall"}])
        BY <1>1, <3>3 DEF WallEnds, Update, RunRow
      <4> QED
        BY <1>1, <4>1 DEF RunRow
    <3> QED
      BY <1>13, <3>1, <3>2, <3>3
  <2>2. PICK d \in SUBSET {"lease", "wall"} : Update(a, [r EXCEPT !.store = s, !.due = d])
    BY <2>1
  <2> DEFINE q == [r EXCEPT !.store = s, !.due = d]
  <2>3. disk' = disk /\ pc' = pc
    BY <1>13 DEF StoreEnds, LeaseDue, WallEnds
  <2>4. /\ q \in RunRow /\ q.guard = r.guard /\ q.process = r.process /\ q.solver = r.solver
        /\ q.launches = r.launches /\ q.reason = r.reason /\ q.result = r.result
    BY <1>1 DEF RunRow
  <2> HIDE DEF q
  <2>5. RunKept(q)
    BY <1>1, <2>4 DEF RunKept, Tree
  <2> QED
    BY <2>2, <2>3, <2>4, <2>5, RowStep DEF Tree, q
<1>14. CASE GuardianDies(a)
  <2> DEFINE q == [r EXCEPT !.guard = "dead"]
  <2>1. r.guard \notin {"none", "dead"} /\ Update(a, q) /\ disk' = disk /\ pc' = pc
    BY <1>14 DEF GuardianDies, Dead
  <2>2. RunKept(q)
    BY <1>1, <2>1 DEF RunKept, RunRow, Tree
  <2> QED
    BY <2>1, <2>2, RowStep
<1>15. CASE OperatorActs(a)
  <2> DEFINE q == [r EXCEPT !.refused = FALSE]
  <2>1. Update(a, q) /\ disk' = disk /\ pc' = pc
    BY <1>15 DEF OperatorActs
  <2>2. /\ q \in RunRow /\ q.guard = r.guard /\ q.process = r.process /\ q.solver = r.solver
        /\ q.launches = r.launches /\ q.reason = r.reason /\ q.result = r.result
    BY <1>1 DEF RunRow
  <2> HIDE DEF q
  <2>3. RunKept(q)
    BY <1>1, <2>2 DEF RunKept, Tree
  <2> QED
    BY <2>1, <2>2, <2>3, RowStep DEF Tree
<1> QED
  BY <1>2, <1>3, <1>4, <1>6, <1>7, <1>8, <1>9, <1>10, <1>11, <1>12, <1>13, <1>14, <1>15 DEF GuardianStep

\* A step of the worker that changes its program counter only.
LEMMA PcStep ==
  ASSUME NInv, run' = run, disk' = disk,
         pc' # "idle" => pc # "idle" \/ (disk.done = FALSE /\ disk.started = TRUE),
         pc' = pc \/ pc' \notin {"start", "reap", "record"}
           \/ (pc' = "reap" /\ run[Now].guard \in {"none", "dead"})
  PROVE  NInv'
<1>1. WorkerKept'
  BY DEF NInv, WorkerKept, Now
<1> QED
  BY <1>1 DEF NInv

\* A step of the worker that changes the row of its attempt.
LEMMA MineStep ==
  ASSUME NInv, NEW q, Update(Now, q), disk' = disk, RunKept(q), disk.done = FALSE, disk.started = TRUE,
         pc' \notin {"start", "reap"},
         pc' = "record" => q.guard \in {"none", "dead"} /\ (q.process = TRUE => ~Tree(q))
  PROVE  NInv'
<1>1. Now \in Attempt /\ Now' = Now
  BY DEF NInv, WorkerKept, Now
<1>2. run' \in [Attempt -> RunRow] /\ run'[Now] = q /\ \A b \in Attempt : b # Now => run'[b] = run[b]
  BY <1>1 DEF NInv, Update, RunKept
<1>3. \A b \in Attempt : b > Now => b # Now
  BY <1>1 DEF Attempt
<1>4. WorkerKept'
  BY <1>1, <1>2, <1>3 DEF NInv, WorkerKept
<1> QED
  BY <1>2, <1>4 DEF NInv

LEMMA WorkerSteps ==
  ASSUME NInv, WorkerStep \/ Beat \/ ReapFails \/ WorkerDies
  PROVE  NInv'
<1> DEFINE r == run[Now]
<1>1. /\ run \in [Attempt -> RunRow] /\ disk \in DiskRow
      /\ disk.done = FALSE => Now \in Attempt /\ RunKept(r) /\ r \in RunRow
      /\ pc # "idle" => disk.done = FALSE /\ disk.started = TRUE
  BY DEF NInv, WorkerKept
<1>2. disk.done \in BOOLEAN /\ disk.started \in BOOLEAN /\ disk.outbox \in BOOLEAN
  BY <1>1 DEF DiskRow
<1> USE DEF Goto, Mine
<1>3. CASE Claim
  <2>1. CASE Now < MaxAttempt
    <3> DEFINE n == Now + 1
    <3>1. n \in Attempt /\ n \in 0..MaxAttempt /\ n > Now
      BY <1>1, <2>1, RunAssumption DEF DiskRow, Now, Attempt
    <3>2. disk' = [NoClaim EXCEPT !.attempt = n, !.done = FALSE] /\ run' = run /\ pc' = "idle"
      BY <1>3, <2>1 DEF Claim
    <3> HIDE DEF n
    <3>3. /\ disk' \in DiskRow /\ disk'.attempt = n /\ disk'.done = FALSE /\ disk'.started = FALSE
          /\ disk'.outbox = FALSE
      BY <3>1, <3>2 DEF NoClaim, DiskRow
    <3>4. Fresh(run[n]) /\ \A a \in Attempt : a > n => Fresh(run[a])
      <4>1. \A a \in Attempt : a > n => a > Now
        BY <1>1, <3>1 DEF DiskRow, Now, Attempt
      <4> QED
        BY <3>1, <4>1 DEF NInv, WorkerKept
    <3>5. WorkerKept'
      BY <3>1, <3>2, <3>3, <3>4 DEF WorkerKept, Now
    <3> QED
      BY <3>2, <3>5 DEF NInv
  <2>2. CASE ~(Now < MaxAttempt)
    BY <1>3, <2>2, PcStep DEF Claim
  <2> QED
    BY <2>1, <2>2
<1>4. CASE Resume
  <2>1. disk.done = FALSE /\ disk.started = TRUE
    BY <1>2, <1>4 DEF Resume
  <2> QED
    BY <1>4, <2>1, PcStep DEF Resume
<1>5. CASE Prepare
  <2>1. disk.done = FALSE /\ disk.outbox = FALSE /\ disk.started = FALSE /\ pc = "idle" /\ run' = run
    BY <1>2, <1>5 DEF Prepare
  <2>2. Fresh(r)
    BY <2>1 DEF NInv, WorkerKept
  <2>3. CASE r.store = "live"
    <3>1. disk' = [disk EXCEPT !.started = TRUE] /\ pc' = "start"
      BY <1>5, <2>3 DEF Prepare
    <3>2. /\ disk' \in DiskRow /\ disk'.attempt = disk.attempt /\ disk'.done = FALSE
          /\ disk'.started = TRUE
      BY <1>1, <2>1, <3>1 DEF DiskRow
    <3>3. WorkerKept'
      BY <2>1, <2>2, <3>1, <3>2 DEF NInv, WorkerKept, Now
    <3> QED
      BY <2>1, <3>3 DEF NInv
  <2>4. CASE r.store # "live"
    <3>1. disk' = [disk EXCEPT !.done = TRUE] /\ pc' = "idle"
      BY <1>5, <2>1, <2>4 DEF Prepare
    <3>2. /\ disk' \in DiskRow /\ disk'.attempt = disk.attempt /\ disk'.done = TRUE
          /\ disk'.started = disk.started /\ disk'.outbox = disk.outbox
      BY <1>1, <3>1 DEF DiskRow
    <3>3. WorkerKept'
      BY <2>1, <3>1, <3>2 DEF NInv, WorkerKept, Now
    <3> QED
      BY <2>1, <3>3 DEF NInv
  <2> QED
    BY <2>3, <2>4
<1>7. CASE StartGuardian
  <2> DEFINE q == [r EXCEPT !.guard = "check", !.pipe = TRUE]
  <2>1. pc = "start" /\ Update(Now, q) /\ disk' = disk /\ pc' = "watch"
    BY <1>7 DEF StartGuardian
  <2>2. Fresh(r)
    BY <2>1 DEF NInv, WorkerKept
  <2>3. RunKept(q)
    BY <1>1, <2>1, <2>2 DEF RunKept, RunRow, Tree, Fresh
  <2> HIDE DEF q
  <2> QED
    BY <1>1, <2>1, <2>3, MineStep
<1>8. CASE Beat
  <2> DEFINE q == [r EXCEPT !.due = @ \ {"lease"}]
  <2>1. pc = "watch" /\ Update(Now, q) /\ disk' = disk /\ pc' = "watch"
    BY <1>8 DEF Beat
  <2>2. RunKept(q)
    BY <1>1, <2>1 DEF RunKept, RunRow, Tree
  <2> HIDE DEF q
  <2> QED
    BY <1>1, <2>1, <2>2, MineStep
<1>9. CASE StopRunning \/ SeeGuardianEnd \/ ReapFails \/ FindReturn
  <2>1. run' = run /\ disk' = disk /\ pc # "idle" /\ pc' \in {"close", "idle", "outbox"}
    BY <1>9 DEF StopRunning, SeeGuardianEnd, ReapFails, FindReturn
  <2> QED
    BY <2>1, PcStep
<1>10. CASE ClosePipe \/ WorkerDies
  <2> DEFINE q == [r EXCEPT !.pipe = FALSE]
  <2>1. pc # "idle" /\ Update(Now, q) /\ disk' = disk /\ pc' \in {"wait", "idle"}
    BY <1>10 DEF ClosePipe, WorkerDies
  <2>2. RunKept(q)
    <3>1. RunKept(r) /\ r \in RunRow
      BY <1>1, <2>1
    <3>2. /\ q \in RunRow /\ q.guard = r.guard /\ q.process = r.process /\ q.solver = r.solver
          /\ q.launches = r.launches /\ q.reason = r.reason /\ q.result = r.result
      BY <3>1 DEF RunRow
    <3> HIDE DEF q
    <3> QED
      BY <3>1, <3>2 DEF RunKept, Tree
  <2> HIDE DEF q
  <2> QED
    BY <1>1, <2>1, <2>2, MineStep
<1>11. CASE KillGuardian
  <2> DEFINE q == [r EXCEPT !.guard = "dead"]
  <2>1. pc = "wait" /\ Update(Now, q) /\ disk' = disk /\ pc' = "wait" /\ r.guard \notin {"none", "dead"}
    BY <1>11 DEF KillGuardian, Dead
  <2>2. RunKept(q)
    BY <1>1, <2>1 DEF RunKept, RunRow, Tree
  <2> HIDE DEF q
  <2> QED
    BY <1>1, <2>1, <2>2, MineStep
<1>12. CASE GuardianGone
  BY <1>12, PcStep DEF GuardianGone, Dead
<1>13. CASE Reap
  <2>1. pc = "reap" /\ disk' = disk /\ pc' = "record" /\ r.guard \in {"none", "dead"}
    BY <1>13 DEF Reap, NInv, WorkerKept
  <2>2. r.process \in BOOLEAN
    BY <1>1, <2>1 DEF RunRow
  <2>3. CASE r.process = TRUE
    <3> DEFINE q == [r EXCEPT !.solver = Killed(@)]
    <3>1. Update(Now, q)
      BY <1>13, <2>3 DEF Reap
    <3>2. RunKept(q) /\ q.guard = r.guard /\ ~Tree(q)
      BY <1>1, <2>1 DEF RunKept, RunRow, Tree, Killed
    <3> HIDE DEF q
    <3> QED
      BY <1>1, <2>1, <3>1, <3>2, MineStep
  <2>4. CASE r.process = FALSE
    <3>1. Update(Now, r)
      BY <1>13, <2>4 DEF Reap
    <3> QED
      BY <1>1, <2>1, <2>4, <3>1, MineStep
  <2> QED
    BY <2>2, <2>3, <2>4
<1>14. CASE Record
  <2> DEFINE q == [r EXCEPT !.result = "stopped"]
  <2>1. pc = "record" /\ Update(Now, q) /\ disk' = disk /\ pc' = "freeze"
    BY <1>14 DEF Record
  <2>2. r.guard \in {"none", "dead"} /\ (r.process = TRUE => ~Tree(r))
    BY <2>1 DEF NInv, WorkerKept
  <2>3. RunKept(q)
    BY <1>1, <2>1, <2>2 DEF RunKept, RunRow, Tree
  <2> HIDE DEF q
  <2> QED
    BY <1>1, <2>1, <2>3, MineStep
<1>15. ASSUME NEW e \in Elapsed, Freeze(e) PROVE NInv'
  <2> DEFINE q == [r EXCEPT !.final = e]
  <2>1. pc = "freeze" /\ (Update(Now, q) \/ Update(Now, r)) /\ disk' = disk /\ pc' = "write"
    BY <1>15 DEF Freeze
  <2>2. RunKept(q)
    BY <1>1, <2>1 DEF RunKept, RunRow, Tree
  <2> HIDE DEF q
  <2> QED
    BY <1>1, <2>1, <2>2, MineStep
<1>16. CASE CreateReturn
  <2> DEFINE q == [r EXCEPT !.made = TRUE]
  <2>1. pc = "write" /\ Update(Now, q) /\ disk' = disk /\ pc' = "fill"
    BY <1>16 DEF CreateReturn
  <2>2. RunKept(q)
    BY <1>1, <2>1 DEF RunKept, RunRow, Tree
  <2> HIDE DEF q
  <2> QED
    BY <1>1, <2>1, <2>2, MineStep
<1>17. CASE FillReturn
  <2> DEFINE q == [r EXCEPT !.bytes = r.final]
  <2>1. pc = "fill" /\ Update(Now, q) /\ disk' = disk /\ pc' = "outbox"
    BY <1>17 DEF FillReturn
  <2>2. RunKept(q)
    BY <1>1, <2>1 DEF RunKept, RunRow, Tree
  <2> HIDE DEF q
  <2> QED
    BY <1>1, <2>1, <2>2, MineStep
<1>18. CASE SaveOutbox \/ Acknowledge
  <2>1. /\ pc # "idle" /\ run' = run /\ pc' = "idle"
        /\ disk' = [disk EXCEPT !.outbox = TRUE] \/ disk' = [disk EXCEPT !.done = TRUE]
    BY <1>18 DEF SaveOutbox, Acknowledge
  <2>2. /\ disk' \in DiskRow /\ disk'.attempt = disk.attempt /\ disk'.started = TRUE
        /\ disk'.done \in {disk.done, TRUE}
    BY <1>1, <2>1 DEF DiskRow
  <2>3. WorkerKept'
    BY <1>1, <2>1, <2>2 DEF NInv, WorkerKept, Now
  <2> QED
    BY <2>1, <2>3 DEF NInv
<1>19. CASE Send
  <2> DEFINE q == [r EXCEPT !.store = "answered"]
  <2>1. /\ disk.done = FALSE /\ disk.outbox = TRUE /\ Update(Now, q) /\ disk' = disk
        /\ pc' \in {"ack", "idle"}
    BY <1>2, <1>19 DEF Send
  <2>2. disk.started = TRUE
    BY <2>1 DEF NInv, WorkerKept
  <2>3. RunKept(q)
    BY <1>1, <2>1 DEF RunKept, RunRow, Tree
  <2> HIDE DEF q
  <2> QED
    BY <2>1, <2>2, <2>3, MineStep
<1>20. CASE SendRefused
  <2> DEFINE q == [r EXCEPT !.refused = TRUE]
  <2>1. /\ disk.done = FALSE /\ disk.outbox = TRUE /\ Update(Now, q) /\ disk' = disk
        /\ pc' = "idle"
    BY <1>2, <1>20 DEF SendRefused
  <2>2. disk.started = TRUE
    BY <2>1 DEF NInv, WorkerKept
  <2>3. RunKept(q)
    BY <1>1, <2>1 DEF RunKept, RunRow, Tree
  <2> HIDE DEF q
  <2> QED
    BY <2>1, <2>2, <2>3, MineStep
<1> QED
  BY <1>3, <1>4, <1>5, <1>7, <1>8, <1>9, <1>10, <1>11, <1>12, <1>13, <1>14, <1>15, <1>16, <1>17,
     <1>18, <1>19, <1>20 DEF WorkerStep

\* A native run, whichever of its three processes die: the solver is launched
\* at most once, an attempt with a result has no recorded process running, and
\* only a solver that ended by itself is archived as completed.
THEOREM RunStaysRecorded == NSpec => []RunRecorded
<1>1. NInv /\ [NNext]_nvars => NInv'
  <2> SUFFICES ASSUME NInv, [NNext]_nvars PROVE NInv'
    OBVIOUS
  <2>1. ASSUME UNCHANGED nvars PROVE NInv'
    BY <2>1 DEF nvars, NInv, WorkerKept, Now
  <2> QED
    BY <2>1, GuardianSteps, WorkerSteps DEF NNext
<1>2. NInv => RunRecorded
  <2> SUFFICES ASSUME NInv, NEW a \in Attempt
               PROVE  /\ run[a].launches <= 1
                      /\ run[a].result # "none" /\ run[a].process => ~Running(a)
                      /\ run[a].result = "completed" => run[a].solver = "exited"
    BY DEF RunRecorded, LaunchedOnce, RecordedIsStopped, HonestResult
  <2>1. run[a].process \in BOOLEAN
    BY DEF NInv, RunRow
  <2> QED
    BY <2>1 DEF NInv, RunKept, Tree, Running
<1> QED
  BY <1>1, <1>2, RunInit, PTL DEF NSpec
-----------------------------------------------------------------------------
(* Quota: a key lives to the end of its day.                               *)

DayStart(d) == d * Day

\* Days and the ticks they begin at.
LEMMA DayBounds ==
  /\ \A c \in Nat : c \div Day \in Nat /\ DayStart(c \div Day) <= c /\ c < DayStart(c \div Day) + Day
  /\ \A d \in Nat : DayStart(d) \in Nat
  /\ \A d, e \in Nat : d < e => DayStart(d) + Day <= DayStart(e)
<1>1. \A c \in Nat : c \div Day \in Nat
  BY QuotaAssumption
<1>2. \A c \in Nat : DayStart(c \div Day) <= c /\ c < DayStart(c \div Day) + Day
  BY QuotaAssumption DEF DayStart
<1>3. \A d \in Nat : DayStart(d) \in Nat /\ DayStart(d + 1) = DayStart(d) + Day
  BY QuotaAssumption DEF DayStart
<1>4. \A d, e \in Nat : d <= e => DayStart(d) <= DayStart(e)
  BY QuotaAssumption DEF DayStart
<1>5. \A d, e \in Nat : d < e => DayStart(d) + Day <= DayStart(e)
  <2> TAKE d, e \in Nat
  <2> HAVE d < e
  <2>1. d + 1 <= e /\ d + 1 \in Nat
    OBVIOUS
  <2> QED
    BY <1>3, <1>4, <2>1
<1> QED
  BY <1>1, <1>2, <1>3, <1>5

\* The day of a later tick is not an earlier day.
LEMMA DayMonotone ==
  ASSUME NEW b \in Nat, NEW c \in Nat, b <= c
  PROVE  b \div Day <= c \div Day
<1> DEFINE d == b \div Day
           e == c \div Day
<1>1. /\ d \in Nat /\ e \in Nat /\ DayStart(d) <= b /\ c < DayStart(e) + Day
      /\ DayStart(d) \in Nat /\ DayStart(e) \in Nat
  BY DayBounds
<1> HIDE DEF d, e
<1>2. ASSUME e < d PROVE FALSE
  <2>1. DayStart(e) + Day <= DayStart(d)
    BY <1>1, <1>2, DayBounds
  <2> QED
    BY <1>1, <2>1, QuotaAssumption
<1>3. d <= e
  BY <1>1, <1>2
<1> QED
  BY <1>3 DEF d, e

\* One key, of day d, at the time c with today's day t: either it is not born
\* yet or it lives past its day, and until its day is over every request it
\* admitted is counted in it.
KeyKept(key, admitted, limit, d, t) ==
  /\ key \in [used : Nat, expires : Nat] /\ admitted \in Nat /\ admitted <= limit
  /\ key.expires >= DayStart(d) + Day \/ (key.expires = 0 /\ key.used = 0)
  /\ t <= d => admitted <= key.used

QuotaInv ==
  /\ clock \in Nat /\ clock <= LastTick
  /\ counter \in [Who -> [Days -> [used : Nat, expires : Nat]]]
  /\ flight \in [Who -> [Days -> Nat]] /\ served \in [Who -> [Days -> Nat]]
  /\ \A w \in Who, d \in Days : flight[w][d] > 0 => d <= Today
  /\ \A w \in Who, d \in Days : KeyKept(counter[w][d], served[w][d], Limit[w], d, Today)

LEMMA DaysNat == Days \subseteq Nat
BY DayBounds, QuotaAssumption DEF Days

LEMMA TodayInDays == QuotaInv => Today \in Days /\ Today \in Nat
<1> SUFFICES ASSUME QuotaInv PROVE Today \in Days /\ Today \in Nat
  OBVIOUS
<1>1. clock \div Day <= LastTick \div Day /\ clock \div Day \in Nat /\ LastTick \div Day \in Nat
  BY DayMonotone, DayBounds, QuotaAssumption DEF QuotaInv
<1> QED
  BY <1>1 DEF Today, Days

LEMMA QuotaInit == QInit => QuotaInv
<1> SUFFICES ASSUME QInit PROVE QuotaInv
  OBVIOUS
<1>1. Absent \in [used : Nat, expires : Nat] /\ Absent.used = 0 /\ Absent.expires = 0
  BY DEF Absent
<1> HIDE DEF Absent
<1>2. /\ counter = [w \in Who |-> [d \in Days |-> Absent]]
      /\ flight = [w \in Who |-> [d \in Days |-> 0]] /\ served = flight /\ clock = 0
  BY DEF QInit
<1>3. \A w \in Who, d \in Days : counter[w][d] = Absent /\ flight[w][d] = 0 /\ served[w][d] = 0
  BY <1>2
<1>4. \A w \in Who : Limit[w] \in Nat
  BY QuotaAssumption
<1>5. \A w \in Who, d \in Days : KeyKept(counter[w][d], served[w][d], Limit[w], d, Today)
  BY <1>1, <1>3, <1>4 DEF KeyKept
<1>6. /\ counter \in [Who -> [Days -> [used : Nat, expires : Nat]]]
      /\ flight \in [Who -> [Days -> Nat]] /\ served \in [Who -> [Days -> Nat]]
  BY <1>1, <1>2
<1> QED
  BY <1>2, <1>3, <1>5, <1>6, QuotaAssumption DEF QuotaInv

\* The pipeline of a request: the count of a live key, or a new key that will
\* live past the day it is for, since no request is for a day to come.
LEMMA ConsumeKept ==
  ASSUME QuotaInv, NEW w \in Who, NEW d \in Days, NEW answered \in BOOLEAN, Consume(w, d, answered)
  PROVE  KeyKept(counter'[w][d], served'[w][d], Limit[w], d, Today)
<1> DEFINE key == counter[w][d]
           new == Incremented(w, d)
           n == served[w][d]
           t == Today
<1>1. /\ key \in [used : Nat, expires : Nat] /\ n \in Nat /\ n <= Limit[w] /\ Limit[w] \in Nat
      /\ key.expires >= DayStart(d) + Day \/ (key.expires = 0 /\ key.used = 0)
      /\ t <= d => n <= key.used
      /\ clock \in Nat /\ d \in Nat /\ t \in Nat /\ Day \in Nat
  BY QuotaAssumption, DaysNat, TodayInDays DEF QuotaInv, KeyKept
<1>2. d <= t
  BY DEF QuotaInv, Consume
<1>3. DayStart(d) <= clock /\ clock < DayStart(t) + Day /\ DayStart(d) \in Nat
  <2>1. DayStart(t) <= clock /\ clock < DayStart(t) + Day /\ DayStart(t) \in Nat /\ DayStart(d) \in Nat
    BY <1>1, DayBounds DEF Today
  <2>2. DayStart(d) <= DayStart(t)
    <3>1. CASE d = t
      BY <2>1, <3>1
    <3>2. CASE d < t
      <4>1. DayStart(d) + Day <= DayStart(t)
        BY <1>1, <3>2, DayBounds
      <4> QED
        BY <1>1, <2>1, <4>1
    <3> QED
      BY <1>1, <1>2, <3>1, <3>2
  <2> QED
    BY <1>1, <2>1, <2>2
<1> HIDE DEF t
<1>4. /\ new \in [used : Nat, expires : Nat] /\ new.expires >= DayStart(d) + Day
      /\ t <= d => n + 1 <= new.used
  <2>1. CASE key.expires > clock
    <3>1. new = [key EXCEPT !.used = key.used + 1]
      BY <2>1 DEF Incremented, Alive
    <3>2. new \in [used : Nat, expires : Nat] /\ new.used = key.used + 1 /\ new.expires = key.expires
      BY <1>1, <3>1
    <3> HIDE DEF new
    <3> QED
      BY <1>1, <1>3, <2>1, <3>2
  <2>2. CASE ~(key.expires > clock)
    <3>1. new = [used |-> 1, expires |-> clock + Day]
      BY <2>2 DEF Incremented, Alive, Ttl
    <3>2. new \in [used : Nat, expires : Nat] /\ new.used = 1 /\ new.expires = clock + Day
      BY <1>1, <3>1
    <3>3. t <= d => n = 0
      <4>1. t <= d => t = d
        BY <1>1, <1>2
      <4> QED
        BY <1>1, <1>3, <2>2, <4>1
    <3> HIDE DEF new
    <3> QED
      BY <1>1, <1>3, <3>2, <3>3
  <2> QED
    BY <2>1, <2>2
<1>5. counter'[w][d] = new
  BY DEF Consume, QuotaInv
<1>6. \/ served'[w][d] = n
      \/ served'[w][d] = n + 1 /\ Limit[w] >= new.used /\ d = t
  <2>1. served' = [served EXCEPT ![w][d] = @ + (IF answered /\ Limit[w] >= counter'[w][d].used /\ d = Today
                                                 THEN 1 ELSE 0)]
    BY DEF Consume
  <2>2. served'[w][d] = n + (IF answered /\ Limit[w] >= counter'[w][d].used /\ d = Today THEN 1 ELSE 0)
    BY <2>1 DEF QuotaInv
  <2> HIDE DEF new, n
  <2>3. CASE answered /\ Limit[w] >= counter'[w][d].used /\ d = Today
    BY <1>1, <1>5, <2>2, <2>3 DEF t
  <2>4. CASE ~(answered /\ Limit[w] >= counter'[w][d].used /\ d = Today)
    BY <1>1, <2>2, <2>4
  <2> QED
    BY <2>3, <2>4
<1> HIDE DEF new, n
<1>7. KeyKept(new, served'[w][d], Limit[w], d, t)
  <2>1. CASE served'[w][d] = n
    BY <1>1, <1>4, <2>1 DEF KeyKept
  <2>2. CASE served'[w][d] = n + 1 /\ Limit[w] >= new.used /\ d = t
    <3>1. n + 1 <= new.used /\ new.used \in Nat
      BY <1>1, <1>4, <2>2
    <3> QED
      BY <1>1, <1>4, <2>2, <3>1 DEF KeyKept
  <2> QED
    BY <1>6, <2>1, <2>2
<1> QED
  BY <1>5, <1>7 DEF t

LEMMA QuotaStep == QuotaInv /\ [QNext]_qvars => QuotaInv'
<1> SUFFICES ASSUME QuotaInv, [QNext]_qvars PROVE QuotaInv'
  OBVIOUS
<1>1. /\ Today \in Days /\ Today \in Nat
      /\ counter \in [Who -> [Days -> [used : Nat, expires : Nat]]]
      /\ flight \in [Who -> [Days -> Nat]] /\ served \in [Who -> [Days -> Nat]]
  BY TodayInDays DEF QuotaInv
<1>2. ASSUME NEW w \in Who, Arrive(w) PROVE QuotaInv'
  <2>1. /\ flight' = [flight EXCEPT ![w][Today] = flight[w][Today] + 1]
        /\ UNCHANGED <<clock, counter, served>> /\ Today' = Today
    BY <1>2 DEF Arrive, Today
  <2>2. /\ flight' \in [Who -> [Days -> Nat]]
        /\ \A v \in Who, d \in Days : flight'[v][d] = flight[v][d] \/ d = Today
    BY <1>1, <2>1
  <2>3. \A v \in Who, d \in Days : flight'[v][d] > 0 => d <= Today
    BY <1>1, <2>2 DEF QuotaInv
  <2> QED
    BY <2>1, <2>2, <2>3 DEF QuotaInv
<1>3. ASSUME NEW w \in Who, NEW d \in Days, flight' = [flight EXCEPT ![w][d] = flight[w][d] - 1],
             flight[w][d] > 0
      PROVE  /\ flight' \in [Who -> [Days -> Nat]]
             /\ \A v \in Who, e \in Days : flight'[v][e] > 0 => e <= Today
  <2>1. flight[w][d] - 1 \in Nat
    BY <1>1, <1>3
  <2>2. /\ flight' \in [Who -> [Days -> Nat]]
        /\ \A v \in Who, e \in Days : flight'[v][e] = flight[v][e] \/ (v = w /\ e = d)
    BY <1>1, <1>3, <2>1
  <2> QED
    BY <1>3, <2>2 DEF QuotaInv
<1>4. ASSUME NEW w \in Who, NEW d \in Days, NEW answered \in BOOLEAN, Consume(w, d, answered)
      PROVE  QuotaInv'
  <2>1. KeyKept(counter'[w][d], served'[w][d], Limit[w], d, Today)
    BY <1>4, ConsumeKept
  <2>2. UNCHANGED clock /\ Today' = Today
    BY <1>4 DEF Consume, Today
  <2>3. PICK c : counter' = [counter EXCEPT ![w][d] = c]
    BY <1>4 DEF Consume
  <2>4. PICK m : served' = [served EXCEPT ![w][d] = m]
    BY <1>4 DEF Consume
  <2>5. /\ counter'[w][d] = c /\ served'[w][d] = m
        /\ \A v \in Who, e \in Days : (v = w /\ e = d) \/ (counter'[v][e] = counter[v][e] /\ served'[v][e] = served[v][e])
    BY <1>1, <2>3, <2>4
  <2>6. c \in [used : Nat, expires : Nat] /\ m \in Nat
    BY <2>1, <2>5 DEF KeyKept
  <2>7. counter' \in [Who -> [Days -> [used : Nat, expires : Nat]]] /\ served' \in [Who -> [Days -> Nat]]
    BY <1>1, <2>3, <2>4, <2>6
  <2>8. \A v \in Who, e \in Days : KeyKept(counter'[v][e], served'[v][e], Limit[v], e, Today)
    BY <2>1, <2>5 DEF QuotaInv
  <2>9. /\ flight' \in [Who -> [Days -> Nat]]
        /\ \A v \in Who, e \in Days : flight'[v][e] > 0 => e <= Today
    BY <1>3, <1>4 DEF Consume
  <2> QED
    BY <2>2, <2>7, <2>8, <2>9 DEF QuotaInv
<1>5. ASSUME NEW w \in Who, NEW d \in Days, Unreachable(w, d) PROVE QuotaInv'
  <2>1. UNCHANGED <<clock, counter, served>> /\ Today' = Today
    BY <1>5 DEF Unreachable, Today
  <2>2. /\ flight' \in [Who -> [Days -> Nat]]
        /\ \A v \in Who, e \in Days : flight'[v][e] > 0 => e <= Today
    BY <1>3, <1>5 DEF Unreachable
  <2> QED
    BY <2>1, <2>2 DEF QuotaInv
<1>6. CASE Elapse
  <2>1. /\ clock' = clock + 1 /\ clock \in Nat /\ clock < LastTick
        /\ UNCHANGED <<counter, flight, served>>
    BY <1>6 DEF Elapse, QuotaInv
  <2>2. clock' \in Nat /\ clock' <= LastTick /\ clock <= clock'
    BY <2>1, QuotaAssumption
  <2>3. Today <= Today' /\ Today' \in Nat
    <3>1. clock \div Day <= clock' \div Day
      BY <2>1, <2>2, DayMonotone
    <3>2. clock' \div Day \in Nat
      BY <2>2, DayBounds
    <3> QED
      BY <3>1, <3>2 DEF Today
  <2>4. \A w \in Who, d \in Days : flight[w][d] > 0 => d <= Today'
    BY <1>1, <2>3, DaysNat DEF QuotaInv
  <2>5. \A w \in Who, d \in Days : KeyKept(counter[w][d], served[w][d], Limit[w], d, Today')
    <3>1. \A d \in Days : Today' <= d => Today <= d
      BY <1>1, <2>3, DaysNat
    <3> QED
      BY <3>1 DEF QuotaInv, KeyKept
  <2> QED
    BY <2>1, <2>2, <2>4, <2>5 DEF QuotaInv
<1>7. ASSUME UNCHANGED qvars PROVE QuotaInv'
  BY <1>7 DEF qvars, QuotaInv, Today
<1> QED
  BY <1>2, <1>4, <1>5, <1>6, <1>7 DEF QNext

\* On one UTC day a caller is served no more than its limit, for every limit,
\* number of requests and length of day.
THEOREM QuotaDailyCap == QSpec => []DailyCap
<1>1. QuotaInv => DailyCap
  BY DEF QuotaInv, KeyKept, DailyCap
<1> QED
  BY <1>1, QuotaInit, QuotaStep, PTL DEF QSpec
-----------------------------------------------------------------------------
(* TimelineProjection: what was copied from a source is older than the     *)
(* source in both version and stamp, and what was committed after a        *)
(* refresh read it is stamped later than that refresh's watermark.         *)

SourceRow == [ver : Nat, upd : Nat]
Point == [rec : Nat, upd : Nat, paper : Nat]
Source == Material \cup {ThePaper}

\* Version v with stamp u was once that of the row.
OnceThat(v, u, row) ==
  /\ v <= row.ver /\ (v = row.ver => u = row.upd) /\ (v < row.ver => u < row.upd)

\* An open transaction is young; on a material it is alone, and stamped later
\* than what is committed.
OpenWrite(w) ==
  /\ txn[w].on \in Source /\ txn[w].at < now /\ now - txn[w].at <= MaxTxn
  /\ txn[w].on \in Material => src[txn[w].on].upd < txn[w].at

WritersKept ==
  /\ now \in Nat /\ 0 < now
  /\ src \in [Source -> SourceRow] /\ \A x \in Source : src[x].upd < now
  /\ txn \in [Writer -> [on : Source \cup {"none"}, at : Nat]]
  /\ \A w \in Writer : txn[w] # Closed => OpenWrite(w)
  /\ \A v, w \in Writer : txn[v] # Closed /\ txn[w] # Closed /\ txn[v].on \in Material
                          /\ txn[v].on = txn[w].on => v = w

StateKept ==
  /\ state \in [ready : BOOLEAN, watermark : Int, refreshed : Nat]
  /\ state.watermark <= state.refreshed /\ state.refreshed <= now + Ahead
  /\ state.watermark <= now + Ahead - Overlap
  /\ proj \in [Material -> Point]
  /\ \A m \in Material : proj[m] = NoPoint \/ OnceThat(proj[m].rec, proj[m].upd, src[m])

\* The refresh holds the lock, and no invalidation came since it began.
RefreshHolds ==
  /\ rf = [pc |-> rf.pc, at |-> rf.at, full |-> rf.full, rows |-> rf.rows, paper |-> rf.paper,
           asked |-> rf.asked]
  /\ rf.at \in Nat /\ rf.full \in BOOLEAN
  /\ rf.pc \in {"idle", "decide", "materials", "paper", "commit"}
  /\ rf.pc # "idle" => /\ locked /\ rf.asked = asked /\ (rf.full \/ state.ready)
                       /\ state.refreshed <= rf.at /\ rf.at <= now + Ahead

\* What a refresh has read and the sources no longer say is stamped after the
\* watermark it is going to set.
PapersFollowed ==
  rf.pc \in {"materials", "paper", "commit"} /\ ~rf.full =>
    src[ThePaper].upd > NextWatermark(rf.at) \/ ~PapersChanged

RowFollowed(m) ==
  IF m \in DOMAIN rf.rows
  THEN /\ rf.rows[m] \in SourceRow /\ OnceThat(rf.rows[m].ver, rf.rows[m].upd, src[m])
       /\ rf.rows[m] = src[m] \/ src[m].upd > NextWatermark(rf.at)
  ELSE src[m].upd >= NextWatermark(rf.at) \/ (~rf.full /\ src[m].upd < state.watermark)

RefreshFollowed ==
  /\ PapersFollowed
  /\ rf.pc \in {"paper", "commit"} => \A m \in Material : RowFollowed(m)
  /\ rf.pc = "commit" =>
       rf.paper \in Nat /\ (rf.paper = src[ThePaper].ver \/ src[ThePaper].upd > NextWatermark(rf.at))

\* What a request has read.
RequestKept(r) ==
  /\ rd[r] = [pc |-> rd[r].pc, refreshed |-> rd[r].refreshed, rows |-> rd[r].rows, seen |-> rd[r].seen]
  /\ rd[r].pc = "compare" => \A m \in DOMAIN rd[r].rows :
       m \in Material /\ rd[r].rows[m] \in Point /\ OnceThat(rd[r].rows[m].rec, rd[r].rows[m].upd, src[m])
  /\ rd[r].pc = "answer" => \A m \in DOMAIN rd[r].rows : rd[r].rows[m].rec = rd[r].seen[m].ver

RequestsKept ==
  /\ rd = [r \in Reader |-> rd[r]]
  /\ \A r \in Reader : RequestKept(r)

TimelineInv ==
  /\ WritersKept /\ StateKept /\ RefreshHolds /\ RefreshFollowed /\ RequestsKept
  /\ NothingMissed

LEMMA TimelineStart == TInit => TimelineInv
<1> SUFFICES ASSUME TInit PROVE TimelineInv
  OBVIOUS
<1>0. {Overlap, MaxTxn, Ahead} \subseteq Nat /\ 0 < MaxTxn /\ MaxTxn + Ahead < Overlap
  BY TimelineAssumption
<1>1. rf.pc = "idle" /\ ~state.ready /\ \A w \in Writer : txn[w] = Closed
  BY DEF TInit, Resting
<1>2. WritersKept
  BY <1>1 DEF TInit, WritersKept, Source, SourceRow, Closed
<1>3. StateKept
  <2>1. NoPoint \in Point
    BY DEF NoPoint, Point
  <2> QED
    BY <1>0, <2>1 DEF TInit, StateKept
<1>4. RefreshHolds
  BY DEF TInit, Resting, RefreshHolds
<1>5. RefreshFollowed
  BY <1>1 DEF RefreshFollowed, PapersFollowed
<1>6. RequestsKept
  BY DEF TInit, RequestsKept, RequestKept, Waiting
<1>7. NothingMissed
  BY <1>1 DEF NothingMissed, CatchesUp, InvalidationKept
<1> QED
  BY <1>2, <1>3, <1>4, <1>5, <1>6, <1>7 DEF TimelineInv

LEMMA LateStamp ==
  ASSUME WritersKept, StateKept, RefreshHolds, NEW w \in Writer, txn[w] # Closed
  PROVE  /\ txn[w].at \in Nat /\ txn[w].at > state.watermark
         /\ rf.pc # "idle" => txn[w].at > NextWatermark(rf.at)
<1>1. {Overlap, MaxTxn, Ahead} \subseteq Nat /\ MaxTxn + Ahead < Overlap
  BY TimelineAssumption
<1>2. txn[w].at \in Nat /\ now \in Nat /\ now - txn[w].at <= MaxTxn
  BY DEF WritersKept, OpenWrite
<1>3. state.watermark \in Int /\ state.watermark <= now + Ahead - Overlap
  BY DEF StateKept
<1>4. rf.pc # "idle" => rf.at \in Nat /\ rf.at <= now + Ahead
  BY DEF RefreshHolds
<1> QED
  BY <1>1, <1>2, <1>3, <1>4 DEF NextWatermark, Larger

\* The clock moves, and a transaction stamps a row.
LEMMA TimelineWait ==
  ASSUME TimelineInv, Tick \/ \E w \in Writer : \E x \in Source : Stamp(w, x)
  PROVE  TimelineInv'
<1>1. now \in Nat /\ now' = now + 1 /\ 0 < now /\ {Overlap, MaxTxn, Ahead} \subseteq Nat
  BY TimelineAssumption DEF TimelineInv, WritersKept, Tick, Stamp
<1>2. UNCHANGED <<src, proj, state, locked, rf, rd, asked, built>>
  BY DEF Tick, Stamp
<1>3. WritersKept'
  <2>1. \A w \in Writer : txn[w] # Closed => now' - txn[w].at <= MaxTxn
    BY <1>1 DEF Tick, Stamp, Timely
  <2>2. CASE Tick
    <3>1. txn' = txn /\ \A w \in Writer : txn[w].at \in Nat
      BY <2>2 DEF TimelineInv, WritersKept, Tick
    <3>2. \A y \in Source : src[y].upd \in Nat /\ src[y].upd < now'
      BY <1>1 DEF TimelineInv, WritersKept, SourceRow
    <3>3. \A w \in Writer : txn'[w] # Closed => OpenWrite(w)'
      BY <1>1, <1>2, <2>1, <3>1 DEF TimelineInv, WritersKept, OpenWrite
    <3> QED
      BY <1>1, <1>2, <3>1, <3>2, <3>3 DEF TimelineInv, WritersKept
  <2>3. ASSUME NEW w \in Writer, NEW x \in Source, Stamp(w, x) PROVE WritersKept'
    <3>1. /\ txn' = [txn EXCEPT ![w] = [on |-> x, at |-> now]] /\ txn[w] = Closed
          /\ x \in Material => \A v \in Writer : txn[v].on # x
      BY <2>3 DEF Stamp
    <3>2. txn' \in [Writer -> [on : Source \cup {"none"}, at : Nat]]
      BY <1>1, <3>1 DEF TimelineInv, WritersKept
    <3>3. txn'[w] = [on |-> x, at |-> now] /\ \A v \in Writer \ {w} : txn'[v] = txn[v]
      BY <3>1 DEF TimelineInv, WritersKept
    <3>4. src' \in [Source -> SourceRow] /\ \A y \in Source : src'[y].upd < now /\ src'[y].upd < now'
      BY <1>1, <1>2 DEF TimelineInv, WritersKept, SourceRow
    <3>5. OpenWrite(w)'
      BY <1>1, <3>3, <3>4, TimelineAssumption DEF OpenWrite, Source
    <3>6. \A v \in Writer \ {w} : txn'[v] # Closed => OpenWrite(v)'
      BY <1>1, <1>2, <2>1, <3>3 DEF TimelineInv, WritersKept, OpenWrite
    <3>7. \A u, v \in Writer : txn'[u] # Closed /\ txn'[v] # Closed /\ txn'[u].on \in Material
                               /\ txn'[u].on = txn'[v].on => u = v
      BY <3>1, <3>3 DEF TimelineInv, WritersKept
    <3> QED
      BY <1>1, <3>2, <3>4, <3>5, <3>6, <3>7 DEF WritersKept
  <2> QED
    BY <2>2, <2>3
<1>4. StateKept'
  BY <1>1, <1>2 DEF TimelineInv, StateKept, OnceThat
<1>5. RefreshHolds'
  BY <1>1, <1>2 DEF TimelineInv, RefreshHolds
<1>6. RefreshFollowed'
  BY <1>2 DEF TimelineInv, RefreshFollowed, PapersFollowed, RowFollowed, PapersChanged, NextWatermark,
              OnceThat
<1>7. RequestsKept'
  BY <1>2 DEF TimelineInv, RequestsKept, RequestKept, OnceThat
<1>8. NothingMissed'
  BY <1>2 DEF TimelineInv, NothingMissed, CatchesUp, InvalidationKept, Want, PapersChanged
<1> QED
  BY <1>3, <1>4, <1>5, <1>6, <1>7, <1>8 DEF TimelineInv

\* A transaction commits: the row gets a version, and a stamp that is later
\* than every watermark.
LEMMA TimelineWrite ==
  ASSUME TimelineInv, NEW w \in Writer, CommitSource(w)
  PROVE  TimelineInv'
<1> DEFINE x == txn[w].on
           t == txn[w].at
<1>1. /\ txn[w] # Closed /\ src' = [src EXCEPT ![x] = [ver |-> @.ver + 1, upd |-> t]]
      /\ txn' = [txn EXCEPT ![w] = Closed]
      /\ UNCHANGED <<now, proj, state, locked, rf, rd, asked, built>>
  BY DEF CommitSource
<1>2. /\ x \in Source /\ t \in Nat /\ t < now /\ t > state.watermark
      /\ rf.pc # "idle" => t > NextWatermark(rf.at)
      /\ x \in Material => src[x].upd < t
  BY <1>1, LateStamp DEF TimelineInv, WritersKept, OpenWrite
<1> HIDE DEF x, t
<1>3. src \in [Source -> SourceRow] /\ src' \in [Source -> SourceRow]
  BY <1>1, <1>2 DEF TimelineInv, WritersKept, SourceRow
<1>4. /\ src'[x].ver = src[x].ver + 1 /\ src'[x].upd = t
      /\ \A y \in Source \ {x} : src'[y] = src[y]
  BY <1>1, <1>2, <1>3
<1>5. \A m \in Material : m \in Source /\ src[m] \in SourceRow /\ src'[m] \in SourceRow
  BY <1>3 DEF Source
<1>6. \A m \in Material : \A v, u \in Nat : OnceThat(v, u, src[m]) => OnceThat(v, u, src'[m])
  BY <1>2, <1>4, <1>5 DEF OnceThat, SourceRow
<1>7. WritersKept'
  <2>1. txn' \in [Writer -> [on : Source \cup {"none"}, at : Nat]]
    BY <1>1 DEF TimelineInv, WritersKept, Closed
  <2>2. txn'[w] = Closed /\ \A v \in Writer \ {w} : txn'[v] = txn[v]
    BY <1>1 DEF TimelineInv, WritersKept
  <2>3. \A y \in Source : src'[y].upd < now'
    BY <1>1, <1>2, <1>4 DEF TimelineInv, WritersKept
  <2>4. ASSUME NEW v \in Writer, txn'[v] # Closed PROVE OpenWrite(v)'
    <3>1. v # w /\ txn'[v] = txn[v] /\ txn[v] # Closed
      BY <2>2, <2>4
    <3>2. OpenWrite(v) /\ (txn[v].on \in Material => txn[v].on # x)
      BY <1>1, <3>1 DEF TimelineInv, WritersKept, x
    <3> QED
      BY <1>1, <1>4, <3>1, <3>2 DEF OpenWrite
  <2>5. \A u, v \in Writer : txn'[u] # Closed /\ txn'[v] # Closed /\ txn'[u].on \in Material
                             /\ txn'[u].on = txn'[v].on => u = v
    BY <2>2 DEF TimelineInv, WritersKept
  <2> QED
    BY <1>1, <1>3, <2>1, <2>3, <2>4, <2>5 DEF TimelineInv, WritersKept
<1>8. StateKept'
  <2>1. \A m \in Material : proj[m] \in Point
    BY DEF TimelineInv, StateKept
  <2> QED
    BY <1>1, <1>6, <2>1 DEF TimelineInv, StateKept, Point
<1>9. RefreshHolds'
  BY <1>1 DEF TimelineInv, RefreshHolds
<1>10. NextWatermark(rf.at)' = NextWatermark(rf.at)
  BY <1>1 DEF NextWatermark
<1>11. ThePaper \in Source /\ (x \in Material \/ x = ThePaper)
  BY <1>2 DEF Source
<1>12. x = ThePaper => PapersChanged'
  BY <1>1, <1>2, <1>4 DEF PapersChanged
<1>13. x # ThePaper => src'[ThePaper] = src[ThePaper] /\ (PapersChanged' <=> PapersChanged)
  BY <1>1, <1>4, <1>11 DEF PapersChanged, Source
<1>14. RefreshFollowed'
  <2>1. PapersFollowed'
    <3>1. CASE x = ThePaper
      BY <1>1, <1>2, <1>4, <1>10, <3>1 DEF PapersFollowed
    <3>2. CASE x # ThePaper
      BY <1>1, <1>13, <1>10, <3>2 DEF TimelineInv, RefreshFollowed, PapersFollowed
    <3> QED
      BY <3>1, <3>2
  <2>2. ASSUME NEW m \in Material, RowFollowed(m), rf.pc # "idle" PROVE RowFollowed(m)'
    <3>1. CASE m \in DOMAIN rf.rows
      <4>1. rf.rows[m] \in SourceRow /\ OnceThat(rf.rows[m].ver, rf.rows[m].upd, src[m])
        BY <2>2, <3>1 DEF RowFollowed
      <4>2. OnceThat(rf.rows[m].ver, rf.rows[m].upd, src'[m])
        BY <1>6, <4>1 DEF SourceRow
      <4>3. rf.rows[m] = src'[m] \/ src'[m].upd > NextWatermark(rf.at)
        BY <1>2, <1>4, <1>5, <2>2, <3>1 DEF RowFollowed
      <4> QED
        BY <1>1, <1>10, <3>1, <4>1, <4>2, <4>3 DEF RowFollowed, OnceThat
    <3>2. CASE m \notin DOMAIN rf.rows
      <4>1. NextWatermark(rf.at) \in Int
        BY TimelineAssumption DEF TimelineInv, StateKept, RefreshHolds, NextWatermark, Larger
      <4>2. \/ src'[m].upd >= NextWatermark(rf.at)
            \/ ~rf.full /\ src'[m].upd < state.watermark
        BY <1>2, <1>4, <1>5, <2>2, <3>2, <4>1 DEF RowFollowed
      <4> QED
        BY <1>1, <1>10, <3>2, <4>2 DEF RowFollowed
    <3> QED
      BY <3>1, <3>2
  <2>3. rf.pc = "commit" => src'[ThePaper] = src[ThePaper] \/ src'[ThePaper].upd > NextWatermark(rf.at)
    BY <1>2, <1>4, <1>13
  <2>4. rf.pc \in {"paper", "commit"} => rf.pc # "idle" /\ \A m \in Material : RowFollowed(m)
    BY DEF TimelineInv, RefreshFollowed
  <2>5. rf'.pc \in {"paper", "commit"} => \A m \in Material : RowFollowed(m)'
    BY <1>1, <2>2, <2>4
  <2> QED
    BY <1>1, <1>10, <2>1, <2>3, <2>5 DEF TimelineInv, RefreshFollowed
<1>15. RequestsKept'
  BY <1>1, <1>6 DEF TimelineInv, RequestsKept, RequestKept, Point
<1>16. NothingMissed'
  <2>1. ASSUME state.ready, NEW m \in Material, proj[m] # Want(m)'
        PROVE  src'[m].upd >= state.watermark \/ PapersChanged'
    <3>1. state.watermark \in Int
      BY DEF TimelineInv, StateKept
    <3>2. CASE x = ThePaper
      BY <1>12, <3>2
    <3>3. CASE x = m
      BY <1>2, <1>4, <3>1, <3>3
    <3>4. CASE x # ThePaper /\ x # m
      <4>1. src'[m] = src[m] /\ Want(m)' = Want(m)
        BY <1>4, <1>5, <1>13, <3>4 DEF Want
      <4> QED
        BY <1>13, <2>1, <3>4, <4>1 DEF TimelineInv, NothingMissed, CatchesUp
    <3> QED
      BY <3>2, <3>3, <3>4
  <2> QED
    BY <1>1, <2>1 DEF TimelineInv, NothingMissed, CatchesUp, InvalidationKept
<1> QED
  BY <1>7, <1>8, <1>9, <1>14, <1>15, <1>16 DEF TimelineInv

\* An invalidation, and the steps of a refresh before its commit.
LEMMA TimelineRefresh ==
  ASSUME TimelineInv, Invalidate \/ (\E c \in Clock : Begin(c)) \/ Decide \/ ReadMaterials \/ ReadPaper \/ Abort
  PROVE  TimelineInv'
<1>1. UNCHANGED <<now, src, txn, proj, rd, built>>
  BY DEF Invalidate, Begin, Decide, ReadMaterials, ReadPaper, Abort
<1>2. WritersKept' /\ RequestsKept'
  BY <1>1 DEF TimelineInv, WritersKept, OpenWrite, RequestsKept, RequestKept, OnceThat
<1>3. CASE Invalidate
  <2>1. state' \in [ready : BOOLEAN, watermark : Int, refreshed : Nat] /\ ~state'.ready
        /\ state'.watermark = state.watermark /\ state'.refreshed = state.refreshed
    BY <1>3 DEF Invalidate, TimelineInv, StateKept
  <2>2. StateKept'
    BY <1>1, <2>1 DEF TimelineInv, StateKept, OnceThat
  <2>3. rf.pc = "idle" /\ rf' = rf
    BY <1>3 DEF Invalidate, TimelineInv, RefreshHolds
  <2>4. RefreshHolds' /\ RefreshFollowed'
    BY <2>3 DEF TimelineInv, RefreshHolds, RefreshFollowed, PapersFollowed
  <2>5. NothingMissed'
    BY <2>1 DEF NothingMissed, CatchesUp, InvalidationKept
  <2> QED
    BY <1>2, <2>2, <2>4, <2>5 DEF TimelineInv
<1>4. CASE ~Invalidate
  <2>1. UNCHANGED <<state, asked>>
    BY <1>4 DEF Begin, Decide, ReadMaterials, ReadPaper, Abort
  <2>2. StateKept' /\ NothingMissed' /\ PapersChanged' = PapersChanged
    BY <1>1, <2>1 DEF TimelineInv, StateKept, NothingMissed, CatchesUp, InvalidationKept, Want,
                      PapersChanged, OnceThat
  <2>3. \A a : NextWatermark(a)' = NextWatermark(a')
    BY <2>1 DEF NextWatermark
  <2>4. state.watermark \in Int /\ state.refreshed \in Nat /\ state.watermark <= state.refreshed
        /\ state.refreshed <= now + Ahead /\ now \in Nat /\ {Ahead, Overlap} \subseteq Nat
        /\ state.ready \in BOOLEAN
    BY TimelineAssumption DEF TimelineInv, StateKept, WritersKept
  <2>5. ASSUME NEW c \in Clock, Begin(c) PROVE RefreshHolds' /\ RefreshFollowed'
    <3>1. /\ rf'.pc = "decide" /\ rf'.at = Larger(c, state.refreshed) /\ rf'.full = ~state.ready
          /\ rf'.asked = asked /\ locked'
          /\ rf' = [pc |-> rf'.pc, at |-> rf'.at, full |-> rf'.full, rows |-> rf'.rows,
                    paper |-> rf'.paper, asked |-> rf'.asked]
      BY <2>5 DEF Begin, Resting
    <3>2. rf'.at \in Nat /\ state.refreshed <= rf'.at /\ rf'.at <= now + Ahead
      BY <2>4, <3>1 DEF Clock, Larger
    <3> QED
      BY <1>1, <2>1, <2>4, <3>1, <3>2 DEF RefreshHolds, RefreshFollowed, PapersFollowed
  <2>6. ASSUME Abort PROVE RefreshHolds' /\ RefreshFollowed'
    BY <2>6 DEF Abort, Resting, RefreshHolds, RefreshFollowed, PapersFollowed
  <2>7. ASSUME Decide \/ ReadMaterials \/ ReadPaper PROVE RefreshHolds' /\ RefreshFollowed'
    <3>1. /\ rf'.at = rf.at /\ rf'.asked = rf.asked /\ rf.pc # "idle" /\ locked' = locked
          /\ rf' = [pc |-> rf'.pc, at |-> rf'.at, full |-> rf'.full, rows |-> rf'.rows,
                    paper |-> rf'.paper, asked |-> rf'.asked]
      BY <2>7 DEF Decide, ReadMaterials, ReadPaper, TimelineInv, RefreshHolds
    <3>2. NextWatermark(rf.at)' = NextWatermark(rf.at) /\ NextWatermark(rf.at) \in Int
      BY <2>1, <2>4, <3>1 DEF NextWatermark, Larger, TimelineInv, RefreshHolds
    <3>3. CASE Decide
      <4>1. rf'.pc = "materials" /\ rf'.full = (rf.full \/ PapersChanged)
        BY <3>3 DEF Decide, TimelineInv, RefreshHolds
      <4>2. RefreshHolds'
        BY <1>1, <2>1, <3>1, <4>1 DEF TimelineInv, RefreshHolds
      <4>3. RefreshFollowed'
        BY <2>2, <4>1 DEF RefreshFollowed, PapersFollowed
      <4> QED
        BY <4>2, <4>3
    <3>4. CASE ReadMaterials
      <4>1. /\ rf.pc = "materials" /\ rf'.pc = "paper" /\ rf'.full = rf.full
            /\ rf'.rows = [m \in Selected |-> src[m]]
        BY <3>4 DEF ReadMaterials, TimelineInv, RefreshHolds
      <4>2. RefreshHolds'
        BY <1>1, <2>1, <3>1, <4>1 DEF TimelineInv, RefreshHolds
      <4>3. PapersFollowed'
        BY <1>1, <2>2, <3>2, <4>1 DEF TimelineInv, RefreshFollowed, PapersFollowed
      <4>4. ASSUME NEW m \in Material PROVE RowFollowed(m)'
        <5>1. src[m] \in SourceRow /\ rf.at \in Nat /\ state.refreshed <= rf.at
          BY <3>1 DEF TimelineInv, WritersKept, Source, RefreshHolds
        <5>2. CASE m \in Selected
          BY <1>1, <4>1, <5>1, <5>2 DEF RowFollowed, OnceThat, SourceRow
        <5>3. CASE m \notin Selected
          <6>1. src[m].upd > rf.at \/ (~rf.full /\ ~(src[m].upd >= state.watermark))
            BY <5>1, <5>3 DEF Selected, SourceRow
          <6>2. src[m].upd >= NextWatermark(rf.at) \/ (~rf.full /\ src[m].upd < state.watermark)
            BY <2>4, <5>1, <6>1 DEF NextWatermark, Larger, SourceRow
          <6> QED
            BY <1>1, <2>1, <3>2, <4>1, <5>3, <6>2 DEF RowFollowed
        <5> QED
          BY <5>2, <5>3
      <4> QED
        BY <4>1, <4>2, <4>3, <4>4 DEF RefreshFollowed
    <3>5. CASE ReadPaper
      <4>1. /\ rf.pc = "paper" /\ rf'.pc = "commit" /\ rf'.full = rf.full
            /\ rf'.rows = rf.rows /\ rf'.paper = src[ThePaper].ver
        BY <3>5 DEF ReadPaper, TimelineInv, RefreshHolds
      <4>2. RefreshHolds'
        BY <1>1, <2>1, <3>1, <4>1 DEF TimelineInv, RefreshHolds
      <4>3. PapersFollowed'
        BY <1>1, <2>2, <3>2, <4>1 DEF TimelineInv, RefreshFollowed, PapersFollowed
      <4>4. \A m \in Material : RowFollowed(m)'
        BY <1>1, <2>1, <3>2, <4>1 DEF TimelineInv, RefreshFollowed, RowFollowed, OnceThat
      <4>5. src[ThePaper].ver \in Nat
        BY DEF TimelineInv, WritersKept, Source, SourceRow
      <4> QED
        BY <1>1, <4>1, <4>2, <4>3, <4>4, <4>5 DEF RefreshFollowed
    <3> QED
      BY <2>7, <3>3, <3>4, <3>5
  <2> QED
    BY <1>2, <1>4, <2>2, <2>5, <2>6, <2>7 DEF TimelineInv
<1> QED
  BY <1>3, <1>4

LEMMA TimelineCommit == TimelineInv /\ Commit => TimelineInv'
<1> SUFFICES ASSUME TimelineInv, Commit PROVE TimelineInv'
  OBVIOUS
<1>1. /\ rf.pc = "commit" /\ rf' = Resting /\ UNCHANGED <<now, src, txn, rd, asked>>
      /\ state' = [ready |-> TRUE, watermark |-> NextWatermark(rf.at),
                   refreshed |-> Larger(state.refreshed, rf.at)]
      /\ built' = IF rf.full THEN rf.asked ELSE built
  BY DEF Commit
<1>2. \A m \in Material : proj'[m] = IF m \in DOMAIN rf.rows THEN Extract(rf.rows[m], rf.paper)
                                     ELSE IF rf.full THEN NoPoint ELSE proj[m]
  BY DEF Commit
<1>3. WritersKept' /\ RequestsKept'
  BY <1>1 DEF TimelineInv, WritersKept, OpenWrite, RequestsKept, RequestKept, OnceThat
<1>4. RefreshHolds' /\ RefreshFollowed'
  BY <1>1 DEF Resting, RefreshHolds, RefreshFollowed, PapersFollowed
<1>5. /\ rf.at \in Nat /\ rf.full \in BOOLEAN /\ rf.asked = asked /\ (rf.full \/ state.ready)
      /\ state.refreshed <= rf.at /\ rf.at <= now + Ahead
  BY <1>1 DEF TimelineInv, RefreshHolds
<1>6. /\ \A m \in Material : RowFollowed(m)
      /\ rf.paper \in Nat /\ (rf.paper = src[ThePaper].ver \/ src[ThePaper].upd > NextWatermark(rf.at))
      /\ ~rf.full => src[ThePaper].upd > NextWatermark(rf.at) \/ ~PapersChanged
  BY <1>1 DEF TimelineInv, RefreshFollowed, PapersFollowed
<1>7. \A m \in Material : m \in DOMAIN rf.rows =>
        /\ rf.rows[m] \in SourceRow /\ OnceThat(rf.rows[m].ver, rf.rows[m].upd, src[m])
        /\ Extract(rf.rows[m], rf.paper) \in Point
        /\ \/ Extract(rf.rows[m], rf.paper) = NoPoint
           \/ /\ Extract(rf.rows[m], rf.paper).rec = rf.rows[m].ver
              /\ Extract(rf.rows[m], rf.paper).upd = rf.rows[m].upd
  BY <1>6 DEF RowFollowed, Extract, SourceRow, Point, NoPoint
<1>8. StateKept'
  <2>1. {Ahead, Overlap} \subseteq Nat /\ now \in Nat /\ state.watermark \in Int /\ state.refreshed \in Nat
        /\ state.watermark <= state.refreshed /\ state.watermark <= now + Ahead - Overlap
    BY TimelineAssumption DEF TimelineInv, WritersKept, StateKept
  <2>2. /\ NextWatermark(rf.at) \in Int /\ Larger(state.refreshed, rf.at) \in Nat
        /\ NextWatermark(rf.at) <= Larger(state.refreshed, rf.at)
        /\ Larger(state.refreshed, rf.at) <= now + Ahead
        /\ NextWatermark(rf.at) <= now + Ahead - Overlap
    BY <1>5, <2>1 DEF NextWatermark, Larger
  <2>3. \A m \in Material : proj[m] \in Point /\ NoPoint \in Point
    BY DEF TimelineInv, StateKept, Point, NoPoint
  <2>4. proj' \in [Material -> Point]
    <3>1. \A m \in Material : proj'[m] \in Point
      BY <1>2, <1>7, <2>3
    <3> QED
      BY <3>1 DEF Commit
  <2>5. \A m \in Material : proj'[m] = NoPoint \/ OnceThat(proj'[m].rec, proj'[m].upd, src[m])
    <3> TAKE m \in Material
    <3>1. CASE m \in DOMAIN rf.rows
      BY <1>2, <1>7, <3>1
    <3>2. CASE m \notin DOMAIN rf.rows
      BY <1>2, <3>2 DEF TimelineInv, StateKept
    <3> QED
      BY <3>1, <3>2
  <2> QED
    BY <1>1, <2>2, <2>4, <2>5 DEF StateKept, OnceThat
<1>9. InvalidationKept'
  BY <1>1, <1>5 DEF TimelineInv, NothingMissed, InvalidationKept
<1>10. CatchesUp'
  <2>1. ASSUME src[ThePaper].upd > NextWatermark(rf.at) PROVE PapersChanged'
    BY <1>1, <2>1 DEF PapersChanged
  <2>2. ASSUME NEW m \in Material, proj'[m] # Want(m), ~(src[ThePaper].upd > NextWatermark(rf.at))
        PROVE  src[m].upd >= NextWatermark(rf.at)
    <3>1. src[m].upd \in Nat /\ NextWatermark(rf.at) \in Int /\ state.watermark \in Int
      BY <1>5, TimelineAssumption
      DEF TimelineInv, WritersKept, StateKept, Source, SourceRow, NextWatermark, Larger
    <3>2. CASE m \in DOMAIN rf.rows
      BY <1>2, <1>6, <2>2, <3>1, <3>2 DEF RowFollowed, Want
    <3>3. CASE m \notin DOMAIN rf.rows
      <4>1. SUFFICES ASSUME ~rf.full, src[m].upd < state.watermark PROVE FALSE
        BY <1>5, <1>6, <3>1, <3>3 DEF RowFollowed
      <4>2. proj[m] # Want(m) /\ state.ready /\ ~PapersChanged
        BY <1>2, <1>5, <1>6, <2>2, <3>3, <4>1
      <4> QED
        BY <3>1, <4>1, <4>2 DEF TimelineInv, NothingMissed, CatchesUp
    <3> QED
      BY <3>2, <3>3
  <2>3. \A m \in Material : Want(m)' = Want(m)
    BY <1>1 DEF Want
  <2> QED
    BY <1>1, <2>1, <2>2, <2>3 DEF CatchesUp
<1> QED
  BY <1>3, <1>4, <1>8, <1>9, <1>10 DEF TimelineInv, NothingMissed

TimedRow(p, at, points, seen) ==
  [pc |-> p, refreshed |-> at, rows |-> points, seen |-> seen]
WithState(q, p, x) == [q EXCEPT !.pc = p, !.refreshed = x]
WithRows(q, p, x) == [q EXCEPT !.pc = p, !.rows = x]
WithSeen(q, p, x) == [q EXCEPT !.pc = p, !.seen = x]

\* Two fields of a request are set at once.
LEMMA TimedRows ==
  ASSUME NEW a, NEW b, NEW c, NEW d, NEW p, NEW x, NEW q, q = TimedRow(a, b, c, d)
  PROVE  /\ WithSeen(q, p, x) = TimedRow(p, b, c, x)
         /\ WithState(q, p, x) = TimedRow(p, x, c, d)
         /\ WithRows(q, p, x) = TimedRow(p, b, x, d)
<1> DEFINE s == [q EXCEPT !.pc = p]
<1>1. s = TimedRow(p, b, c, d)
  BY DEF TimedRow
<1> HIDE DEF s
<1>2. /\ [s EXCEPT !.seen = x] = TimedRow(p, b, c, x)
      /\ [s EXCEPT !.refreshed = x] = TimedRow(p, x, c, d)
      /\ [s EXCEPT !.rows = x] = TimedRow(p, b, x, d)
  BY <1>1 DEF TimedRow
<1> QED
  BY <1>2 DEF s, WithState, WithRows, WithSeen

\* A request takes a step.
LEMMA TimelineRequest ==
  ASSUME TimelineInv, NEW r \in Reader,
         ReadState(r) \/ SeeChanges(r) \/ ReadRows(r) \/ Compare(r) \/ Answer(r)
  PROVE  TimelineInv'
<1>1. UNCHANGED <<now, src, txn, proj, state, locked, rf, asked, built>>
  BY DEF ReadState, SeeChanges, ReadRows, Compare, Answer, ReaderStep
<1>2. WritersKept' /\ StateKept' /\ RefreshHolds' /\ RefreshFollowed' /\ NothingMissed'
  BY <1>1 DEF TimelineInv, WritersKept, OpenWrite, StateKept, RefreshHolds, RefreshFollowed,
              PapersFollowed, RowFollowed, OnceThat, NextWatermark, PapersChanged,
              NothingMissed, CatchesUp, InvalidationKept, Want
<1> SUFFICES RequestsKept'
  BY <1>2 DEF TimelineInv
<1>3. ASSUME NEW q, rd' = [rd EXCEPT ![r] = q],
             q = [pc |-> q.pc, refreshed |-> q.refreshed, rows |-> q.rows, seen |-> q.seen],
             q.pc = "compare" => \A m \in DOMAIN q.rows :
               m \in Material /\ q.rows[m] \in Point /\ OnceThat(q.rows[m].rec, q.rows[m].upd, src[m]),
             q.pc = "answer" => \A m \in DOMAIN q.rows : q.rows[m].rec = q.seen[m].ver
      PROVE  RequestsKept'
  <2>1. rd'[r] = q /\ (\A s \in Reader \ {r} : rd'[s] = rd[s]) /\ rd' = [s \in Reader |-> rd'[s]]
    BY <1>3 DEF TimelineInv, RequestsKept
  <2>2. RequestKept(r)'
    BY <1>1, <1>3, <2>1 DEF RequestKept, OnceThat
  <2>3. \A s \in Reader \ {r} : RequestKept(s)'
    BY <1>1, <2>1 DEF TimelineInv, RequestsKept, RequestKept, OnceThat
  <2> QED
    BY <2>1, <2>2, <2>3 DEF RequestsKept
<1>4. rd[r] = [pc |-> rd[r].pc, refreshed |-> rd[r].refreshed, rows |-> rd[r].rows, seen |-> rd[r].seen]
  BY DEF TimelineInv, RequestsKept, RequestKept
<1>5. ASSUME rd' = [rd EXCEPT ![r] = Waiting] PROVE RequestsKept'
  <2>1. /\ Waiting = [pc |-> Waiting.pc, refreshed |-> Waiting.refreshed, rows |-> Waiting.rows,
                      seen |-> Waiting.seen]
        /\ Waiting.pc = "idle"
    BY DEF Waiting
  <2> QED
    BY <1>3, <1>5, <2>1
<1>6. CASE ReadState(r)
  <2> DEFINE q == [Waiting EXCEPT !.pc = "changed", !.refreshed = state.refreshed]
  <2>1. rd' = [rd EXCEPT ![r] = Waiting] \/ rd' = [rd EXCEPT ![r] = q]
    BY <1>6 DEF ReadState, ReaderStep
  <2>2. /\ q = [pc |-> q.pc, refreshed |-> q.refreshed, rows |-> q.rows, seen |-> q.seen]
        /\ q.pc = "changed"
    <3>1. Waiting = TimedRow("idle", 0, <<>>, <<>>)
      BY DEF Waiting, TimedRow
    <3>2. WithState(Waiting, "changed", state.refreshed) = TimedRow("changed", state.refreshed, <<>>, <<>>)
      BY <3>1, TimedRows
    <3>3. q = TimedRow("changed", state.refreshed, <<>>, <<>>)
      BY <3>2 DEF WithState
    <3> HIDE DEF q
    <3> QED
      BY <3>3 DEF TimedRow
  <2> HIDE DEF q
  <2> QED
    BY <1>3, <1>5, <2>1, <2>2
<1>7. CASE SeeChanges(r)
  <2> DEFINE q(l) == [rd[r] EXCEPT !.pc = l]
  <2>1. PICK l \in {"papers", "rows"} : rd' = [rd EXCEPT ![r] = Waiting] \/ rd' = [rd EXCEPT ![r] = q(l)]
    BY <1>7 DEF SeeChanges, ReaderStep
  <2>2. /\ q(l) = [pc |-> q(l).pc, refreshed |-> q(l).refreshed, rows |-> q(l).rows, seen |-> q(l).seen]
        /\ q(l).pc = l
    BY <1>4
  <2> HIDE DEF q
  <2> QED
    BY <1>3, <1>5, <2>1, <2>2
<1>8. CASE ReadRows(r)
  <2> DEFINE live == {m \in Material : proj[m] # NoPoint}
             q == [rd[r] EXCEPT !.pc = "compare", !.rows = [m \in live |-> proj[m]]]
  <2>1. rd' = [rd EXCEPT ![r] = Waiting] \/ rd' = [rd EXCEPT ![r] = q]
    BY <1>8 DEF ReadRows, ReaderStep
  <2>2. /\ q = [pc |-> q.pc, refreshed |-> q.refreshed, rows |-> q.rows, seen |-> q.seen]
        /\ q.pc = "compare" /\ q.rows = [m \in live |-> proj[m]]
    <3> DEFINE points == [m \in live |-> proj[m]]
    <3> HIDE DEF points
    <3>1. rd[r] = TimedRow(rd[r].pc, rd[r].refreshed, rd[r].rows, rd[r].seen)
      BY <1>4 DEF TimedRow
    <3>2. WithRows(rd[r], "compare", points)
            = TimedRow("compare", rd[r].refreshed, points, rd[r].seen)
      BY <3>1, TimedRows
    <3>3. q = TimedRow("compare", rd[r].refreshed, points, rd[r].seen)
      BY <3>2 DEF points, WithRows
    <3> HIDE DEF q
    <3> QED
      BY <3>3 DEF points, TimedRow
  <2>3. \A m \in live : m \in Material /\ proj[m] \in Point /\ OnceThat(proj[m].rec, proj[m].upd, src[m])
    BY DEF TimelineInv, StateKept
  <2> HIDE DEF q, live
  <2> QED
    BY <1>3, <1>5, <2>1, <2>2, <2>3
<1>9. CASE Compare(r)
  <2> DEFINE q == [rd[r] EXCEPT !.pc = "answer", !.seen = src]
  <2>1. /\ rd[r].pc = "compare"
        /\ \/ rd' = [rd EXCEPT ![r] = Waiting]
           \/ /\ rd' = [rd EXCEPT ![r] = q]
              /\ \A m \in DOMAIN rd[r].rows : ~(src[m].upd > rd[r].rows[m].upd)
    BY <1>9 DEF Compare, ReaderStep
  <2>2. /\ q = [pc |-> q.pc, refreshed |-> q.refreshed, rows |-> q.rows, seen |-> q.seen]
        /\ q.pc = "answer" /\ q.rows = rd[r].rows /\ q.seen = src
    <3>1. rd[r] = TimedRow(rd[r].pc, rd[r].refreshed, rd[r].rows, rd[r].seen)
      BY <1>4 DEF TimedRow
    <3>2. WithSeen(rd[r], "answer", src) = TimedRow("answer", rd[r].refreshed, rd[r].rows, src)
      BY <3>1, TimedRows
    <3>3. q = TimedRow("answer", rd[r].refreshed, rd[r].rows, src)
      BY <3>2 DEF WithSeen
    <3> HIDE DEF q
    <3> QED
      BY <3>3 DEF TimedRow
  <2> HIDE DEF q
  <2>3. ASSUME NEW m \in DOMAIN rd[r].rows, ~(src[m].upd > rd[r].rows[m].upd)
        PROVE  rd[r].rows[m].rec = src[m].ver
    <3>1. m \in Material /\ rd[r].rows[m] \in Point /\ OnceThat(rd[r].rows[m].rec, rd[r].rows[m].upd, src[m])
      BY <2>1 DEF TimelineInv, RequestsKept, RequestKept
    <3>2. src[m] \in SourceRow
      BY <3>1 DEF TimelineInv, WritersKept, Source
    <3> QED
      BY <2>3, <3>1, <3>2 DEF OnceThat, Point, SourceRow
  <2> QED
    BY <1>3, <1>5, <2>1, <2>2, <2>3
<1>10. CASE Answer(r)
  BY <1>5, <1>10 DEF Answer, ReaderStep
<1> QED
  BY <1>6, <1>7, <1>8, <1>9, <1>10

LEMMA TimelineStep == TimelineInv /\ [TNext]_tvars => TimelineInv'
<1> SUFFICES ASSUME TimelineInv, [TNext]_tvars PROVE TimelineInv'
  OBVIOUS
<1>1. CASE UNCHANGED tvars
  BY <1>1 DEF tvars, TimelineInv, WritersKept, OpenWrite, StateKept, RefreshHolds, RefreshFollowed,
              PapersFollowed, RowFollowed, OnceThat, NextWatermark, PapersChanged,
              NothingMissed, CatchesUp, InvalidationKept, Want, RequestsKept, RequestKept
<1> QED
  BY <1>1, TimelineWait, TimelineWrite, TimelineRefresh, TimelineCommit, TimelineRequest
  DEF TNext, Refresh, Source

\* A projection that calls itself ready has missed neither a late commit nor
\* an invalidation, for any number of writers and materials: the watermark's
\* overlap is longer than a transaction and the host's clock error together.
THEOREM TimelineMissesNothing == TSpec => []NothingMissed
<1>1. TimelineInv => NothingMissed
  BY DEF TimelineInv
<1> QED
  BY <1>1, TimelineStart, TimelineStep, PTL DEF TSpec

\* No point is served that is older than its material was when the two were
\* compared, for any number of requests, writers and refreshes.
THEOREM TimelineServesLive == TSpec => []ServedIsLive
<1>1. TimelineInv => ServedIsLive
  BY DEF TimelineInv, RequestsKept, RequestKept, ServedIsLive
<1> QED
  BY <1>1, TimelineStart, TimelineStep, PTL DEF TSpec
-----------------------------------------------------------------------------
(* CircuitBreaker: what has been let through an open circuit, and what its *)
(* requests may still send, is no more than their retries.                 *)

CircuitRow == [failures : Nat, opened : Nat, hits : Nat]
CallRow == [pc : {"idle", "trying"}, left : Nat, circ : 0..MaxResets, ops : 0..1]

\* The retries that are left to each request of circuit g.
Retries(calls, g) ==
  [c \in Caller |-> IF calls[c].pc = "trying" /\ calls[c].circ = g THEN calls[c].left - 1 ELSE 0]

RetriesInAll == Cardinality(Caller) * (Attempts - 1)

CallsKept(calls) ==
  /\ calls \in [Caller -> CallRow]
  /\ \A c \in Caller : calls[c].pc = "trying" => calls[c].left \in 1..Attempts /\ calls[c].ops = 1

BreakerInv ==
  /\ circuit \in [0..MaxResets -> CircuitRow] /\ current \in 0..MaxResets
  /\ CallsKept(call) /\ OpenHasCause
  /\ \A g \in 0..MaxResets : circuit[g].hits + SumOf(Retries(call, g), Caller) <= RetriesInAll

LEMMA BreakerConstants ==
  /\ Attempts \in Nat /\ 0 < Attempts /\ FailureLimit \in Nat /\ 0 < FailureLimit
  /\ IsFiniteSet(Caller) /\ {Cooldown, MaxResets} \subseteq Nat /\ RetriesInAll \in Nat
<1>1. Attempts \in Nat /\ 0 < Attempts /\ FailureLimit \in Nat /\ 0 < FailureLimit
  BY BreakerAssumption DEF Attempts, FailureLimit, AtLeast, AtMost
<1>2. Cardinality(Caller) \in Nat
  BY BreakerAssumption, FS_CardinalityType
<1>3. Attempts - 1 \in Nat
  BY <1>1
<1>4. RetriesInAll \in Nat
  BY <1>2, <1>3 DEF RetriesInAll
<1> QED
  BY <1>1, <1>4, BreakerAssumption

LEMMA RetriesBounded ==
  ASSUME NEW calls, CallsKept(calls)
  PROVE  \A g : /\ \A c \in Caller : Retries(calls, g)[c] \in Nat /\ Retries(calls, g)[c] <= Attempts - 1
                /\ SumOf(Retries(calls, g), Caller) \in Nat /\ SumOf(Retries(calls, g), Caller) <= RetriesInAll
<1> TAKE g
<1>1. Attempts - 1 \in Nat
  BY BreakerConstants
<1>2. \A c \in Caller : Retries(calls, g)[c] \in Nat /\ Retries(calls, g)[c] <= Attempts - 1
  BY <1>1, BreakerConstants DEF CallsKept, Retries
<1>3. SumOf(Retries(calls, g), Caller) \in Nat
  BY <1>2, BreakerConstants, SumNat
<1>4. SumOf(Retries(calls, g), Caller) <= Cardinality(Caller) * (Attempts - 1)
  BY <1>1, <1>2, BreakerConstants, SumBound
<1> QED
  BY <1>2, <1>3, <1>4 DEF RetriesInAll

LEMMA BreakerStart == BInit => BreakerInv
<1> SUFFICES ASSUME BInit PROVE BreakerInv
  OBVIOUS
<1>1. CallsKept(call)
  BY BreakerConstants DEF BInit, CallsKept, NoCall, CallRow, Trying
<1>2. circuit \in [0..MaxResets -> CircuitRow] /\ current \in 0..MaxResets
      /\ \A g \in 0..MaxResets : circuit[g].hits = 0 /\ circuit[g].opened = 0
  BY BreakerConstants DEF BInit, ClosedCircuit, CircuitRow
<1>3. OpenHasCause
  BY <1>2 DEF OpenHasCause, IsOpen
<1> QED
  BY <1>1, <1>2, <1>3, RetriesBounded, BreakerConstants DEF BreakerInv

\* One request changes, and the circuit it works with.
LEMMA BreakerChange ==
  ASSUME BreakerInv, NEW c \in Caller, NEW q \in CallRow, call' = [call EXCEPT ![c] = q],
         q.pc = "trying" => q.left \in 1..Attempts /\ q.ops = 1,
         NEW g \in 0..MaxResets, NEW k \in CircuitRow, circuit' = [circuit EXCEPT ![g] = k],
         k.opened > 0 => k.failures >= FailureLimit,
         Trying(c) => call[c].circ = g, q.pc = "trying" => q.circ = g,
         \/ k.hits = 0
         \/ /\ k.hits <= circuit[g].hits + Retries(call, g)[c]
            /\ q.pc # "trying"
         \/ /\ q.pc = "trying"
            /\ k.hits + (q.left - 1) <= circuit[g].hits + Retries(call, g)[c],
         current' \in 0..MaxResets
  PROVE  BreakerInv'
<1>0. call \in [Caller -> CallRow] /\ circuit \in [0..MaxResets -> CircuitRow]
  BY DEF BreakerInv, CallsKept
<1>1. call'[c] = q /\ \A d \in Caller \ {c} : call'[d] = call[d]
  BY <1>0
<1>2. CallsKept(call')
  BY <1>0, <1>1 DEF BreakerInv, CallsKept, Trying
<1>3. circuit' \in [0..MaxResets -> CircuitRow] /\ circuit'[g] = k
      /\ \A h \in 0..MaxResets \ {g} : circuit'[h] = circuit[h]
  BY <1>0
<1>4. OpenHasCause'
  BY <1>0, <1>3 DEF BreakerInv, OpenHasCause, IsOpen
<1>5. ASSUME NEW h \in 0..MaxResets PROVE circuit'[h].hits + SumOf(Retries(call', h), Caller) <= RetriesInAll
  <2>1. /\ \A d \in Caller : Retries(call, h)[d] \in Nat
        /\ SumOf(Retries(call, h), Caller) \in Nat
    BY RetriesBounded DEF BreakerInv
  <2>2. /\ \A d \in Caller : Retries(call', h)[d] \in Nat
        /\ SumOf(Retries(call', h), Caller) \in Nat /\ SumOf(Retries(call', h), Caller) <= RetriesInAll
    BY <1>2, RetriesBounded
  <2>3. \A d \in Caller \ {c} : Retries(call, h)[d] = Retries(call', h)[d]
    BY <1>1 DEF Retries, Trying
  <2>4. Retries(call', h)[c] = IF q.pc = "trying" /\ q.circ = h THEN q.left - 1 ELSE 0
    BY <1>1 DEF Retries, Trying
  <2>5. circuit[h] \in CircuitRow /\ circuit[h].hits + SumOf(Retries(call, h), Caller) <= RetriesInAll
    BY <1>0 DEF BreakerInv
  <2>6. SumOf(Retries(call', h), Caller) + Retries(call, h)[c] = SumOf(Retries(call, h), Caller) + Retries(call', h)[c]
    <3> DEFINE f == Retries(call, h)
               e == Retries(call', h)
    <3>1. (\A x \in Caller : f[x] \in Nat /\ e[x] \in Nat) /\ (\A x \in Caller \ {c} : f[x] = e[x])
      BY <2>1, <2>2, <2>3
    <3>2. IsFiniteSet(Caller)
      BY BreakerConstants
    <3> HIDE DEF f, e
    <3>3. SumOf(e, Caller) + f[c] = SumOf(f, Caller) + e[c]
      BY <3>1, <3>2, SumChange
    <3> QED
      BY <3>3 DEF f, e
  <2>7. CASE h = g
    <3>1. CASE k.hits = 0
      BY <1>3, <2>2, <2>7, <3>1
    <3>2. CASE k.hits + Retries(call', h)[c] <= circuit[h].hits + Retries(call, h)[c]
      <4>1. circuit'[h] = k /\ k.hits \in Nat /\ circuit[h].hits \in Nat
            /\ Retries(call, h)[c] \in Nat /\ Retries(call', h)[c] \in Nat
        BY <1>3, <2>1, <2>2, <2>5, <2>7 DEF CircuitRow
      <4> QED
        BY <2>1, <2>2, <2>5, <2>6, <3>2, <4>1, BreakerConstants
    <3>3. CASE k.hits <= circuit[h].hits + Retries(call, h)[c] /\ q.pc # "trying"
      BY <2>4, <2>7, <3>2, <3>3 DEF CircuitRow
    <3>4. CASE q.pc = "trying" /\ k.hits + (q.left - 1) <= circuit[h].hits + Retries(call, h)[c]
      BY <2>4, <2>7, <3>2, <3>4
    <3> QED
      BY <2>7, <3>1, <3>3, <3>4
  <2>8. CASE h # g
    <3>1. Retries(call, h)[c] = 0 /\ Retries(call', h)[c] = 0
      BY <2>4, <2>8 DEF Retries, Trying
    <3> QED
      BY <1>3, <2>1, <2>2, <2>5, <2>6, <2>8, <3>1
  <2> QED
    BY <2>7, <2>8
<1>6. RetriesInAll' = RetriesInAll
  BY DEF RetriesInAll
<1> QED
  BY <1>2, <1>3, <1>4, <1>5, <1>6 DEF BreakerInv

LEMMA BreakerStep == BreakerInv /\ [BNext]_bvars => BreakerInv'
<1> SUFFICES ASSUME BreakerInv, [BNext]_bvars PROVE BreakerInv'
  OBVIOUS
<1>0. /\ circuit \in [0..MaxResets -> CircuitRow] /\ current \in 0..MaxResets
      /\ call \in [Caller -> CallRow]
      /\ \A c \in Caller : Trying(c) => call[c].left \in 1..Attempts /\ call[c].ops = 1
      /\ \A g \in 0..MaxResets : circuit[g].opened > 0 => circuit[g].failures >= FailureLimit
      /\ \A g \in 0..MaxResets : circuit[g] \in CircuitRow
      /\ \A c \in Caller : call[c] \in CallRow
  BY DEF BreakerInv, CallsKept, Trying, OpenHasCause, IsOpen
<1>1. \A n \in 0..1 : [NoCall EXCEPT !.ops = n] \in CallRow /\ [NoCall EXCEPT !.ops = n].pc = "idle"
  BY BreakerConstants DEF NoCall, CallRow
<1>2. \A k \in CircuitRow : /\ Failed(k) \in CircuitRow /\ Failed(k).hits = k.hits
                            /\ (k.opened > 0 => k.failures >= FailureLimit) =>
                                 (Failed(k).opened > 0 => Failed(k).failures >= FailureLimit)
  <2> TAKE k \in CircuitRow
  <2> DEFINE n == AtMost(k.failures + 1, FailureLimit)
             o == IF n >= FailureLimit THEN Cooldown ELSE k.opened
  <2>1. Failed(k) = [k EXCEPT !.failures = n, !.opened = IF n >= FailureLimit THEN Cooldown ELSE @]
    BY DEF Failed
  <2>2. /\ k.failures \in Nat /\ k.opened \in Nat /\ n \in Nat /\ o \in Nat
        /\ (k.failures >= FailureLimit => n >= FailureLimit)
    BY BreakerConstants DEF CircuitRow, AtMost
  <2> HIDE DEF n
  <2>3. Failed(k) \in CircuitRow /\ Failed(k).failures = n /\ Failed(k).opened = o /\ Failed(k).hits = k.hits
    BY <2>1, <2>2 DEF CircuitRow
  <2> QED
    BY <2>2, <2>3
<1>3. \A k \in CircuitRow : /\ Struck(k) \in CircuitRow /\ Struck(k).opened = k.opened
                            /\ Struck(k).failures = k.failures
                            /\ Struck(k).hits = IF k.opened > 0 THEN k.hits + 1 ELSE 0
  BY DEF CircuitRow, Struck
<1>4. \A k : Healed(k) \in CircuitRow /\ Healed(k).opened = 0 /\ Healed(k).hits = 0
  BY DEF Healed, ClosedCircuit, CircuitRow
<1>5. \A c \in Caller, g \in 0..MaxResets : Retries(call, g)[c] \in Nat
  BY RetriesBounded DEF BreakerInv
\* A request that is over, with its circuit as k.
<1>6. ASSUME NEW c \in Caller, NEW n \in 0..1, Ended(c, n), UNCHANGED current,
             NEW g \in 0..MaxResets, Trying(c) => g = call[c].circ,
             NEW k \in CircuitRow, circuit' = [circuit EXCEPT ![g] = k],
             k.opened > 0 => k.failures >= FailureLimit, k.hits = 0 \/ k.hits = circuit[g].hits
      PROVE  BreakerInv'
  <2> DEFINE q == [NoCall EXCEPT !.ops = n]
  <2>1. q \in CallRow /\ q.pc = "idle" /\ call' = [call EXCEPT ![c] = q]
    BY <1>1, <1>6 DEF Ended
  <2> HIDE DEF q
  <2>2. k.hits = 0 \/ k.hits <= circuit[g].hits + Retries(call, g)[c]
    BY <1>0, <1>5, <1>6 DEF CircuitRow
  <2>3. current' \in 0..MaxResets
    BY <1>0, <1>6
  <2> QED
    BY <1>6, <2>1, <2>2, <2>3, BreakerChange
<1>7. ASSUME NEW c \in Caller PROVE /\ call[c].circ \in 0..MaxResets
                                    /\ call[c].ops \in 0..1
                                    /\ Trying(c) => call[c].ops - 1 \in 0..1
                                    /\ call[c].ops > 0 => call[c].ops - 1 \in 0..1
  BY <1>0 DEF CallRow
<1>8. ASSUME NEW g \in 0..MaxResets PROVE circuit = [circuit EXCEPT ![g] = circuit[g]]
  BY <1>0
<1>9. ASSUME NEW c \in Caller, BeginCall(c) PROVE BreakerInv'
  <2>1. CASE IsOpen(current)
    BY <1>9, <2>1 DEF BeginCall, BreakerInv, CallsKept, OpenHasCause, IsOpen
  <2>2. CASE ~IsOpen(current)
    <3> DEFINE q == [pc |-> "trying", left |-> Attempts, circ |-> current, ops |-> 1]
               k == Struck(circuit[current])
    <3>1. call' = [call EXCEPT ![c] = q] /\ circuit' = [circuit EXCEPT ![current] = k]
          /\ current' = current /\ call[c] = NoCall
      BY <1>9, <2>2 DEF BeginCall
    <3>2. q \in CallRow /\ q.pc = "trying" /\ q.left \in 1..Attempts /\ q.ops = 1 /\ q.circ = current
      BY <1>0, BreakerConstants DEF CallRow
    <3>3. k \in CircuitRow /\ ~(k.opened > 0) /\ k.hits = 0
      BY <1>0, <1>3, <2>2 DEF IsOpen
    <3>4. ~Trying(c)
      BY <3>1 DEF Trying, NoCall
    <3> HIDE DEF q, k
    <3> QED
      BY <1>0, <3>1, <3>2, <3>3, <3>4, BreakerChange
  <2> QED
    BY <2>1, <2>2
<1>10. ASSUME NEW c \in Caller, Succeed(c) PROVE BreakerInv'
  <2> DEFINE g == call[c].circ
             k == Healed(circuit[g])
  <2>1. Trying(c) /\ Ended(c, call[c].ops - 1) /\ circuit' = [circuit EXCEPT ![g] = k] /\ UNCHANGED current
    BY <1>10 DEF Succeed
  <2>2. k \in CircuitRow /\ ~(k.opened > 0) /\ k.hits = 0 /\ g \in 0..MaxResets /\ call[c].ops - 1 \in 0..1
    BY <1>4, <1>7, <2>1
  <2> HIDE DEF k
  <2> QED
    BY <1>6, <2>1, <2>2
<1>11. ASSUME NEW c \in Caller, NotRequested(c) \/ Cancelled(c) \/ ThreadEnds(c) PROVE BreakerInv'
  <2> DEFINE g == call[c].circ
             k == circuit[g]
  <2>1. PICK n \in 0..1 : Ended(c, n) /\ UNCHANGED <<circuit, current>>
    BY <1>7, <1>11 DEF NotRequested, Cancelled, ThreadEnds
  <2>2. k \in CircuitRow /\ (k.opened > 0 => k.failures >= FailureLimit) /\ g \in 0..MaxResets
        /\ circuit' = [circuit EXCEPT ![g] = k] /\ k.hits = circuit[g].hits
    BY <1>0, <1>7, <1>8, <2>1
  <2> HIDE DEF k
  <2> QED
    BY <1>6, <2>1, <2>2
<1>12. ASSUME NEW c \in Caller, NEW n \in 0..1, Trying(c), Ended(c, n), UNCHANGED current,
              circuit' = [circuit EXCEPT ![call[c].circ] = Failed(@)]
       PROVE  BreakerInv'
  <2> DEFINE g == call[c].circ
             k == Failed(circuit[g])
  <2>1. k \in CircuitRow /\ (k.opened > 0 => k.failures >= FailureLimit) /\ g \in 0..MaxResets
        /\ k.hits = circuit[g].hits
    BY <1>0, <1>2, <1>7
  <2>2. circuit' = [circuit EXCEPT ![g] = k]
    BY <1>12
  <2> HIDE DEF k
  <2> QED
    BY <1>6, <1>12, <2>1, <2>2
<1>13. ASSUME NEW c \in Caller, TimeOut(c) \/ RaiseTimeout(c) PROVE BreakerInv'
  BY <1>7, <1>12, <1>13 DEF TimeOut, RaiseTimeout
<1>14. ASSUME NEW c \in Caller, Raise(c) PROVE BreakerInv'
  <2>1. CASE call[c].left > 1
    <3> DEFINE g == call[c].circ
               k == Struck(circuit[g])
               q == [call[c] EXCEPT !.left = @ - 1]
    <3>1. Trying(c) /\ current' = current /\ call' = [call EXCEPT ![c] = q]
          /\ circuit' = [circuit EXCEPT ![g] = k]
      BY <1>14, <2>1 DEF Raise
    <3>2. call[c] \in CallRow /\ call[c].pc = "trying" /\ call[c].left \in 1..Attempts /\ call[c].ops = 1
      BY <1>0, <3>1 DEF Trying
    <3>3. q \in CallRow /\ q.pc = "trying" /\ q.left = call[c].left - 1 /\ q.ops = 1 /\ q.circ = g
      BY <2>1, <3>2 DEF CallRow
    <3>4. k \in CircuitRow /\ (k.opened > 0 => k.failures >= FailureLimit) /\ g \in 0..MaxResets
          /\ (k.hits = 0 \/ k.hits = circuit[g].hits + 1) /\ circuit[g].hits \in Nat
      BY <1>0, <1>3, <1>7 DEF CircuitRow
    <3>5. Retries(call, g)[c] = call[c].left - 1
      BY <3>2 DEF Retries
    <3> HIDE DEF k, q
    <3>6. k.hits = 0 \/ (k.hits + (q.left - 1) <= circuit[g].hits + Retries(call, g)[c])
      BY <3>2, <3>3, <3>4, <3>5, BreakerConstants
    <3>7. q.left \in 1..Attempts /\ current' \in 0..MaxResets
      BY <1>0, <2>1, <3>1, <3>2, <3>3, BreakerConstants
    <3> QED
      BY <3>1, <3>3, <3>4, <3>6, <3>7, BreakerChange
  <2>2. CASE ~(call[c].left > 1)
    BY <1>7, <1>12, <1>14, <2>2 DEF Raise
  <2> QED
    BY <2>1, <2>2
<1>15. CASE CircuitTick
  <2>1. DOMAIN circuit = 0..MaxResets /\ call' = call /\ current' = current
    BY <1>0, <1>15 DEF CircuitTick
  <2>2. \A g \in 0..MaxResets :
          /\ circuit'[g] \in CircuitRow /\ circuit'[g].failures = circuit[g].failures
          /\ circuit'[g].hits <= circuit[g].hits /\ circuit'[g].opened <= circuit[g].opened
    <3> TAKE g \in 0..MaxResets
    <3>1. circuit[g] \in CircuitRow
      BY <1>0
    <3>2. circuit'[g] = IF circuit[g].opened > 1 THEN [circuit[g] EXCEPT !.opened = @ - 1]
                        ELSE [circuit[g] EXCEPT !.opened = 0, !.hits = 0]
      BY <1>15, <2>1 DEF CircuitTick
    <3>3. CASE circuit[g].opened > 1
      BY <3>1, <3>2, <3>3 DEF CircuitRow
    <3>4. CASE ~(circuit[g].opened > 1)
      <4> DEFINE k == [circuit[g] EXCEPT !.opened = 0]
      <4>1. /\ k \in CircuitRow /\ k.failures = circuit[g].failures
            /\ k.opened = 0 /\ k.hits = circuit[g].hits
        BY <3>1 DEF CircuitRow
      <4>2. circuit'[g] = [k EXCEPT !.hits = 0]
        BY <3>2, <3>4
      <4> HIDE DEF k
      <4>3. /\ circuit'[g] \in CircuitRow /\ circuit'[g].failures = k.failures
            /\ circuit'[g].opened = k.opened /\ circuit'[g].hits = 0
        BY <4>1, <4>2 DEF CircuitRow
      <4> QED
        BY <3>1, <4>1, <4>3 DEF CircuitRow
    <3> QED
      BY <3>3, <3>4
  <2>3. circuit' \in [0..MaxResets -> CircuitRow]
    BY <1>15, <2>1, <2>2 DEF CircuitTick
  <2>4. OpenHasCause'
    BY <1>0, <2>2, <2>3 DEF OpenHasCause, IsOpen, CircuitRow
  <2>5. \A g \in 0..MaxResets : circuit'[g].hits + SumOf(Retries(call', g), Caller) <= RetriesInAll
    <3>1. \A g \in 0..MaxResets : SumOf(Retries(call, g), Caller) \in Nat
      BY RetriesBounded DEF BreakerInv
    <3> QED
      <4>1. \A g \in 0..MaxResets : circuit[g].hits \in Nat /\ circuit'[g].hits \in Nat
        BY <1>0, <2>2 DEF CircuitRow
      <4> QED
        BY <2>1, <2>2, <3>1, <4>1, BreakerConstants DEF BreakerInv
  <2> QED
    BY <1>0, <2>1, <2>3, <2>4, <2>5 DEF BreakerInv, RetriesInAll
<1>16. CASE Reset
  BY <1>0, <1>16, BreakerConstants DEF Reset, BreakerInv, CallsKept, OpenHasCause, IsOpen, RetriesInAll
<1>17. CASE UNCHANGED bvars
  BY <1>17 DEF bvars, BreakerInv, CallsKept, OpenHasCause, IsOpen, RetriesInAll
<1> QED
  BY <1>9, <1>10, <1>11, <1>13, <1>14, <1>15, <1>16, <1>17 DEF BNext

\* The breaker opens for a reason, lets no more through than the retries of the
\* requests at work, and never runs two operations of one request, for any
\* number of requests, threshold, cooldown and attempts.
THEOREM BreakerStaysConsistent == BSpec => []BreakerConsistent
<1>1. BreakerInv => BreakerConsistent
  <2> SUFFICES ASSUME BreakerInv PROVE BreakerConsistent
    OBVIOUS
  <2>1. \A g \in DOMAIN circuit : circuit[g].hits <= RetriesInAll
    <3>1. \A g \in 0..MaxResets : SumOf(Retries(call, g), Caller) \in Nat /\ circuit[g].hits \in Nat
      BY RetriesBounded DEF BreakerInv, CircuitRow
    <3> QED
      BY <3>1, BreakerConstants DEF BreakerInv
  <2>2. OneOperation
    BY DEF BreakerInv, CallsKept, CallRow, OneOperation
  <2> QED
    BY <2>1, <2>2 DEF BreakerInv, BreakerConsistent, BoundedPressure, RetriesInAll
<1> QED
  BY <1>1, BreakerStart, BreakerStep, PTL DEF BSpec
-----------------------------------------------------------------------------
(* CatalogueCache: a page is exact when no change was committed between    *)
(* the first revision read and the last; a build lock has one holder.      *)

\* Every entry of s is an entry of t.
Among(s, t) == \A i \in DOMAIN s : \E j \in DOMAIN t : s[i] = t[j]

LEMMA RemoveAtAmong ==
  ASSUME NEW S, NEW s \in Seq(S), NEW i \in DOMAIN s
  PROVE  RemoveAt(s, i) \in Seq(S) /\ Among(RemoveAt(s, i), s)
<1> DEFINE a == SubSeq(s, 1, i - 1)
           b == SubSeq(s, i + 1, Len(s))
<1>1. i \in 1..Len(s) /\ Len(s) \in Nat /\ DOMAIN s = 1..Len(s)
  OBVIOUS
<1>2. a \in Seq(S) /\ Len(a) = i - 1 /\ \A k \in 1..(i - 1) : a[k] = s[k]
  BY <1>1
<1>3. b \in Seq(S) /\ Len(b) = Len(s) - i /\ \A k \in 1..(Len(s) - i) : b[k] = s[i + k]
  BY <1>1
<1> HIDE DEF a, b
<1>4. /\ a \o b \in Seq(S) /\ Len(a \o b) = Len(s) - 1
      /\ \A k \in 1..(Len(s) - 1) : (a \o b)[k] = IF k <= i - 1 THEN a[k] ELSE b[k - (i - 1)]
  <2>1. /\ a \o b \in Seq(S) /\ Len(a \o b) = Len(a) + Len(b)
        /\ \A k \in 1..Len(a) + Len(b) : (a \o b)[k] = IF k <= Len(a) THEN a[k] ELSE b[k - Len(a)]
    BY <1>2, <1>3, ConcatProperties
  <2>2. Len(a) + Len(b) = Len(s) - 1
    BY <1>1, <1>2, <1>3
  <2> QED
    BY <1>2, <2>1, <2>2
<1>5. RemoveAt(s, i) = a \o b
  BY DEF RemoveAt, a, b
<1>6. \A k \in 1..(Len(s) - 1) : \E j \in 1..Len(s) : (a \o b)[k] = s[j]
  <2> TAKE k \in 1..(Len(s) - 1)
  <2>1. CASE k <= i - 1
    <3>1. (a \o b)[k] = s[k] /\ k \in 1..Len(s)
      BY <1>1, <1>2, <1>4, <2>1
    <3> QED
      BY <3>1
  <2>2. CASE ~(k <= i - 1)
    <3>1. k - (i - 1) \in 1..(Len(s) - i) /\ k + 1 \in 1..Len(s) /\ i + (k - (i - 1)) = k + 1
      BY <1>1, <2>2
    <3>2. (a \o b)[k] = s[k + 1]
      BY <1>3, <1>4, <2>2, <3>1
    <3> QED
      BY <3>1, <3>2
  <2> QED
    BY <2>1, <2>2
<1> QED
  <2>1. DOMAIN (a \o b) = 1..(Len(s) - 1)
    BY <1>4
  <2> QED
    BY <1>1, <1>4, <1>5, <1>6, <2>1 DEF Among

LEMMA AppendAmong ==
  ASSUME NEW S, NEW s \in Seq(S), NEW e \in S
  PROVE  /\ Append(s, e) \in Seq(S) /\ Len(Append(s, e)) = Len(s) + 1
         /\ \A i \in DOMAIN Append(s, e) : Append(s, e)[i] = e \/ \E j \in DOMAIN s : Append(s, e)[i] = s[j]
<1>1. /\ Append(s, e) \in Seq(S) /\ Len(Append(s, e)) = Len(s) + 1 /\ Append(s, e)[Len(s) + 1] = e
      /\ \A i \in 1..Len(s) : Append(s, e)[i] = s[i]
      /\ DOMAIN s = 1..Len(s) /\ Len(s) \in Nat /\ DOMAIN Append(s, e) = 1..(Len(s) + 1)
  OBVIOUS
<1>2. \A i \in 1..(Len(s) + 1) : i = Len(s) + 1 \/ i \in 1..Len(s)
  BY <1>1
<1> QED
  BY <1>1, <1>2

Catalogue == [Part -> Nat]
SomeVariant == Variant \cup {NoRequest.variant}
Entry == [rev : Nat, variant : SomeVariant, page : Catalogue]
PageRow(p, v, s, b, l, g) == [pc |-> p, variant |-> v, since |-> s, before |-> b, lock |-> l, page |-> g]
IsPageRow(q) == q = PageRow(q.pc, q.variant, q.since, q.before, q.lock, q.page)

\* A request that builds, and has seen no later revision than the one it began
\* with, has read that revision's catalogue.
PageKept(q, e, c) ==
  /\ IsPageRow(q)
  /\ q.variant \in SomeVariant /\ q.since \in 0..e /\ q.before \in 0..e
  /\ q.pc \notin {"idle", "first"} => q.since <= q.before
  /\ q.pc = "build" => \A p \in DOMAIN q.page : /\ p \in Part /\ q.page[p] \in Nat
                                                /\ q.before = e => q.page[p] = c[e + 1][p]
  /\ q.pc = "check" => q.page \in Catalogue /\ (q.before = e => q.page = c[e + 1])
  /\ q.pc = "put" => q.page \in Catalogue /\ q.page = c[q.before + 1]
  /\ q.pc = "answer" => \E d \in q.since..e : q.page = c[d + 1]

PagesInv ==
  /\ epoch \in Nat /\ content \in Seq(Catalogue) /\ Len(content) = epoch + 1
  /\ cache \in Seq(Entry)
  /\ \A i \in DOMAIN cache : cache[i].rev \in 0..epoch /\ cache[i].page = content[cache[i].rev + 1]
  /\ rq = [r \in Request |-> rq[r]] /\ \A r \in Request : PageKept(rq[r], epoch, content)

\* Several fields of a request are set at once.
Arrived(q, v, e) == [q EXCEPT !.pc = "first", !.variant = v, !.since = e]
AtRevision(q, p, e) == [q EXCEPT !.pc = p, !.before = e]
Holding(q, p, l) == [q EXCEPT !.pc = p, !.lock = l]
ToPage(q, p, g) == [q EXCEPT !.pc = p, !.page = g]
PageTo(q, g, p) == [q EXCEPT !.page = g, !.pc = p]

LEMMA PageRows ==
  ASSUME NEW q, IsPageRow(q)
  PROVE  /\ \A x, y : Arrived(q, x, y) = PageRow("first", x, y, q.before, q.lock, q.page)
         /\ \A t, x : AtRevision(q, t, x) = PageRow(t, q.variant, q.since, x, q.lock, q.page)
         /\ \A t, x : Holding(q, t, x) = PageRow(t, q.variant, q.since, q.before, x, q.page)
         /\ \A t, x : ToPage(q, t, x) = PageRow(t, q.variant, q.since, q.before, q.lock, x)
         /\ \A t, x : PageTo(q, x, t) = PageRow(t, q.variant, q.since, q.before, q.lock, x)
         /\ \A t : [q EXCEPT !.pc = t] = PageRow(t, q.variant, q.since, q.before, q.lock, q.page)
<1> SUFFICES ASSUME NEW t, NEW x, NEW y
    PROVE  /\ Arrived(q, x, y) = PageRow("first", x, y, q.before, q.lock, q.page)
           /\ AtRevision(q, t, x) = PageRow(t, q.variant, q.since, x, q.lock, q.page)
           /\ Holding(q, t, x) = PageRow(t, q.variant, q.since, q.before, x, q.page)
           /\ ToPage(q, t, x) = PageRow(t, q.variant, q.since, q.before, q.lock, x)
           /\ PageTo(q, x, t) = PageRow(t, q.variant, q.since, q.before, q.lock, x)
           /\ [q EXCEPT !.pc = t] = PageRow(t, q.variant, q.since, q.before, q.lock, q.page)
  OBVIOUS
<1> DEFINE u(w) == [q EXCEPT !.pc = w]
           z == [q EXCEPT !.page = x]
<1>1. \A w : u(w) = PageRow(w, q.variant, q.since, q.before, q.lock, q.page)
  BY DEF PageRow, IsPageRow
<1>2. z = PageRow(q.pc, q.variant, q.since, q.before, q.lock, x)
  BY DEF PageRow, IsPageRow
<1> HIDE DEF u, z
<1> DEFINE a == [u("first") EXCEPT !.variant = x]
<1>3. a = PageRow("first", x, q.since, q.before, q.lock, q.page)
  BY <1>1 DEF PageRow
<1> HIDE DEF a
<1>4. [a EXCEPT !.since = y] = PageRow("first", x, y, q.before, q.lock, q.page)
  BY <1>3 DEF PageRow
<1>5. /\ [u(t) EXCEPT !.before = x] = PageRow(t, q.variant, q.since, x, q.lock, q.page)
      /\ [u(t) EXCEPT !.lock = x] = PageRow(t, q.variant, q.since, q.before, x, q.page)
      /\ [u(t) EXCEPT !.page = x] = PageRow(t, q.variant, q.since, q.before, q.lock, x)
  BY <1>1 DEF PageRow
<1>6. [z EXCEPT !.pc = t] = PageRow(t, q.variant, q.since, q.before, q.lock, x)
  BY <1>2 DEF PageRow
<1>7. Arrived(q, x, y) = PageRow("first", x, y, q.before, q.lock, q.page)
  BY <1>4 DEF Arrived, a, u
<1>8. AtRevision(q, t, x) = PageRow(t, q.variant, q.since, x, q.lock, q.page)
  BY <1>5 DEF AtRevision, u
<1>9. Holding(q, t, x) = PageRow(t, q.variant, q.since, q.before, x, q.page)
  BY <1>5 DEF Holding, u
<1>10. ToPage(q, t, x) = PageRow(t, q.variant, q.since, q.before, q.lock, x)
  BY <1>5 DEF ToPage, u
<1>11. PageTo(q, x, t) = PageRow(t, q.variant, q.since, q.before, q.lock, x)
  BY <1>6 DEF PageTo, z
<1>12. [q EXCEPT !.pc = t] = PageRow(t, q.variant, q.since, q.before, q.lock, q.page)
  BY <1>1 DEF u
<1> QED
  BY <1>7, <1>8, <1>9, <1>10, <1>11, <1>12

NewPage(r, p) ==
  [q \in DOMAIN rq[r].page \cup {p} |-> IF q = p THEN Snapshot(epoch)[p] ELSE rq[r].page[q]]

Becomes(r, p, v, s, b, l, g) == rq' = [rq EXCEPT ![r] = PageRow(p, v, s, b, l, g)]

\* What each step makes of its request.
LEMMA PageMoves ==
  ASSUME NEW r \in Request, NEW q, q = rq[r], IsPageRow(q)
  PROVE  /\ \A v \in Variant : Receive(r, v) => Becomes(r, "first", v, epoch, 0, <<>>, <<>>)
         /\ ReadRevision(r) => \/ /\ q.pc = "first"
                                  /\ Becomes(r, "look", q.variant, q.since, epoch, q.lock, q.page)
                               \/ /\ q.pc = "again"
                                  /\ Becomes(r, "relook", q.variant, q.since, epoch, q.lock, q.page)
         /\ ServeStored(r) => \E i \in Found(q.before, q.variant) :
              /\ cache' = Touched(i)
              /\ Becomes(r, "answer", q.variant, q.since, q.before, q.lock, cache[i].page)
         /\ WaitForLock(r) => Becomes(r, "wait", q.variant, q.since, q.before, LockOf(r), q.page)
         /\ TakeLock(r) => Becomes(r, "again", q.variant, q.since, q.before, q.lock, q.page)
         /\ Miss(r) => Becomes(r, "build", q.variant, q.since, q.before, q.lock, <<>>)
         /\ \A p \in Part : Read(r, p) =>
              Becomes(r, IF DOMAIN NewPage(r, p) = Part THEN "check" ELSE "build",
                      q.variant, q.since, q.before, q.lock, NewPage(r, p))
         /\ Check(r) => Becomes(r, IF epoch = q.before THEN "put" ELSE "retry",
                                q.variant, q.since, q.before, q.lock, q.page)
         /\ Put(r) => Becomes(r, "answer", q.variant, q.since, q.before, q.lock, q.page)
         /\ Reply(r) => Becomes(r, "idle", NoRequest.variant, 0, 0, <<>>, <<>>)
<1>1. NoRequest = PageRow("idle", NoRequest.variant, 0, 0, <<>>, <<>>)
  BY DEF NoRequest, PageRow
<1>0. /\ IsPageRow(NoRequest) /\ NoRequest.before = 0 /\ NoRequest.lock = <<>> /\ NoRequest.page = <<>>
  BY DEF NoRequest, PageRow, IsPageRow
<1>2. ASSUME NEW v \in Variant, Receive(r, v) PROVE Becomes(r, "first", v, epoch, 0, <<>>, <<>>)
  <2>1. Arrived(NoRequest, v, epoch) = PageRow("first", v, epoch, 0, <<>>, <<>>)
    BY <1>0, PageRows
  <2>2. rq' = [rq EXCEPT ![r] = Arrived(NoRequest, v, epoch)]
    BY <1>2 DEF Receive, Set, Arrived
  <2> QED
    BY <2>1, <2>2 DEF Becomes
<1>3. ASSUME ReadRevision(r)
      PROVE  \/ /\ q.pc = "first" /\ Becomes(r, "look", q.variant, q.since, epoch, q.lock, q.page)
             \/ /\ q.pc = "again" /\ Becomes(r, "relook", q.variant, q.since, epoch, q.lock, q.page)
  <2>1. \A t : AtRevision(q, t, epoch) = PageRow(t, q.variant, q.since, epoch, q.lock, q.page)
    BY PageRows
  <2>2. \/ q.pc = "first" /\ rq' = [rq EXCEPT ![r] = AtRevision(q, "look", epoch)]
        \/ q.pc = "again" /\ rq' = [rq EXCEPT ![r] = AtRevision(q, "relook", epoch)]
    BY <1>3 DEF ReadRevision, Set, AtRevision, AtStep
  <2> QED
    BY <2>1, <2>2 DEF Becomes
<1>4. ASSUME ServeStored(r)
      PROVE  \E i \in Found(q.before, q.variant) :
               /\ cache' = Touched(i)
               /\ Becomes(r, "answer", q.variant, q.since, q.before, q.lock, cache[i].page)
  <2>1. \A x : ToPage(q, "answer", x) = PageRow("answer", q.variant, q.since, q.before, q.lock, x)
    BY PageRows
  <2>2. PICK i \in Found(q.before, q.variant) :
          cache' = Touched(i) /\ rq' = [rq EXCEPT ![r] = ToPage(q, "answer", cache[i].page)]
    BY <1>4 DEF ServeStored, Set, ToPage
  <2> QED
    BY <2>1, <2>2 DEF Becomes
<1>5. ASSUME WaitForLock(r) PROVE Becomes(r, "wait", q.variant, q.since, q.before, LockOf(r), q.page)
  <2>1. Holding(q, "wait", LockOf(r)) = PageRow("wait", q.variant, q.since, q.before, LockOf(r), q.page)
    BY PageRows
  <2>2. rq' = [rq EXCEPT ![r] = Holding(q, "wait", LockOf(r))]
    BY <1>5 DEF WaitForLock, Set, Holding
  <2> QED
    BY <2>1, <2>2 DEF Becomes
<1>6. ASSUME Miss(r) PROVE Becomes(r, "build", q.variant, q.since, q.before, q.lock, <<>>)
  <2>1. ToPage(q, "build", <<>>) = PageRow("build", q.variant, q.since, q.before, q.lock, <<>>)
    BY PageRows
  <2>2. rq' = [rq EXCEPT ![r] = ToPage(q, "build", <<>>)]
    BY <1>6 DEF Miss, Set, ToPage
  <2> QED
    BY <2>1, <2>2 DEF Becomes
<1>7. ASSUME NEW p \in Part, Read(r, p)
      PROVE  Becomes(r, IF DOMAIN NewPage(r, p) = Part THEN "check" ELSE "build",
                     q.variant, q.since, q.before, q.lock, NewPage(r, p))
  <2>1. \A t, x : PageTo(q, x, t) = PageRow(t, q.variant, q.since, q.before, q.lock, x)
    BY PageRows
  <2>2. rq' = [rq EXCEPT ![r] =
                 PageTo(q, NewPage(r, p), IF DOMAIN NewPage(r, p) = Part THEN "check" ELSE "build")]
    BY <1>7 DEF Read, Set, PageTo, NewPage
  <2> QED
    BY <2>1, <2>2 DEF Becomes
<1>8. \A t : [q EXCEPT !.pc = t] = PageRow(t, q.variant, q.since, q.before, q.lock, q.page)
  BY PageRows
<1>9. Check(r) => Becomes(r, IF epoch = q.before THEN "put" ELSE "retry",
                          q.variant, q.since, q.before, q.lock, q.page)
  BY <1>8 DEF Check, Set, Becomes
<1>10. Put(r) => Becomes(r, "answer", q.variant, q.since, q.before, q.lock, q.page)
  BY <1>8 DEF Put, Set, Becomes
<1>11. Reply(r) => Becomes(r, "idle", NoRequest.variant, 0, 0, <<>>, <<>>)
  BY <1>1 DEF Reply, Set, Becomes
<1>12. TakeLock(r) => Becomes(r, "again", q.variant, q.since, q.before, q.lock, q.page)
  BY <1>8 DEF TakeLock, Set, Becomes
<1> QED
  BY <1>2, <1>3, <1>4, <1>5, <1>6, <1>7, <1>9, <1>10, <1>11, <1>12

LEMMA PagesStart == PInit => PagesInv
<1> SUFFICES ASSUME PInit PROVE PagesInv
  OBVIOUS
<1>1. [p \in Part |-> 0] \in Catalogue
  BY DEF Catalogue
<1>2. content \in Seq(Catalogue) /\ Len(content) = 1 /\ epoch = 0
  <2> DEFINE c == [p \in Part |-> 0]
  <2> HIDE DEF c
  <2>1. <<c>> \in Seq(Catalogue) /\ Len(<<c>>) = 1
    BY <1>1 DEF c
  <2> QED
    BY <2>1 DEF PInit, c
<1>3. cache \in Seq(Entry) /\ DOMAIN cache = {}
  BY DEF PInit
<1>4. IsPageRow(NoRequest) /\ NoRequest.pc = "idle" /\ NoRequest.since = 0 /\ NoRequest.before = 0
  BY DEF NoRequest, PageRow, IsPageRow
<1>5. \A r \in Request : PageKept(NoRequest, epoch, content)
  BY <1>2, <1>4 DEF PageKept, SomeVariant
<1> QED
  BY <1>2, <1>3, <1>5 DEF PInit, PagesInv

\* One request changes; what the cache holds is exact.
LEMMA PagesChange ==
  ASSUME PagesInv, UNCHANGED <<epoch, content>>, NEW r \in Request, NEW q, rq' = [rq EXCEPT ![r] = q],
         PageKept(q, epoch, content), cache' \in Seq(Entry),
         \A i \in DOMAIN cache' :
           cache'[i].rev \in 0..epoch /\ cache'[i].page = content[cache'[i].rev + 1]
  PROVE  PagesInv'
<1>1. rq'[r] = q /\ (\A s \in Request \ {r} : rq'[s] = rq[s]) /\ rq' = [s \in Request |-> rq'[s]]
  BY DEF PagesInv
<1>2. \A s \in Request : PageKept(rq'[s], epoch, content)
  BY <1>1 DEF PagesInv
<1> QED
  BY <1>1, <1>2 DEF PagesInv

\* A hit is moved, and a page is put.
LEMMA TouchedAmong ==
  ASSUME cache \in Seq(Entry), NEW i \in DOMAIN cache
  PROVE  Touched(i) \in Seq(Entry) /\ Among(Touched(i), cache)
<1>1. RemoveAt(cache, i) \in Seq(Entry) /\ Among(RemoveAt(cache, i), cache) /\ cache[i] \in Entry
  BY RemoveAtAmong
<1> DEFINE s == RemoveAt(cache, i)
<1> HIDE DEF s
<1>2. /\ Append(s, cache[i]) \in Seq(Entry)
      /\ \A k \in DOMAIN Append(s, cache[i]) :
           Append(s, cache[i])[k] = cache[i] \/ \E j \in DOMAIN s : Append(s, cache[i])[k] = s[j]
  BY <1>1, AppendAmong DEF s
<1>3. Touched(i) = Append(s, cache[i])
  BY DEF Touched, s
<1>4. Among(Append(s, cache[i]), cache)
  BY <1>1, <1>2 DEF Among, s
<1> QED
  BY <1>2, <1>3, <1>4

LEMMA PutAmong ==
  ASSUME cache \in Seq(Entry), NEW e \in Entry
  PROVE  /\ WithPage(e) \in Seq(Entry)
         /\ \A k \in DOMAIN WithPage(e) : WithPage(e)[k] = e \/ \E j \in DOMAIN cache : WithPage(e)[k] = cache[j]
<1> DEFINE s == WithoutPage(e.rev, e.variant)
           t == Append(s, e)
           n == IF Len(t) > MaxPages THEN Len(t) - MaxPages ELSE 0
<1>1. s \in Seq(Entry) /\ Among(s, cache)
  <2>1. CASE Found(e.rev, e.variant) = {}
    BY <2>1 DEF WithoutPage, Among
  <2>2. CASE Found(e.rev, e.variant) # {}
    <3> DEFINE i == CHOOSE k \in Found(e.rev, e.variant) : TRUE
    <3>1. i \in Found(e.rev, e.variant)
      BY <2>2
    <3>2. i \in DOMAIN cache
      BY <3>1 DEF Found
    <3>3. s = RemoveAt(cache, i)
      BY <2>2 DEF WithoutPage
    <3> HIDE DEF i, s
    <3> QED
      BY <3>2, <3>3, RemoveAtAmong
  <2> QED
    BY <2>1, <2>2
<1> HIDE DEF s
<1>2. /\ t \in Seq(Entry) /\ Len(t) = Len(s) + 1
      /\ \A k \in DOMAIN t : t[k] = e \/ \E j \in DOMAIN s : t[k] = s[j]
  BY <1>1, AppendAmong
<1>3. WithPage(e) = SubSeq(t, 1 + n, Len(t))
  BY DEF WithPage, s
<1> HIDE DEF t
<1>4. Len(t) \in Nat /\ n \in Nat /\ n <= Len(t) /\ DOMAIN t = 1..Len(t)
  BY <1>2, PagesAssumption
<1> HIDE DEF n
<1> DEFINE w == SubSeq(t, 1 + n, Len(t))
<1>5. w \in Seq(Entry) /\ Len(w) = Len(t) - n /\ \A k \in 1..(Len(t) - n) : w[k] = t[n + k]
  BY <1>2, <1>4
<1> HIDE DEF w
<1>6. \A k \in DOMAIN w : \E j \in DOMAIN t : w[k] = t[j]
  <2> TAKE k \in DOMAIN w
  <2>1. k \in 1..(Len(t) - n)
    BY <1>5
  <2>2. n + k \in DOMAIN t /\ w[k] = t[n + k]
    BY <1>4, <1>5, <2>1
  <2> QED
    BY <2>2
<1>7. \A k \in DOMAIN w : w[k] = e \/ \E j \in DOMAIN cache : w[k] = cache[j]
  BY <1>1, <1>2, <1>6 DEF Among
<1> QED
  BY <1>3, <1>5, <1>7 DEF w

LEMMA PagesStep == PagesInv /\ [PNext]_pvars => PagesInv'
<1> SUFFICES ASSUME PagesInv, [PNext]_pvars PROVE PagesInv'
  OBVIOUS
<1>0. /\ epoch \in Nat /\ content \in Seq(Catalogue) /\ Len(content) = epoch + 1 /\ cache \in Seq(Entry)
      /\ \A i \in DOMAIN cache : cache[i].rev \in 0..epoch /\ cache[i].page = content[cache[i].rev + 1]
  BY DEF PagesInv
<1>1. \A d \in 0..epoch : content[d + 1] \in Catalogue
  BY <1>0
\* The steps that leave the cache alone.
<1>2. ASSUME NEW r \in Request, NEW p, NEW v \in SomeVariant, NEW s \in 0..epoch, NEW b \in 0..epoch,
             NEW l, NEW g, Becomes(r, p, v, s, b, l, g), UNCHANGED <<epoch, content, cache>>,
             PageKept(PageRow(p, v, s, b, l, g), epoch, content)
      PROVE  PagesInv'
  <2> DEFINE q == PageRow(p, v, s, b, l, g)
  <2>1. rq' = [rq EXCEPT ![r] = q] /\ PageKept(q, epoch, content)
    BY <1>2 DEF Becomes
  <2> HIDE DEF q
  <2> QED
    BY <1>0, <1>2, <2>1, PagesChange
<1>3. ASSUME NEW p, NEW v, NEW s, NEW b, NEW l, NEW g
      PROVE  LET q == PageRow(p, v, s, b, l, g) IN
             /\ IsPageRow(q) /\ q.pc = p /\ q.variant = v /\ q.since = s /\ q.before = b
             /\ q.lock = l /\ q.page = g
  BY DEF PageRow, IsPageRow
<1>4. ASSUME NEW r \in Request
      PROVE  /\ IsPageRow(rq[r]) /\ rq[r].variant \in SomeVariant
             /\ rq[r].since \in 0..epoch /\ rq[r].before \in 0..epoch
             /\ PageKept(rq[r], epoch, content)
  BY DEF PagesInv, PageKept
<1>5. ASSUME NEW r \in Request, NEW v \in Variant, Receive(r, v) PROVE PagesInv'
  <2>1. Becomes(r, "first", v, epoch, 0, <<>>, <<>>) /\ UNCHANGED <<epoch, content, cache>>
    BY <1>4, <1>5, PageMoves DEF Receive
  <2>2. PageKept(PageRow("first", v, epoch, 0, <<>>, <<>>), epoch, content)
    BY <1>0, <1>3 DEF PageKept, SomeVariant
  <2>3. v \in SomeVariant /\ epoch \in 0..epoch /\ 0 \in 0..epoch
    BY <1>0 DEF SomeVariant
  <2> QED
    BY <1>2, <2>1, <2>2, <2>3
<1>6. ASSUME NEW r \in Request, ReadRevision(r) PROVE PagesInv'
  <2> DEFINE q == rq[r]
  <2>1. PICK p \in {"look", "relook"} : Becomes(r, p, q.variant, q.since, epoch, q.lock, q.page)
    BY <1>4, <1>6, PageMoves
  <2>2. PageKept(PageRow(p, q.variant, q.since, epoch, q.lock, q.page), epoch, content)
    BY <1>0, <1>3, <1>4 DEF PageKept
  <2>3. epoch \in 0..epoch /\ UNCHANGED <<epoch, content, cache>>
    BY <1>0, <1>6 DEF ReadRevision
  <2> QED
    BY <1>2, <1>4, <2>1, <2>2, <2>3
<1>7. ASSUME NEW r \in Request, ServeStored(r) PROVE PagesInv'
  <2> DEFINE q == rq[r]
  <2>1. PICK i \in Found(q.before, q.variant) :
          /\ cache' = Touched(i)
          /\ Becomes(r, "answer", q.variant, q.since, q.before, q.lock, cache[i].page)
    BY <1>4, <1>7, PageMoves
  <2>2. i \in DOMAIN cache /\ cache[i].rev = q.before /\ q.pc \in {"look", "relook"}
        /\ UNCHANGED <<epoch, content>>
    BY <1>7, <2>1 DEF Found, ServeStored, AtStep
  <2>3. cache' \in Seq(Entry) /\ Among(cache', cache)
    BY <1>0, <2>1, <2>2, TouchedAmong
  <2>4. \A k \in DOMAIN cache' : cache'[k].rev \in 0..epoch /\ cache'[k].page = content[cache'[k].rev + 1]
    BY <1>0, <2>3 DEF Among
  <2>5. cache[i].page = content[q.before + 1] /\ q.since <= q.before
    BY <1>0, <1>4, <2>2 DEF PageKept
  <2> DEFINE u == PageRow("answer", q.variant, q.since, q.before, q.lock, cache[i].page)
  <2>6. PageKept(u, epoch, content)
    <3>1. IsPageRow(u) /\ u.pc = "answer" /\ u.variant = q.variant /\ u.since = q.since
          /\ u.before = q.before /\ u.page = cache[i].page
      BY <1>3
    <3> HIDE DEF u
    <3>2. q.before \in q.since..epoch
      BY <1>0, <1>4, <2>5
    <3> QED
      BY <1>4, <2>5, <3>1, <3>2 DEF PageKept
  <2>7. rq' = [rq EXCEPT ![r] = u]
    BY <2>1 DEF Becomes
  <2> HIDE DEF u
  <2> QED
    BY <2>2, <2>3, <2>4, <2>6, <2>7, PagesChange
<1>8. ASSUME NEW r \in Request, WaitForLock(r) \/ TakeLock(r) PROVE PagesInv'
  <2> DEFINE q == rq[r]
  <2>1. PICK p \in {"wait", "again"}, l \in {LockOf(r), q.lock} :
          Becomes(r, p, q.variant, q.since, q.before, l, q.page)
    BY <1>4, <1>8, PageMoves
  <2>2. q.pc \in {"look", "wait"} /\ UNCHANGED <<epoch, content, cache>>
    BY <1>8 DEF WaitForLock, TakeLock, AtStep
  <2>3. PageKept(PageRow(p, q.variant, q.since, q.before, l, q.page), epoch, content)
    BY <1>3, <1>4, <2>2 DEF PageKept
  <2> QED
    BY <1>2, <1>4, <2>1, <2>2, <2>3
<1>9. ASSUME NEW r \in Request, Miss(r) PROVE PagesInv'
  <2> DEFINE q == rq[r]
  <2>1. Becomes(r, "build", q.variant, q.since, q.before, q.lock, <<>>)
    BY <1>4, <1>9, PageMoves
  <2>2. q.pc = "relook" /\ UNCHANGED <<epoch, content, cache>>
    BY <1>9 DEF Miss, AtStep
  <2>3. PageKept(PageRow("build", q.variant, q.since, q.before, q.lock, <<>>), epoch, content)
    <3>1. DOMAIN <<>> = {}
      OBVIOUS
    <3> QED
      BY <1>3, <1>4, <2>2, <3>1 DEF PageKept
  <2> QED
    BY <1>2, <1>4, <2>1, <2>2, <2>3
<1>10. ASSUME NEW r \in Request, NEW p \in Part, Read(r, p) PROVE PagesInv'
  <2> DEFINE q == rq[r]
             g == NewPage(r, p)
             t == IF DOMAIN g = Part THEN "check" ELSE "build"
  <2>1. Becomes(r, t, q.variant, q.since, q.before, q.lock, g)
    BY <1>4, <1>10, PageMoves
  <2>2. q.pc = "build" /\ UNCHANGED <<epoch, content, cache>>
    BY <1>10 DEF Read, AtStep
  <2>3. /\ DOMAIN g = DOMAIN q.page \cup {p} /\ g = [x \in DOMAIN g |-> g[x]]
        /\ \A x \in DOMAIN g : g[x] = IF x = p THEN content[epoch + 1][p] ELSE q.page[x]
    BY DEF NewPage, Snapshot
  <2>4. content[epoch + 1] \in Catalogue
    BY <1>0, <1>1
  <2>5. \A x \in DOMAIN q.page : /\ x \in Part /\ q.page[x] \in Nat
                                 /\ q.before = epoch => q.page[x] = content[epoch + 1][x]
    BY <1>4, <2>2 DEF PageKept
  <2> HIDE DEF g
  <2>6. \A x \in DOMAIN g : /\ x \in Part /\ g[x] \in Nat
                            /\ q.before = epoch => g[x] = content[epoch + 1][x]
    <3> TAKE x \in DOMAIN g
    <3>1. CASE x = p
      BY <2>3, <2>4, <3>1 DEF Catalogue
    <3>2. CASE x # p
      BY <2>3, <2>5, <3>2
    <3> QED
      BY <3>1, <3>2
  <2>7. DOMAIN g = Part => g \in Catalogue /\ (q.before = epoch => g = content[epoch + 1])
    BY <2>3, <2>4, <2>6 DEF Catalogue
  <2>8. PageKept(PageRow(t, q.variant, q.since, q.before, q.lock, g), epoch, content)
    <3> DEFINE u == PageRow(t, q.variant, q.since, q.before, q.lock, g)
    <3>1. IsPageRow(u) /\ u.pc = t /\ u.variant = q.variant /\ u.since = q.since
          /\ u.before = q.before /\ u.page = g
      BY <1>3
    <3>2. u.pc = "build" \/ (u.pc = "check" /\ DOMAIN g = Part)
      BY <3>1
    <3> SUFFICES PageKept(u, epoch, content)
      OBVIOUS
    <3> HIDE DEF u, t
    <3> QED
      <4>1. u.variant \in SomeVariant /\ u.since \in 0..epoch /\ u.before \in 0..epoch
            /\ u.since <= u.before
        BY <1>4, <2>2, <3>1 DEF PageKept
      <4>2. CASE u.pc = "build"
        <5>1. \A x \in DOMAIN u.page : /\ x \in Part /\ u.page[x] \in Nat
                                       /\ u.before = epoch => u.page[x] = content[epoch + 1][x]
          BY <2>6, <3>1
        <5> QED
          BY <3>1, <4>1, <4>2, <5>1 DEF PageKept
      <4>3. CASE u.pc = "check" /\ DOMAIN g = Part
        <5>1. u.page \in Catalogue /\ (u.before = epoch => u.page = content[epoch + 1])
          BY <2>7, <3>1, <4>3
        <5> QED
          BY <3>1, <4>1, <4>3, <5>1 DEF PageKept
      <4> QED
        BY <3>2, <4>2, <4>3
  <2> HIDE DEF t
  <2> QED
    BY <1>2, <1>4, <2>1, <2>2, <2>8
<1>11. ASSUME NEW r \in Request, Check(r) PROVE PagesInv'
  <2> DEFINE q == rq[r]
             t == IF epoch = q.before THEN "put" ELSE "retry"
  <2>1. Becomes(r, t, q.variant, q.since, q.before, q.lock, q.page)
    BY <1>4, <1>11, PageMoves
  <2>2. q.pc = "check" /\ UNCHANGED <<epoch, content, cache>>
    BY <1>11 DEF Check, AtStep
  <2>3. PageKept(PageRow(t, q.variant, q.since, q.before, q.lock, q.page), epoch, content)
    BY <1>3, <1>4, <2>2 DEF PageKept
  <2> HIDE DEF t
  <2> QED
    BY <1>2, <1>4, <2>1, <2>2, <2>3
<1>12. ASSUME NEW r \in Request, Put(r) PROVE PagesInv'
  <2> DEFINE q == rq[r]
             e == [rev |-> q.before, variant |-> q.variant, page |-> q.page]
             u == PageRow("answer", q.variant, q.since, q.before, q.lock, q.page)
  <2>1. q.pc = "put" /\ cache' = WithPage(e) /\ UNCHANGED <<epoch, content>>
    BY <1>12 DEF Put, AtStep
  <2>2. rq' = [rq EXCEPT ![r] = u]
    BY <1>4, <1>12, PageMoves DEF Becomes
  <2>3. q.page \in Catalogue /\ q.page = content[q.before + 1] /\ q.since <= q.before
    BY <1>4, <2>1 DEF PageKept
  <2>4. e \in Entry /\ e.rev = q.before /\ e.page = q.page
    BY <1>0, <1>4, <2>3 DEF Entry
  <2> HIDE DEF e
  <2>5. /\ cache' \in Seq(Entry)
        /\ \A k \in DOMAIN cache' : cache'[k] = e \/ \E j \in DOMAIN cache : cache'[k] = cache[j]
    BY <1>0, <2>1, <2>4, PutAmong
  <2>6. \A k \in DOMAIN cache' : cache'[k].rev \in 0..epoch /\ cache'[k].page = content[cache'[k].rev + 1]
    BY <1>0, <1>4, <2>3, <2>4, <2>5
  <2>7. PageKept(u, epoch, content)
    <3>1. IsPageRow(u) /\ u.pc = "answer" /\ u.variant = q.variant /\ u.since = q.since
          /\ u.before = q.before /\ u.page = q.page
      BY <1>3
    <3> HIDE DEF u
    <3>2. q.before \in q.since..epoch
      BY <1>0, <1>4, <2>3
    <3> QED
      BY <1>4, <2>3, <3>1, <3>2 DEF PageKept
  <2> HIDE DEF u
  <2> QED
    BY <2>1, <2>2, <2>5, <2>6, <2>7, PagesChange
<1>13. ASSUME NEW r \in Request, Reply(r) PROVE PagesInv'
  <2>1. Becomes(r, "idle", NoRequest.variant, 0, 0, <<>>, <<>>) /\ UNCHANGED <<epoch, content, cache>>
    BY <1>4, <1>13, PageMoves DEF Reply
  <2>2. PageKept(PageRow("idle", NoRequest.variant, 0, 0, <<>>, <<>>), epoch, content)
    BY <1>0, <1>3 DEF PageKept, SomeVariant
  <2>3. NoRequest.variant \in SomeVariant /\ 0 \in 0..epoch
    BY <1>0 DEF SomeVariant
  <2> QED
    BY <1>2, <2>1, <2>2, <2>3
<1>14. CASE Change
  <2>1. PICK P \in SUBSET Part : content' = Append(content, [p \in Part |->
                                    IF p \in P THEN epoch + 1 ELSE Snapshot(epoch)[p]])
    BY <1>14 DEF Change
  <2> DEFINE c == [p \in Part |-> IF p \in P THEN epoch + 1 ELSE Snapshot(epoch)[p]]
  <2>2. c \in Catalogue
    BY <1>0, <1>1 DEF Catalogue, Snapshot
  <2> HIDE DEF c
  <2>3. content' = Append(content, c) /\ epoch' = epoch + 1 /\ UNCHANGED <<cache, rq>>
    BY <1>14, <2>1 DEF Change, c
  <2>4. /\ content' \in Seq(Catalogue) /\ Len(content') = epoch' + 1
        /\ \A d \in 0..epoch : content'[d + 1] = content[d + 1]
    BY <1>0, <2>2, <2>3
  <2>5. \A i \in DOMAIN cache : cache[i].rev \in 0..epoch' /\ cache[i].page = content'[cache[i].rev + 1]
    BY <1>0, <2>3, <2>4
  <2>6. ASSUME NEW r \in Request PROVE PageKept(rq[r], epoch', content')
    <3>1. rq[r].since \in 0..epoch' /\ rq[r].before \in 0..epoch' /\ rq[r].before # epoch'
      BY <1>0, <1>4, <2>3
    <3>2. rq[r].pc = "answer" => \E d \in rq[r].since..epoch' : rq[r].page = content'[d + 1]
      <4>1. SUFFICES ASSUME rq[r].pc = "answer"
                     PROVE \E d \in rq[r].since..epoch' : rq[r].page = content'[d + 1]
        OBVIOUS
      <4>2. PICK d \in rq[r].since..epoch : rq[r].page = content[d + 1]
        BY <1>4, <4>1 DEF PageKept
      <4>3. d \in 0..epoch /\ d \in rq[r].since..epoch'
        BY <1>0, <1>4, <2>3
      <4> QED
        BY <2>4, <4>2, <4>3
    <3> QED
      BY <1>4, <2>4, <3>1, <3>2 DEF PageKept
  <2> QED
    BY <1>0, <2>3, <2>4, <2>5, <2>6 DEF PagesInv
<1>15. CASE UNCHANGED pvars
  BY <1>15 DEF pvars, PagesInv
<1> QED
  BY <1>5, <1>6, <1>7, <1>8, <1>9, <1>10, <1>11, <1>12, <1>13, <1>14, <1>15 DEF PNext

\* Neither a stored page nor an answer mixes two revisions, for any number of
\* requests, parts, variants and changes, and for either kind of build lock.
THEOREM PagesStayExact == PSpec => []PagesExact
<1>1. PagesInv => PagesExact
  BY DEF PagesInv, PageKept, PagesExact, StoredIsExact, AnswerIsCurrent, Snapshot, AtStep
<1> QED
  BY <1>1, PagesStart, PagesStep, PTL DEF PSpec

\* A request has the lock of its first miss; once it no longer waits, it holds that lock.
Holds(q) == q.lock # <<>> /\ q.pc # "wait"

\* No lock has two holders, whatever was asked of it.
LockKept ==
  /\ \A r \in Request :
       /\ Holds(rq[r]) => rq[r].lock \in building
       /\ rq[r].pc \in {"idle", "first", "look"} => rq[r].lock = <<>>
       /\ rq[r].pc \in {"wait", "again", "relook", "build", "check", "put"} => rq[r].lock # <<>>
       /\ ~PerRevision => rq[r].lock \in {<<>>, <<"route">>}
  /\ \A r, s \in Request : Holds(rq[r]) /\ Holds(rq[s]) /\ rq[r].lock = rq[s].lock => r = s

NoneStored(c, rev, v) == \A i \in DOMAIN c : ~(c[i].rev = rev /\ c[i].variant = v)

ScanInv ==
  /\ PagesInv /\ LockKept
  /\ ~PerRevision =>
       \A r \in Request : Builds(r) => NoneStored(cache, rq[r].before, rq[r].variant)

LEMMA ScanStart == PInit => ScanInv
<1> SUFFICES ASSUME PInit PROVE ScanInv
  OBVIOUS
<1>1. \A r \in Request : rq[r].pc = "idle" /\ rq[r].lock = <<>>
  BY DEF PInit, NoRequest
<1> QED
  BY <1>1, PagesStart DEF PInit, ScanInv, LockKept, Holds, Builds

\* One request changes and keeps its lock, which it has or waits for as before.
LEMMA ScanChange ==
  ASSUME ScanInv, PagesInv', UNCHANGED <<route, building>>, NEW r \in Request,
         NEW p, NEW v, NEW s, NEW b, NEW g, Becomes(r, p, v, s, b, rq[r].lock, g),
         p \in {"idle", "first", "look"} => rq[r].lock = <<>>,
         p \in {"wait", "again", "relook", "build", "check", "put"} => rq[r].lock # <<>>,
         p # "wait", rq[r].pc # "wait",
         ~PerRevision /\ p \in {"build", "check", "put"} => NoneStored(cache, b, v),
         Among(cache', cache)
  PROVE  ScanInv'
<1> DEFINE q == PageRow(p, v, s, b, rq[r].lock, g)
<1>1. q.pc = p /\ q.variant = v /\ q.before = b /\ q.lock = rq[r].lock
  BY DEF PageRow
<1> HIDE DEF q
<1>2. rq'[r] = q /\ \A t \in Request \ {r} : rq'[t] = rq[t]
  BY DEF ScanInv, PagesInv, Becomes, q
<1>3. \A t \in Request : rq'[t].lock = rq[t].lock /\ (Holds(rq'[t]) <=> Holds(rq[t]))
  BY <1>1, <1>2 DEF Holds
<1>4. PerRevision' = PerRevision
  BY DEF PerRevision
<1>5. LockKept'
  BY <1>1, <1>2, <1>3, <1>4 DEF ScanInv, LockKept
<1>6. ASSUME ~PerRevision, NEW t \in Request, Builds(t)'
      PROVE  NoneStored(cache, rq'[t].before, rq'[t].variant)
  <2>1. CASE t = r
    BY <1>1, <1>2, <1>6, <2>1 DEF Builds
  <2>2. CASE t # r
    BY <1>2, <1>6, <2>2 DEF Builds, ScanInv
  <2> QED
    BY <2>1, <2>2
<1>7. \A e, w : NoneStored(cache, e, w) => NoneStored(cache', e, w)
  BY DEF Among, NoneStored
<1> QED
  BY <1>4, <1>5, <1>6, <1>7 DEF ScanInv

LEMMA ScanStep == ScanInv /\ [PNext]_pvars => ScanInv'
<1> SUFFICES ASSUME ScanInv, [PNext]_pvars PROVE ScanInv'
  OBVIOUS
<1>1. PagesInv /\ PagesInv' /\ route' = route /\ PerRevision' = PerRevision
  BY PagesStep DEF ScanInv, PNext, pvars, PerRevision
<1>2. \A r \in Request : IsPageRow(rq[r]) /\ rq[r] = rq[r]
  BY <1>1 DEF PagesInv, PageKept
<1>3. Among(cache, cache)
  BY DEF Among
<1>4. cache \in Seq(Entry)
  BY <1>1 DEF PagesInv
<1>5. ASSUME NEW r \in Request
      PROVE  /\ rq[r].pc \in {"idle", "first", "look"} => rq[r].lock = <<>>
             /\ rq[r].pc \in {"wait", "again", "relook", "build", "check", "put"} => rq[r].lock # <<>>
  BY DEF ScanInv, LockKept
<1>6. ASSUME NEW r \in Request, NEW v \in Variant, Receive(r, v) PROVE ScanInv'
  <2>1. Becomes(r, "first", v, epoch, 0, <<>>, <<>>) /\ UNCHANGED <<cache, building>> /\ rq[r].pc = "idle"
    BY <1>2, <1>6, PageMoves DEF Receive, AtStep
  <2>2. rq[r].lock = <<>>
    BY <1>5, <2>1
  <2>3. Becomes(r, "first", v, epoch, 0, rq[r].lock, <<>>)
    BY <2>1, <2>2
  <2> QED
    BY <1>1, <1>3, <2>1, <2>2, <2>3, ScanChange
<1>7. ASSUME NEW r \in Request, ReadRevision(r) PROVE ScanInv'
  <2> DEFINE q == rq[r]
  <2>1. PICK p \in {"look", "relook"} : /\ Becomes(r, p, q.variant, q.since, epoch, q.lock, q.page)
                                        /\ q.pc = IF p = "relook" THEN "again" ELSE "first"
    BY <1>2, <1>7, PageMoves
  <2>2. UNCHANGED building /\ cache' = cache
    BY <1>7 DEF ReadRevision
  <2> QED
    BY <1>1, <1>3, <1>5, <2>1, <2>2, ScanChange
<1>8. ASSUME NEW r \in Request, ServeStored(r) PROVE ScanInv'
  <2> DEFINE q == rq[r]
  <2>1. PICK i \in Found(q.before, q.variant) :
          /\ cache' = Touched(i)
          /\ Becomes(r, "answer", q.variant, q.since, q.before, q.lock, cache[i].page)
    BY <1>2, <1>8, PageMoves
  <2>2. UNCHANGED building /\ Among(cache', cache) /\ q.pc # "wait"
    BY <1>4, <1>8, <2>1, TouchedAmong DEF ServeStored, Found, AtStep
  <2>3. PICK g : Becomes(r, "answer", q.variant, q.since, q.before, q.lock, g)
    BY <2>1
  <2> QED
    BY ONLY ScanInv, <1>1, <2>2, <2>3, ScanChange
<1>9. ASSUME NEW r \in Request, WaitForLock(r) PROVE ScanInv'
  <2> DEFINE q == rq[r]
             u == PageRow("wait", q.variant, q.since, q.before, LockOf(r), q.page)
  <2>1. LockOf(r) # <<>> /\ (~PerRevision => LockOf(r) = <<"route">>)
    BY DEF LockOf
  <2>2. /\ Becomes(r, "wait", q.variant, q.since, q.before, LockOf(r), q.page)
        /\ building' = building /\ cache' = cache
    BY <1>2, <1>9, PageMoves DEF WaitForLock
  <2>3. u.pc = "wait" /\ u.lock = LockOf(r)
    BY DEF PageRow
  <2> HIDE DEF u
  <2>4. rq'[r] = u /\ \A t \in Request \ {r} : rq'[t] = rq[t]
    BY <1>1, <2>2 DEF PagesInv, Becomes, u
  <2>5. LockKept'
    BY <1>1, <2>1, <2>2, <2>3, <2>4 DEF ScanInv, LockKept, Holds
  <2>6. ~PerRevision => \A t \in Request : Builds(t)' => NoneStored(cache', rq'[t].before, rq'[t].variant)
    BY <2>2, <2>3, <2>4 DEF ScanInv, Builds
  <2> QED
    BY <1>1, <2>5, <2>6 DEF ScanInv
<1>10. ASSUME NEW r \in Request, TakeLock(r) PROVE ScanInv'
  <2> DEFINE q == rq[r]
             u == PageRow("again", q.variant, q.since, q.before, q.lock, q.page)
  <2>1. /\ Becomes(r, "again", q.variant, q.since, q.before, q.lock, q.page)
        /\ building' = building \cup {q.lock} /\ q.lock \notin building /\ cache' = cache
        /\ q.pc = "wait"
    BY <1>2, <1>10, PageMoves DEF TakeLock, AtStep
  <2>2. u.pc = "again" /\ u.lock = q.lock /\ q.lock # <<>>
    BY <1>5, <2>1 DEF PageRow
  <2> HIDE DEF u
  <2>3. rq'[r] = u /\ \A t \in Request \ {r} : rq'[t] = rq[t]
    BY <1>1, <2>1 DEF PagesInv, Becomes, u
  <2>4. \A t \in Request \ {r} : Holds(rq[t]) => rq[t].lock # q.lock
    BY <2>1 DEF ScanInv, LockKept
  <2>5. LockKept'
    BY <1>1, <2>1, <2>2, <2>3, <2>4 DEF ScanInv, LockKept, Holds
  <2>6. ~PerRevision => \A t \in Request : Builds(t)' => NoneStored(cache', rq'[t].before, rq'[t].variant)
    BY <2>1, <2>2, <2>3 DEF ScanInv, Builds
  <2> QED
    BY <1>1, <2>5, <2>6 DEF ScanInv
<1>11. ASSUME NEW r \in Request, Miss(r) PROVE ScanInv'
  <2> DEFINE q == rq[r]
  <2>1. Becomes(r, "build", q.variant, q.since, q.before, q.lock, <<>>)
    BY <1>2, <1>11, PageMoves
  <2>2. q.pc = "relook" /\ UNCHANGED building /\ cache' = cache /\ NoneStored(cache, q.before, q.variant)
    BY <1>11 DEF Miss, AtStep, Found, NoneStored
  <2> QED
    BY <1>1, <1>3, <1>5, <2>1, <2>2, ScanChange
<1>12. ASSUME NEW r \in Request, NEW p \in Part, Read(r, p) PROVE ScanInv'
  <2> DEFINE q == rq[r]
  <2>1. PICK t \in {"check", "build"} :
          Becomes(r, t, q.variant, q.since, q.before, q.lock, NewPage(r, p))
    BY <1>2, <1>12, PageMoves
  <2>2. /\ q.pc = "build" /\ UNCHANGED building /\ cache' = cache
        /\ ~PerRevision => NoneStored(cache, q.before, q.variant)
    BY <1>12 DEF Read, AtStep, ScanInv, Builds
  <2> QED
    BY <1>1, <1>3, <1>5, <2>1, <2>2, ScanChange
<1>13. ASSUME NEW r \in Request, Check(r) PROVE ScanInv'
  <2> DEFINE q == rq[r]
  <2>1. PICK t \in {"put", "retry"} : Becomes(r, t, q.variant, q.since, q.before, q.lock, q.page)
    BY <1>2, <1>13, PageMoves
  <2>2. /\ q.pc = "check" /\ UNCHANGED building /\ cache' = cache
        /\ ~PerRevision => NoneStored(cache, q.before, q.variant)
    BY <1>13 DEF Check, AtStep, ScanInv, Builds
  <2> QED
    BY <1>1, <1>3, <1>5, <2>1, <2>2, ScanChange
<1>14. ASSUME NEW r \in Request, Put(r) PROVE ScanInv'
  <2> DEFINE q == rq[r]
             u == PageRow("answer", q.variant, q.since, q.before, q.lock, q.page)
  <2>1. Becomes(r, "answer", q.variant, q.since, q.before, q.lock, q.page)
    BY <1>2, <1>14, PageMoves
  <2>2. q.pc = "put" /\ UNCHANGED building
    BY <1>14 DEF Put, AtStep
  <2>3. u.pc = "answer" /\ u.lock = q.lock
    BY DEF PageRow
  <2> HIDE DEF u
  <2>4. rq'[r] = u /\ \A t \in Request \ {r} : rq'[t] = rq[t]
    BY <1>1, <2>1 DEF PagesInv, Becomes, u
  <2>5. Holds(q) /\ \A t \in Request \ {r} : Builds(t) => Holds(rq[t])
    BY <1>5, <2>2 DEF Holds, Builds
  <2>6. ~PerRevision => \A t \in Request \ {r} : ~Builds(t)
    BY <2>5 DEF ScanInv, LockKept, Holds
  <2>7. ~PerRevision => \A t \in Request : ~Builds(t)'
    BY <2>3, <2>4, <2>6 DEF Builds
  <2>8. LockKept'
    BY <1>1, <2>2, <2>3, <2>4 DEF ScanInv, LockKept, Holds
  <2> QED
    BY <1>1, <2>7, <2>8 DEF ScanInv
<1>15. ASSUME NEW r \in Request, Reply(r) PROVE ScanInv'
  <2> DEFINE q == rq[r]
             u == PageRow("idle", NoRequest.variant, 0, 0, <<>>, <<>>)
  <2>1. Becomes(r, "idle", NoRequest.variant, 0, 0, <<>>, <<>>)
    BY <1>2, <1>15, PageMoves
  <2>2. building' = building \ {q.lock} /\ cache' = cache /\ q.pc # "wait"
    BY <1>15 DEF Reply, AtStep
  <2>3. u.pc = "idle" /\ u.lock = <<>>
    BY DEF PageRow
  <2> HIDE DEF u
  <2>4. rq'[r] = u /\ \A t \in Request \ {r} : rq'[t] = rq[t]
    BY <1>1, <2>1 DEF PagesInv, Becomes, u
  <2>5. \A t \in Request \ {r} : Holds(rq[t]) => rq[t].lock # q.lock
    BY <2>2 DEF ScanInv, LockKept, Holds
  <2>6. LockKept'
    BY <1>1, <2>2, <2>3, <2>4, <2>5 DEF ScanInv, LockKept, Holds
  <2>7. ~PerRevision => \A t \in Request : Builds(t)' => NoneStored(cache', rq'[t].before, rq'[t].variant)
    BY <2>2, <2>3, <2>4 DEF ScanInv, Builds
  <2> QED
    BY <1>1, <2>6, <2>7 DEF ScanInv
<1>16. ASSUME Change \/ UNCHANGED pvars PROVE ScanInv'
  BY <1>1, <1>16 DEF Change, pvars, ScanInv, LockKept, Holds, Builds
<1> QED
  BY <1>6, <1>7, <1>8, <1>9, <1>10, <1>11, <1>12, <1>13, <1>14, <1>15, <1>16 DEF PNext

\* Simultaneous cold requests share one scan, on either route: behind the
\* timeline's one lock no two requests compute, and none computes a page that
\* is stored; behind the locks of the material list no two compute pages of one
\* revision and filters, unless the revision changed while one waited.  For any
\* number of requests, pages and changes.
THEOREM ScanIsShared == PSpec => []SharedScan
<1>1. ScanInv => SharedScan
  <2> SUFFICES ASSUME ScanInv, NEW r \in Request, Builds(r)
               PROVE  /\ ~PerRevision => Found(rq[r].before, rq[r].variant) = {}
                      /\ \A s \in Request \ {r} :
                           Builds(s) => LockOf(r) # LockOf(s) \/ Shifted(r) \/ Shifted(s)
    BY DEF SharedScan
  <2>1. ~PerRevision => Found(rq[r].before, rq[r].variant) = {}
    BY DEF ScanInv, NoneStored, Found
  <2>2. \A s \in Request : Builds(s) => Holds(rq[s])
    BY DEF ScanInv, LockKept, Builds, Holds
  <2>3. \A s \in Request \ {r} : Builds(s) => rq[r].lock # rq[s].lock
    BY <2>2 DEF ScanInv, LockKept
  <2> QED
    BY <2>1, <2>3 DEF Shifted
<1> QED
  BY <1>1, ScanStart, ScanStep, PTL DEF PSpec
-----------------------------------------------------------------------------
(* ReleaseCache: the table stays sound and its books exact under every way *)
(* an entry comes and goes; the calls agree with inflight and waiters.     *)

EntryRow == [key : Key, value : Key \cup {<<>>}, failed : BOOLEAN, aged : BOOLEAN, size : Nat]

Distinct(E) == \A i, j \in DOMAIN E : E[i].key = E[j].key => i = j

\* An entry holds the value of its own key, and only of a good version.
Sound(e) == ~e.failed => e.value = e.key /\ e.key[2] \in Good

Books(E, b) ==
  /\ E \in Seq(EntryRow) /\ Distinct(E) /\ Len(E) <= MaxEntries
  /\ b = SizeSum(ToSet(E)) /\ b <= MaxBytes
  /\ \A e \in ToSet(E) : Sound(e)

\* An entry taken out of a table of distinct keys.
LEMMA TakenOut ==
  ASSUME NEW S, NEW E \in Seq(S), Distinct(E), NEW i \in DOMAIN E
  PROVE  /\ RemoveAt(E, i) \in Seq(S) /\ Len(RemoveAt(E, i)) = Len(E) - 1
         /\ Distinct(RemoveAt(E, i)) /\ ToSet(RemoveAt(E, i)) = ToSet(E) \ {E[i]}
<1> DEFINE a == SubSeq(E, 1, i - 1)
           b == SubSeq(E, i + 1, Len(E))
           R == RemoveAt(E, i)
<1>1. i \in 1..Len(E) /\ Len(E) \in Nat /\ DOMAIN E = 1..Len(E)
  OBVIOUS
<1>2. a \in Seq(S) /\ Len(a) = i - 1 /\ \A k \in 1..(i - 1) : a[k] = E[k]
  BY <1>1
<1>3. b \in Seq(S) /\ Len(b) = Len(E) - i /\ \A k \in 1..(Len(E) - i) : b[k] = E[i + k]
  BY <1>1
<1>4. R = a \o b
  BY DEF RemoveAt
<1> HIDE DEF a, b, R
<1>5. /\ R \in Seq(S) /\ Len(R) = Len(E) - 1 /\ DOMAIN R = 1..(Len(E) - 1)
      /\ \A k \in 1..(Len(E) - 1) : R[k] = IF k <= i - 1 THEN a[k] ELSE b[k - (i - 1)]
  <2>1. /\ a \o b \in Seq(S) /\ Len(a \o b) = Len(a) + Len(b)
        /\ \A k \in 1..Len(a) + Len(b) : (a \o b)[k] = IF k <= Len(a) THEN a[k] ELSE b[k - Len(a)]
    BY <1>2, <1>3, ConcatProperties
  <2>2. Len(a) + Len(b) = Len(E) - 1
    BY <1>1, <1>2, <1>3
  <2>3. /\ R \in Seq(S) /\ Len(R) = Len(E) - 1
        /\ \A k \in 1..(Len(E) - 1) : R[k] = IF k <= i - 1 THEN a[k] ELSE b[k - (i - 1)]
    BY <1>2, <1>4, <2>1, <2>2
  <2> QED
    BY <2>3
<1>6. /\ \A k \in 1..(Len(E) - 1) : k <= i - 1 => R[k] = E[k] /\ k \in 1..Len(E)
      /\ \A k \in 1..(Len(E) - 1) : ~(k <= i - 1) => R[k] = E[k + 1] /\ k + 1 \in 1..Len(E)
  <2>1. ASSUME NEW k \in 1..(Len(E) - 1), k <= i - 1 PROVE R[k] = E[k] /\ k \in 1..Len(E)
    BY <1>1, <1>2, <1>5, <2>1
  <2>2. ASSUME NEW k \in 1..(Len(E) - 1), ~(k <= i - 1) PROVE R[k] = E[k + 1] /\ k + 1 \in 1..Len(E)
    <3>1. k - (i - 1) \in 1..(Len(E) - i) /\ k + 1 \in 1..Len(E) /\ i + (k - (i - 1)) = k + 1
      BY <1>1, <2>2
    <3> QED
      BY <1>3, <1>5, <2>2, <3>1
  <2> QED
    BY <2>1, <2>2
<1>7. Distinct(R)
  <2> SUFFICES ASSUME NEW k \in 1..(Len(E) - 1), NEW l \in 1..(Len(E) - 1), R[k].key = R[l].key
               PROVE  k = l
    BY <1>5 DEF Distinct
  <2>1. \A p, q \in 1..Len(E) : E[p].key = E[q].key => p = q
    BY <1>1 DEF Distinct
  <2>2. CASE k <= i - 1 /\ l <= i - 1
    BY <1>6, <2>1, <2>2
  <2>3. CASE k <= i - 1 /\ ~(l <= i - 1)
    <3>1. k = l + 1
      BY <1>6, <2>1, <2>3
    <3> QED
      BY <1>1, <2>3, <3>1
  <2>4. CASE ~(k <= i - 1) /\ l <= i - 1
    <3>1. k + 1 = l
      BY <1>6, <2>1, <2>4
    <3> QED
      BY <1>1, <2>4, <3>1
  <2>5. CASE ~(k <= i - 1) /\ ~(l <= i - 1)
    <3>1. k + 1 = l + 1
      BY <1>6, <2>1, <2>5
    <3> QED
      BY <1>1, <3>1
  <2> QED
    BY <2>2, <2>3, <2>4, <2>5
<1>8. ToSet(R) = {R[k] : k \in 1..(Len(E) - 1)} /\ ToSet(E) = {E[k] : k \in 1..Len(E)}
  BY <1>1, <1>5 DEF ToSet
<1>9. ASSUME NEW x \in ToSet(R) PROVE x \in ToSet(E) \ {E[i]}
  <2>1. PICK k \in 1..(Len(E) - 1) : x = R[k]
    BY <1>8, <1>9
  <2>2. \A p \in 1..Len(E) : E[p] = E[i] => p = i
    BY <1>1 DEF Distinct
  <2>3. CASE k <= i - 1
    <3>1. x = E[k] /\ k \in 1..Len(E) /\ k # i
      BY <1>1, <1>6, <2>1, <2>3
    <3> QED
      BY <1>8, <2>2, <3>1
  <2>4. CASE ~(k <= i - 1)
    <3>1. x = E[k + 1] /\ k + 1 \in 1..Len(E) /\ k + 1 # i
      BY <1>1, <1>6, <2>1, <2>4
    <3> QED
      BY <1>8, <2>2, <3>1
  <2> QED
    BY <2>3, <2>4
<1>10. ASSUME NEW x \in ToSet(E) \ {E[i]} PROVE x \in ToSet(R)
  <2>1. PICK k \in 1..Len(E) : x = E[k]
    BY <1>8, <1>10
  <2>2. k # i
    BY <1>10, <2>1
  <2>3. CASE k <= i - 1
    <3>1. k \in 1..(Len(E) - 1)
      BY <1>1, <2>3
    <3> QED
      BY <1>6, <1>8, <2>1, <2>3, <3>1
  <2>4. CASE ~(k <= i - 1)
    <3>1. k - 1 \in 1..(Len(E) - 1) /\ ~(k - 1 <= i - 1) /\ (k - 1) + 1 = k
      BY <1>1, <2>2, <2>4
    <3>2. R[k - 1] = E[(k - 1) + 1]
      BY <1>6, <3>1
    <3>3. R[k - 1] = x
      BY <2>1, <3>1, <3>2
    <3> QED
      BY <1>8, <3>1, <3>3
  <2> QED
    BY <2>3, <2>4
<1> QED
  <2>1. ToSet(R) = ToSet(E) \ {E[i]}
    BY <1>9, <1>10
  <2> QED
    BY <1>5, <1>7, <2>1 DEF R

\* Without k: the entry of k, if there is one, is taken out.
LEMMA WithoutKey ==
  ASSUME NEW E \in Seq(EntryRow), Distinct(E), NEW k
  PROVE  /\ Without(E, k) \in Seq(EntryRow) /\ Distinct(Without(E, k))
         /\ ToSet(Without(E, k)) = ToSet(E) \ Of(E, k)
         /\ \/ Of(E, k) = {} /\ Without(E, k) = E
            \/ \E e : Of(E, k) = {e} /\ Len(Without(E, k)) = Len(E) - 1
<1>1. DOMAIN E = 1..Len(E) /\ Len(E) \in Nat /\ ToSet(E) = {E[j] : j \in 1..Len(E)}
  BY DEF ToSet
<1>2. CASE ~\E i \in 1..Len(E) : E[i].key = k
  <2>1. Without(E, k) = E
    BY <1>2 DEF Without, RemoveFirstMatch
  <2>2. Of(E, k) = {}
    BY <1>1, <1>2 DEF Of
  <2> QED
    BY <2>1, <2>2
<1>3. CASE \E i \in 1..Len(E) : E[i].key = k
  <2>1. PICK i \in 1..Len(E) : E[i].key = k
    BY <1>3
  <2> DEFINE I == {j \in 1..Len(E) : E[j].key = k}
  <2>2. I = {i}
    BY <1>1, <2>1 DEF Distinct
  <2>3. SelectInSeq(E, LAMBDA e : e.key = k) = i
    <3>1. SelectInSeq(E, LAMBDA e : e.key = k) = IF I # {} THEN Min(I) ELSE 0
      BY DEF SelectInSeq
    <3>2. \A x : Min({x}) = CHOOSE y \in {x} : \A z \in {x} : y =< z
      BY DEF Min
    <3>3. Min({i}) = i
      <4>1. i =< i
        OBVIOUS
      <4>2. \E y \in {i} : \A z \in {i} : y =< z
        BY <4>1
      <4> QED
        BY <3>2, <4>2
    <3> QED
      BY <2>2, <3>1, <3>3
  <2>4. Without(E, k) = RemoveAt(E, i)
    <3>1. Without(E, k) = RemoveAt(E, SelectInSeq(E, LAMBDA e : e.key = k))
      BY <1>3 DEF Without, RemoveFirstMatch
    <3> QED
      BY <2>3, <3>1
  <2>5. Of(E, k) = {E[i]}
    BY <1>1, <2>1 DEF Distinct, Of
  <2>6. /\ RemoveAt(E, i) \in Seq(EntryRow) /\ Len(RemoveAt(E, i)) = Len(E) - 1
        /\ Distinct(RemoveAt(E, i)) /\ ToSet(RemoveAt(E, i)) = ToSet(E) \ {E[i]}
    <3>1. i \in DOMAIN E
      BY <1>1
    <3> QED
      BY <3>1, TakenOut
  <2> QED
    BY <2>4, <2>5, <2>6
<1> QED
  BY <1>2, <1>3

\* A table cut in two: what is evicted and what remains.
LEMMA CutTable ==
  ASSUME NEW S, NEW E \in Seq(S), Distinct(E), NEW n \in 0..Len(E)
  PROVE  /\ SubSeq(E, n + 1, Len(E)) \in Seq(S) /\ Len(SubSeq(E, n + 1, Len(E))) = Len(E) - n
         /\ Distinct(SubSeq(E, n + 1, Len(E)))
         /\ ToSet(SubSeq(E, 1, n)) \cup ToSet(SubSeq(E, n + 1, Len(E))) = ToSet(E)
         /\ ToSet(SubSeq(E, 1, n)) \cap ToSet(SubSeq(E, n + 1, Len(E))) = {}
<1> DEFINE a == SubSeq(E, 1, n)
           b == SubSeq(E, n + 1, Len(E))
<1>1. /\ n \in Nat /\ n <= Len(E) /\ Len(E) \in Nat /\ DOMAIN E = 1..Len(E)
      /\ ToSet(E) = {E[k] : k \in 1..Len(E)}
  BY DEF ToSet
<1>2. a \in Seq(S) /\ Len(a) = n /\ \A k \in 1..n : a[k] = E[k]
  <2>1. \A k \in 1..n : E[k] \in S
    BY <1>1
  <2>2. /\ a \in Seq(S) /\ Len(a) = IF 1 <= n THEN n - 1 + 1 ELSE 0
        /\ \A k \in 1..(n - 1 + 1) : a[k] = E[1 + k - 1]
    BY <1>1, <2>1, SubSeqProperties
  <2> QED
    BY <1>1, <2>2
<1>3. b \in Seq(S) /\ Len(b) = Len(E) - n /\ \A k \in 1..(Len(E) - n) : b[k] = E[n + k]
  <2>0. PICK m \in Nat : n + 1 = m
    BY <1>1
  <2>1. m \in Int /\ Len(E) \in Int /\ \A k \in m..Len(E) : E[k] \in S
    BY <1>1, <2>0
  <2>2. /\ SubSeq(E, m, Len(E)) \in Seq(S)
        /\ Len(SubSeq(E, m, Len(E))) = IF m <= Len(E) THEN Len(E) - m + 1 ELSE 0
        /\ \A k \in 1..(Len(E) - m + 1) : SubSeq(E, m, Len(E))[k] = E[m + k - 1]
    BY <2>1, SubSeqProperties
  <2> HIDE DEF b
  <2>5. b = SubSeq(E, m, Len(E))
    BY <2>0, Zenon DEF b
  <2>3. Len(b) = Len(E) - n
    <3>1. CASE m <= Len(E)
      <4>1. Len(E) - m + 1 = Len(E) - n
        BY <1>1, <2>0
      <4> QED
        BY <2>2, <2>5, <3>1, <4>1
    <3>2. CASE ~(m <= Len(E))
      <4>1. 0 = Len(E) - n
        <5>1. n \in Nat /\ n <= Len(E) /\ Len(E) \in Nat
          BY <1>1
        <5>2. \A l \in Nat : n <= l /\ ~(m <= l) => 0 = l - n
          BY ONLY <5>1, <2>0, m \in Nat
        <5> QED
          BY <5>1, <5>2, <3>2
      <4> QED
        BY <2>2, <2>5, <3>2, <4>1
    <3> QED
      BY <3>1, <3>2
  <2>4. ASSUME NEW k \in 1..(Len(E) - n) PROVE b[k] = E[n + k]
    <3>1. k \in 1..(Len(E) - m + 1) /\ m + k - 1 = n + k
      BY <1>1, <2>0
    <3> QED
      BY <2>2, <2>5, <3>1
  <2> QED
    BY <2>2, <2>3, <2>4, <2>5
<1> HIDE DEF a, b
<1>4. ToSet(a) = {a[k] : k \in 1..n} /\ ToSet(b) = {b[k] : k \in 1..(Len(E) - n)}
      /\ DOMAIN b = 1..(Len(E) - n)
  <2>1. DOMAIN a = 1..n /\ DOMAIN b = 1..(Len(E) - n)
    BY <1>2, <1>3
  <2> QED
    BY <2>1 DEF ToSet
<1>5. \A p, q \in 1..Len(E) : E[p].key = E[q].key => p = q
  BY <1>1 DEF Distinct
<1>6. \A k \in 1..n : k \in 1..Len(E)
  BY <1>1
<1>7. \A k \in 1..(Len(E) - n) : n + k \in 1..Len(E) /\ n + k \notin 1..n
  BY <1>1
<1>8. Distinct(b)
  <2> SUFFICES ASSUME NEW k \in 1..(Len(E) - n), NEW l \in 1..(Len(E) - n), b[k].key = b[l].key
               PROVE  k = l
    BY <1>4 DEF Distinct
  <2>1. n + k \in 1..Len(E) /\ n + l \in 1..Len(E)
    BY <1>7
  <2>2. b[k] = E[n + k] /\ b[l] = E[n + l]
    BY <1>3
  <2>3. E[n + k].key = E[n + l].key
    BY <2>2
  <2>4. n + k = n + l
    BY ONLY <1>5, <2>1, <2>3
  <2> QED
    BY <1>1, <2>4
<1>9. ToSet(a) \cup ToSet(b) = ToSet(E)
  <2>1. ToSet(a) \subseteq ToSet(E) /\ ToSet(b) \subseteq ToSet(E)
    BY <1>1, <1>2, <1>3, <1>4, <1>6, <1>7
  <2>2. ASSUME NEW k \in 1..Len(E) PROVE E[k] \in ToSet(a) \cup ToSet(b)
    <3>1. CASE k <= n
      <4>1. k \in 1..n
        BY <1>1, <3>1
      <4> QED
        BY <1>2, <1>4, <4>1
    <3>2. CASE ~(k <= n)
      <4>1. k - n \in 1..(Len(E) - n) /\ n + (k - n) = k
        BY <1>1, <3>2
      <4>2. b[k - n] = E[k]
        BY <1>3, <4>1
      <4> QED
        BY <1>4, <4>1, <4>2
    <3> QED
      BY <3>1, <3>2
  <2> QED
    BY <1>1, <2>1, <2>2
<1>10. ToSet(a) \cap ToSet(b) = {}
  <2> SUFFICES ASSUME NEW k \in 1..n, NEW l \in 1..(Len(E) - n), a[k] = b[l] PROVE FALSE
    BY <1>4
  <2>1. E[k].key = E[n + l].key
    BY <1>2, <1>3
  <2>2. k = n + l
    BY <1>5, <1>6, <1>7, <2>1
  <2> QED
    BY <1>7, <2>2
<1> QED
  BY <1>3, <1>8, <1>9, <1>10 DEF a, b

\* An entry with a new key at the most recently used end.
LEMMA AddedEntry ==
  ASSUME NEW S, NEW E \in Seq(S), Distinct(E), NEW e \in S, \A x \in ToSet(E) : x.key # e.key
  PROVE  /\ Append(E, e) \in Seq(S) /\ Len(Append(E, e)) = Len(E) + 1 /\ Distinct(Append(E, e))
         /\ ToSet(Append(E, e)) = ToSet(E) \cup {e} /\ e \notin ToSet(E)
<1> DEFINE A == Append(E, e)
<1>1. /\ A \in Seq(S) /\ Len(A) = Len(E) + 1 /\ A[Len(E) + 1] = e
      /\ \A i \in 1..Len(E) : A[i] = E[i]
      /\ DOMAIN E = 1..Len(E) /\ Len(E) \in Nat /\ DOMAIN A = 1..(Len(E) + 1)
  OBVIOUS
<1> HIDE DEF A
<1>2. \A i \in 1..(Len(E) + 1) : i = Len(E) + 1 \/ i \in 1..Len(E)
  BY <1>1
<1>3. /\ ToSet(E) = {E[i] : i \in 1..Len(E)} /\ ToSet(A) = {A[i] : i \in 1..(Len(E) + 1)}
      /\ \A i \in 1..Len(E) : i \in 1..(Len(E) + 1) /\ Len(E) + 1 \in 1..(Len(E) + 1)
  BY <1>1 DEF ToSet
<1>4. Len(E) + 1 \in 1..(Len(E) + 1)
  BY <1>1
<1>5. ToSet(A) = ToSet(E) \cup {e}
  <2>1. ToSet(A) \subseteq ToSet(E) \cup {e}
    BY <1>1, <1>2, <1>3
  <2>2. ToSet(E) \subseteq ToSet(A) /\ e \in ToSet(A)
    BY <1>1, <1>3, <1>4
  <2> QED
    BY <2>1, <2>2
<1>6. \A i \in 1..Len(E) : E[i].key # e.key
  BY <1>3
<1>7. \A p, q \in 1..Len(E) : E[p].key = E[q].key => p = q
  BY <1>1 DEF Distinct
<1>8. Distinct(A)
  BY <1>1, <1>2, <1>6, <1>7 DEF Distinct
<1> QED
  BY <1>1, <1>5, <1>8 DEF A

\* The sizes of a set of entries.
Sizes == [e \in EntryRow |-> e.size]

LEMMA SizeIsSum ==
  ASSUME NEW S \in SUBSET EntryRow, IsFiniteSet(S)
  PROVE  SizeSum(S) = SumOf(Sizes, S)
<1> DEFINE f == [e \in S |-> e.size]
<1>1. SizeSum(S) = SumOf(f, S)
  BY DEF SizeSum, SumOf
<1>2. \A x \in S : f[x] = Sizes[x]
  BY DEF Sizes
<1> HIDE DEF f
<1> QED
  BY <1>1, <1>2, SumSame

LEMMA SizeOfSets ==
  /\ SizeSum({}) = 0
  /\ \A S \in SUBSET EntryRow : IsFiniteSet(S) => SizeSum(S) \in Nat
  /\ \A S, T \in SUBSET EntryRow : IsFiniteSet(S) /\ IsFiniteSet(T) /\ S \cap T = {}
                                   => SizeSum(S \cup T) = SizeSum(S) + SizeSum(T)
  /\ \A e \in EntryRow : SizeSum({e}) = e.size
<1>1. \A e \in EntryRow : Sizes[e] = e.size /\ Sizes[e] \in Nat
  BY DEF Sizes, EntryRow
<1>2. SizeSum({}) = 0
  BY FS_EmptySet, SizeIsSum, SumEmpty
<1>3. ASSUME NEW S \in SUBSET EntryRow, IsFiniteSet(S) PROVE SizeSum(S) \in Nat
  <2>1. \A x \in S : Sizes[x] \in Nat
    BY <1>1
  <2> QED
    BY <1>3, <2>1, SizeIsSum, SumNat
<1>4. ASSUME NEW S \in SUBSET EntryRow, NEW T \in SUBSET EntryRow,
             IsFiniteSet(S), IsFiniteSet(T), S \cap T = {}
      PROVE  SizeSum(S \cup T) = SizeSum(S) + SizeSum(T)
  <2>1. \A x \in S \cup T : Sizes[x] \in Nat
    BY <1>1
  <2>2. SumOf(Sizes, S \cup T) = SumOf(Sizes, S) + SumOf(Sizes, T)
    BY <1>4, <2>1, SumUnion
  <2>3. IsFiniteSet(S \cup T) /\ S \cup T \in SUBSET EntryRow
    BY <1>4, FS_Union
  <2> QED
    BY <1>4, <2>2, <2>3, SizeIsSum
<1>5. ASSUME NEW e \in EntryRow PROVE SizeSum({e}) = e.size
  <2>1. IsFiniteSet({}) /\ e \notin {} /\ {} \cup {e} = {e} /\ IsFiniteSet({e})
    BY FS_EmptySet, FS_Singleton
  <2>2. \A x \in {} \cup {e} : Sizes[x] \in Nat
    BY <1>1
  <2>3. SumOf(Sizes, {} \cup {e}) = SumOf(Sizes, {}) + Sizes[e]
    BY <2>1, <2>2, SumAdd
  <2>4. SumOf(Sizes, {e}) = Sizes[e]
    BY <1>1, <2>1, <2>3, SumEmpty
  <2>5. {e} \in SUBSET EntryRow
    OBVIOUS
  <2> QED
    BY <1>1, <2>1, <2>4, <2>5, SizeIsSum
<1> QED
  BY <1>2, <1>3, <1>4, <1>5

LEMMA EntriesFinite ==
  ASSUME NEW S, NEW E \in Seq(S)
  PROVE  ToSet(E) \in SUBSET S /\ IsFiniteSet(ToSet(E))
<1>1. /\ Len(E) \in Nat /\ DOMAIN E = 1..Len(E) /\ ToSet(E) = {E[i] : i \in 1..Len(E)}
      /\ \A i \in 1..Len(E) : E[i] \in S
  BY DEF ToSet
<1>2. IsFiniteSet(1..Len(E))
  BY <1>1, FS_Interval
<1>3. IsFiniteSet(ToSet(E))
  <2> DEFINE g == [i \in 1..Len(E) |-> E[i]]
  <2>1. g \in Surjection(1..Len(E), ToSet(E))
    BY <1>1 DEF Surjection
  <2> QED
    BY <1>2, <2>1, FS_Surjection
<1> QED
  BY <1>1, <1>3

\* Eviction stops when there is room, or when nothing is left.
LEMMA EvictedEnough ==
  ASSUME NEW E \in Seq(EntryRow), NEW b, NEW size
  PROVE  /\ Evicted(E, b, size) \in 0..Len(E)
         /\ \/ Evicted(E, b, size) = Len(E)
            \/ /\ Len(E) - Evicted(E, b, size) < MaxEntries
               /\ b - SizeSum(ToSet(SubSeq(E, 1, Evicted(E, b, size)))) + size <= MaxBytes
<1> DEFINE fits(n) == /\ Len(E) - n < MaxEntries
                      /\ b - SizeSum(ToSet(SubSeq(E, 1, n))) + size <= MaxBytes
           T == {n \in 0..Len(E) : fits(n) \/ n = Len(E)}
           best(n) == (fits(n) \/ n = Len(E)) /\ \A i \in 0..(n - 1) : ~fits(i)
<1>1. Evicted(E, b, size) = CHOOSE n \in 0..Len(E) : best(n)
  BY DEF Evicted
<1> HIDE DEF fits
<1>2. T \subseteq Nat /\ T # {} /\ Len(E) \in Nat
  OBVIOUS
<1>3. PICK m \in T : \A y \in T : ~(<<y, m>> \in OpToRel(<, Nat))
  BY <1>2, WFMin, NatLessThanWellFounded
<1>4. ASSUME NEW i \in 0..(m - 1), fits(i) PROVE FALSE
  <2>0. m \in 0..Len(E)
    BY <1>3
  <2>1. i \in 0..Len(E) /\ i \in Nat /\ m \in Nat /\ i < m
    BY ONLY <1>2, <1>4, <2>0
  <2>2. i \in T
    BY <1>4, <2>1
  <2> QED
    BY <1>3, <2>1, <2>2 DEF OpToRel
<1>5. m \in 0..Len(E) /\ best(m)
  BY <1>3, <1>4
<1> HIDE DEF best
<1>6. Evicted(E, b, size) \in 0..Len(E) /\ best(Evicted(E, b, size))
  BY <1>1, <1>5
<1> QED
  BY <1>6 DEF best, fits

\* The books after an entry is forgotten.
LEMMA BooksWithout ==
  ASSUME NEW E, NEW b, Books(E, b), NEW k
  PROVE  /\ Books(Without(E, k), b - SizeSum(Of(E, k)))
         /\ \A x \in ToSet(Without(E, k)) : x.key # k
         /\ Of(E, k) # {} => Len(Without(E, k)) < MaxEntries
         /\ SizeSum(Of(E, k)) \in Nat /\ SizeSum(Of(E, k)) <= b
<1> DEFINE R == Without(E, k)
           O == Of(E, k)
<1>1. E \in Seq(EntryRow) /\ Distinct(E) /\ Len(E) \in Nat /\ Len(E) <= MaxEntries /\ MaxEntries \in Nat
  BY CacheAssumption DEF Books
<1>2. /\ R \in Seq(EntryRow) /\ Distinct(R) /\ ToSet(R) = ToSet(E) \ O
      /\ \/ O = {} /\ R = E
         \/ \E e : O = {e} /\ Len(R) = Len(E) - 1
  BY <1>1, WithoutKey
<1>3. O \subseteq ToSet(E) /\ \A x \in ToSet(E) : x \in O <=> x.key = k
  BY DEF Of
<1> HIDE DEF R, O
<1>4. ToSet(E) \in SUBSET EntryRow /\ IsFiniteSet(ToSet(E)) /\ ToSet(R) \in SUBSET EntryRow
      /\ IsFiniteSet(ToSet(R)) /\ O \in SUBSET EntryRow /\ IsFiniteSet(O)
  <2>1. ToSet(E) \in SUBSET EntryRow /\ IsFiniteSet(ToSet(E))
    BY <1>1, EntriesFinite
  <2>2. ToSet(R) \in SUBSET ToSet(E) /\ O \in SUBSET ToSet(E)
    BY <1>2, <1>3
  <2> QED
    BY <2>1, <2>2, FS_Subset
<1>5. ToSet(R) \cap O = {} /\ ToSet(R) \cup O = ToSet(E)
  BY <1>2, <1>3
<1>6. SizeSum(ToSet(E)) = SizeSum(ToSet(R)) + SizeSum(O) /\ SizeSum(ToSet(R)) \in Nat /\ SizeSum(O) \in Nat
  BY <1>4, <1>5, SizeOfSets
<1>7. b = SizeSum(ToSet(E)) /\ b <= MaxBytes /\ MaxBytes \in Nat /\ \A e \in ToSet(E) : Sound(e)
  BY CacheAssumption DEF Books
<1>8. b - SizeSum(O) = SizeSum(ToSet(R)) /\ b - SizeSum(O) <= MaxBytes /\ SizeSum(O) <= b
  BY <1>6, <1>7
<1>9. Len(R) <= MaxEntries /\ (O # {} => Len(R) < MaxEntries)
  BY <1>1, <1>2
<1>10. Books(R, b - SizeSum(O))
  BY <1>2, <1>5, <1>7, <1>8, <1>9 DEF Books
<1>11. \A x \in ToSet(R) : x.key # k
  BY <1>2, <1>3
<1> QED
  BY <1>6, <1>8, <1>9, <1>10, <1>11 DEF R, O

\* The books after eviction.
LEMMA BooksCut ==
  ASSUME NEW E, NEW b, Books(E, b), NEW n \in 0..Len(E)
  PROVE  /\ Books(SubSeq(E, n + 1, Len(E)), b - SizeSum(ToSet(SubSeq(E, 1, n))))
         /\ Len(SubSeq(E, n + 1, Len(E))) = Len(E) - n
         /\ ToSet(SubSeq(E, n + 1, Len(E))) \subseteq ToSet(E)
         /\ n = Len(E) => b - SizeSum(ToSet(SubSeq(E, 1, n))) = 0
         /\ b - SizeSum(ToSet(SubSeq(E, 1, n))) \in Nat
<1>1. E \in Seq(EntryRow) /\ Distinct(E) /\ Len(E) \in Nat /\ Len(E) <= MaxEntries /\ MaxEntries \in Nat
  BY CacheAssumption DEF Books
<1>2. PICK A, B : A = SubSeq(E, 1, n) /\ B = SubSeq(E, n + 1, Len(E))
  OBVIOUS
<1>3. /\ B \in Seq(EntryRow) /\ Len(B) = Len(E) - n /\ Distinct(B)
      /\ ToSet(A) \cup ToSet(B) = ToSet(E) /\ ToSet(A) \cap ToSet(B) = {}
  BY <1>1, <1>2, CutTable
<1>4. ToSet(E) \in SUBSET EntryRow /\ IsFiniteSet(ToSet(E)) /\ ToSet(A) \in SUBSET EntryRow
      /\ IsFiniteSet(ToSet(A)) /\ ToSet(B) \in SUBSET EntryRow /\ IsFiniteSet(ToSet(B))
  <2>1. ToSet(E) \in SUBSET EntryRow /\ IsFiniteSet(ToSet(E))
    BY <1>1, EntriesFinite
  <2>2. ToSet(A) \in SUBSET ToSet(E) /\ ToSet(B) \in SUBSET ToSet(E)
    BY <1>3
  <2> QED
    BY <2>1, <2>2, FS_Subset
<1>5. /\ SizeSum(ToSet(E)) = SizeSum(ToSet(A)) + SizeSum(ToSet(B))
      /\ SizeSum(ToSet(A)) \in Nat /\ SizeSum(ToSet(B)) \in Nat
  BY <1>3, <1>4, SizeOfSets
<1>6. b = SizeSum(ToSet(E)) /\ b <= MaxBytes /\ MaxBytes \in Nat /\ \A e \in ToSet(E) : Sound(e)
  BY CacheAssumption DEF Books
<1>7. b - SizeSum(ToSet(A)) = SizeSum(ToSet(B)) /\ b - SizeSum(ToSet(A)) <= MaxBytes
  BY <1>5, <1>6
<1>8. n \in Nat /\ Len(B) <= MaxEntries
  BY <1>1, <1>3
<1>9. Books(B, b - SizeSum(ToSet(A)))
  BY <1>3, <1>6, <1>7, <1>8 DEF Books
<1>10. ASSUME n = Len(E) PROVE SizeSum(ToSet(B)) = 0
  <2>1. Len(B) = 0
    BY <1>1, <1>3, <1>10
  <2>2. ToSet(B) = {}
    BY <1>3, <2>1 DEF ToSet
  <2> QED
    BY <2>2, SizeOfSets
<1> QED
  BY <1>2, <1>3, <1>5, <1>7, <1>9, <1>10

\* The books after an entry with a new key is added.
LEMMA BooksAdd ==
  ASSUME NEW E, NEW b, Books(E, b), NEW e \in EntryRow, Sound(e), \A x \in ToSet(E) : x.key # e.key,
         Len(E) < MaxEntries, b + e.size <= MaxBytes
  PROVE  Books(Append(E, e), b + e.size)
<1>1. E \in Seq(EntryRow) /\ Distinct(E) /\ Len(E) \in Nat /\ MaxEntries \in Nat
  BY CacheAssumption DEF Books
<1>2. PICK A : A = Append(E, e)
  OBVIOUS
<1>3. /\ A \in Seq(EntryRow) /\ Len(A) = Len(E) + 1 /\ Distinct(A)
      /\ ToSet(A) = ToSet(E) \cup {e} /\ e \notin ToSet(E)
  BY <1>1, <1>2, AddedEntry
<1>4. ToSet(E) \in SUBSET EntryRow /\ IsFiniteSet(ToSet(E)) /\ {e} \in SUBSET EntryRow /\ IsFiniteSet({e})
  BY <1>1, EntriesFinite, FS_Singleton
<1>5. ToSet(E) \cap {e} = {}
  BY <1>3
<1>6. SizeSum(ToSet(A)) = SizeSum(ToSet(E)) + e.size
  BY <1>3, <1>4, <1>5, SizeOfSets
<1>7. b = SizeSum(ToSet(E)) /\ \A x \in ToSet(E) : Sound(x)
  BY DEF Books
<1>8. Len(A) <= MaxEntries
  BY <1>1, <1>3
<1>9. Books(A, b + e.size)
  BY <1>3, <1>6, <1>7, <1>8 DEF Books
<1> QED
  BY <1>2, <1>9

\* _store keeps the books.
LEMMA BooksStored ==
  ASSUME NEW E, NEW b, Books(E, b), NEW e \in EntryRow, Sound(e)
  PROVE  Books(Stored(E, b, e).entries, Stored(E, b, e).bytes)
<1>1. CASE e.size > MaxBytes
  BY <1>1 DEF Stored
<1>2. CASE ~(e.size > MaxBytes)
  <2>1. PICK R, l : R = Without(E, e.key) /\ l = b - SizeSum(Of(E, e.key))
    OBVIOUS
  <2>2. Books(R, l) /\ \A x \in ToSet(R) : x.key # e.key
    BY <2>1, BooksWithout
  <2>3. PICK n : n = Evicted(R, l, e.size)
    OBVIOUS
  <2>4. R \in Seq(EntryRow) /\ Len(R) \in Nat /\ MaxEntries \in Nat \ {0} /\ MaxBytes \in Nat /\ e.size \in Nat
    BY <2>2, CacheAssumption DEF Books, EntryRow
  <2>5. /\ n \in 0..Len(R)
        /\ \/ n = Len(R)
           \/ Len(R) - n < MaxEntries /\ l - SizeSum(ToSet(SubSeq(R, 1, n))) + e.size <= MaxBytes
    BY <2>3, <2>4, EvictedEnough
  <2>6. PICK B, c : B = SubSeq(R, n + 1, Len(R)) /\ c = l - SizeSum(ToSet(SubSeq(R, 1, n)))
    OBVIOUS
  <2>7. /\ Books(B, c) /\ Len(B) = Len(R) - n /\ ToSet(B) \subseteq ToSet(R)
        /\ (n = Len(R) => c = 0) /\ c \in Nat
    BY <2>2, <2>5, <2>6, BooksCut
  <2>8. Len(B) < MaxEntries /\ c + e.size <= MaxBytes
    BY <1>2, <2>4, <2>5, <2>6, <2>7
  <2>9. Books(Append(B, e), c + e.size)
    BY <2>2, <2>7, <2>8, BooksAdd
  <2>10. Stored(E, b, e) = [entries |-> Append(B, e), bytes |-> c + e.size]
    BY <1>2, <2>1, <2>3, <2>6 DEF Stored
  <2> QED
    BY <2>9, <2>10
<1> QED
  BY <1>1, <1>2

\* A hit moves its entry to the most recently used end.
LEMMA BooksHit ==
  ASSUME NEW E, NEW b, Books(E, b), NEW k, NEW e \in Of(E, k)
  PROVE  Books(Append(Without(E, k), e), b) /\ e \in EntryRow /\ e.key = k /\ Sound(e)
<1>1. E \in Seq(EntryRow) /\ Distinct(E) /\ e \in ToSet(E) /\ e.key = k /\ \A x \in ToSet(E) : Sound(x)
  BY DEF Books, Of
<1>2. e \in EntryRow /\ Sound(e)
  BY <1>1, EntriesFinite
<1>3. Of(E, k) = {e}
  BY <1>1, WithoutKey
<1>4. PICK R, c : R = Without(E, k) /\ c = b - SizeSum(Of(E, k))
  OBVIOUS
<1>5. /\ Books(R, c) /\ (\A x \in ToSet(R) : x.key # k) /\ Len(R) < MaxEntries
      /\ SizeSum(Of(E, k)) \in Nat /\ SizeSum(Of(E, k)) <= b
  BY <1>3, <1>4, BooksWithout
<1>6. SizeSum(Of(E, k)) = e.size
  BY <1>2, <1>3, SizeOfSets
<1>7. b \in Nat /\ b <= MaxBytes
  <2>1. ToSet(E) \in SUBSET EntryRow /\ IsFiniteSet(ToSet(E))
    BY <1>1, EntriesFinite
  <2> QED
    BY <2>1, SizeOfSets DEF Books
<1>8. c + e.size = b
  BY <1>4, <1>5, <1>6, <1>7
<1>9. Books(Append(R, e), c + e.size)
  BY <1>1, <1>2, <1>5, <1>7, <1>8, BooksAdd
<1> QED
  BY <1>1, <1>2, <1>4, <1>8, <1>9

Aged(E, k) == [i \in 1..Len(E) |-> IF E[i].key = k THEN [E[i] EXCEPT !.aged = TRUE] ELSE E[i]]

\* A remembered failure that ages stays in its place.
LEMMA BooksAged ==
  ASSUME NEW E, NEW b, Books(E, b), NEW k, Of(E, k) # {}
  PROVE  Books(Aged(E, k), b)
<1>1. E \in Seq(EntryRow) /\ Distinct(E) /\ Len(E) \in Nat /\ DOMAIN E = 1..Len(E)
      /\ \A i \in 1..Len(E) : E[i] \in EntryRow
  BY DEF Books
<1>2. PICK m \in 1..Len(E) : E[m].key = k
  BY <1>1 DEF Of, ToSet
<1>3. \A i \in 1..Len(E) : E[i].key = k => i = m
  BY <1>1, <1>2 DEF Distinct
<1>4. PICK e, f : e = E[m] /\ f = [e EXCEPT !.aged = TRUE]
  OBVIOUS
<1>5. e \in EntryRow /\ f \in EntryRow /\ f.key = e.key /\ f.size = e.size /\ (Sound(e) => Sound(f))
  <2>1. e \in EntryRow
    BY <1>1, <1>2, <1>4
  <2> QED
    BY <1>4, <2>1 DEF EntryRow, Sound
<1>6. PICK A : A = Aged(E, k)
  OBVIOUS
<1>7. DOMAIN A = 1..Len(E) /\ \A i \in 1..Len(E) : A[i] = IF i = m THEN f ELSE E[i]
  BY <1>2, <1>3, <1>4, <1>6 DEF Aged
<1>8. A \in Seq(EntryRow) /\ Len(A) = Len(E)
  <2>1. \A i \in 1..Len(E) : A[i] \in EntryRow
    BY <1>1, <1>5, <1>7
  <2>2. A = [i \in 1..Len(E) |-> A[i]]
    BY <1>6, <1>7 DEF Aged
  <2>3. A \in [1..Len(E) -> EntryRow]
    BY <2>1, <2>2
  <2> QED
    BY <1>1, <2>3
<1>9. Distinct(A)
  BY <1>1, <1>4, <1>5, <1>7 DEF Distinct
<1>10. ToSet(E) = {E[i] : i \in 1..Len(E)} /\ ToSet(A) = {A[i] : i \in 1..Len(E)}
  BY <1>1, <1>7 DEF ToSet
<1> DEFINE R == ToSet(E) \ {e}
<1>11. ToSet(E) = R \cup {e} /\ R \cap {e} = {}
  BY <1>2, <1>4, <1>10
<1>12. ToSet(A) = R \cup {f}
  <2>1. \A i \in 1..Len(E) : i # m => E[i] # e
    BY <1>1, <1>2, <1>4 DEF Distinct
  <2>2. ASSUME NEW x \in ToSet(A) PROVE x \in R \cup {f}
    <3>1. PICK i \in 1..Len(E) : x = A[i]
      BY <1>10
    <3> QED
      BY <1>7, <1>10, <2>1, <3>1
  <2>3. ASSUME NEW x \in R PROVE x \in ToSet(A)
    <3>1. PICK i \in 1..Len(E) : x = E[i]
      BY <1>10
    <3>2. i # m
      BY <1>4, <3>1
    <3>3. A[i] = x
      BY <1>7, <3>1, <3>2
    <3> QED
      BY <1>10, <3>3
  <2>4. f \in ToSet(A)
    BY <1>2, <1>7, <1>10
  <2> QED
    BY <2>2, <2>3, <2>4
<1>13. R \cap {f} = {}
  <2>1. ASSUME f \in R PROVE FALSE
    <3>1. PICK i \in 1..Len(E) : f = E[i]
      BY <1>10, <2>1
    <3>2. i = m
      BY <1>2, <1>3, <1>4, <1>5, <3>1
    <3> QED
      BY <1>4, <2>1, <3>1, <3>2
  <2> QED
    BY <2>1
<1>14. R \in SUBSET EntryRow /\ IsFiniteSet(R) /\ IsFiniteSet({e}) /\ IsFiniteSet({f})
  <2>1. ToSet(E) \in SUBSET EntryRow /\ IsFiniteSet(ToSet(E))
    BY <1>1, EntriesFinite
  <2> QED
    BY <2>1, FS_Subset, FS_Singleton
<1> HIDE DEF R
<1>15. SizeSum(ToSet(E)) = SizeSum(R) + e.size /\ SizeSum(ToSet(A)) = SizeSum(R) + f.size
  <2>1. {e} \in SUBSET EntryRow /\ {f} \in SUBSET EntryRow
    BY <1>5
  <2>2. SizeSum(R \cup {e}) = SizeSum(R) + SizeSum({e}) /\ SizeSum(R \cup {f}) = SizeSum(R) + SizeSum({f})
    BY <1>11, <1>13, <1>14, <2>1, SizeOfSets
  <2>3. SizeSum({e}) = e.size /\ SizeSum({f}) = f.size
    BY <1>5, SizeOfSets
  <2> QED
    BY <1>11, <1>12, <2>2, <2>3
<1>16. SizeSum(ToSet(A)) = SizeSum(ToSet(E)) /\ \A x \in ToSet(A) : x \in ToSet(E) \/ x = f
  BY <1>5, <1>11, <1>12, <1>15
<1>17. e \in ToSet(E)
  BY <1>11
<1>18. Books(A, b)
  BY <1>5, <1>8, <1>9, <1>16, <1>17 DEF Books
<1> QED
  BY <1>6, <1>18

ReaderRow == [pc : {"idle", "look", "wait", "verify", "publish", "fail", "recheck", "served"},
            sig : 0..MaxWrites, key : Key \cup {<<>>}, value : Key \cup {<<>>},
            late : BOOLEAN, told : BOOLEAN]

\* A call's key is that of the version it found, and its value that of its key.
CallSound(c) ==
  /\ c.pc # "idle" => c.key \in Key /\ c.key[2] = c.sig
  /\ c.pc \in {"recheck", "publish", "served"} => c.value = c.key /\ c.sig \in Good

Leads(c) == c.pc \in {"verify", "publish", "fail"}
Sleepers(T) == {t \in Thread : T[t].pc = "wait"}
Busy(k, F) == k \in F \/ Cardinality(F) >= MaxInflight

WaitersCounted(T, w) ==
  IsFiniteSet(Sleepers(T)) /\ w = Cardinality(Sleepers(T)) /\ w <= MaxWaiters

\* What the calls T promise about the keys F being verified and the w waiters.
Calls(T, F, w) ==
  /\ T \in [Thread -> ReaderRow] /\ \A t \in Thread : CallSound(T[t])
  /\ WaitersCounted(T, w)
  /\ IsFiniteSet(F) /\ Cardinality(F) <= MaxInflight
  /\ \A t, u \in Thread : Leads(T[t]) /\ Leads(T[u]) /\ T[t].key = T[u].key => t = u
  /\ F = {T[t].key : t \in {u \in Thread : Leads(T[u])}}
  /\ \A t \in Thread : T[t].pc = "wait" /\ ~T[t].told => Busy(T[t].key, F)

CacheInv ==
  /\ file \in [Path -> 0..MaxWrites]
  /\ Books(entries, bytes)
  /\ Calls(th, inflight, waiters)

\* A thread that comes or goes, among those that wait.
Waits(c) == IF c.pc = "wait" THEN 1 ELSE 0

LEMMA WaiterMoves ==
  ASSUME NEW T \in [Thread -> ReaderRow], NEW w, WaitersCounted(T, w), NEW t \in Thread, NEW r \in ReaderRow
  PROVE  /\ IsFiniteSet(Sleepers([T EXCEPT ![t] = r]))
         /\ Cardinality(Sleepers([T EXCEPT ![t] = r])) = (w - Waits(T[t])) + Waits(r)
         /\ w \in Nat /\ w - Waits(T[t]) \in Nat
<1>1. PICK U, W, V : U = [T EXCEPT ![t] = r] /\ W = Sleepers(T) /\ V = Sleepers(U)
  OBVIOUS
<1>2. \A u \in Thread : U[u] = IF u = t THEN r ELSE T[u]
  BY <1>1
<1>3. /\ \A u \in Thread : u \in W <=> T[u].pc = "wait"
      /\ \A u \in Thread : u \in V <=> (IF u = t THEN r.pc = "wait" ELSE T[u].pc = "wait")
      /\ W \subseteq Thread /\ V \subseteq Thread
  BY <1>1, <1>2 DEF Sleepers
<1>4. IsFiniteSet(W) /\ w = Cardinality(W) /\ w \in Nat
  BY <1>1, FS_CardinalityType DEF WaitersCounted
<1> DEFINE Goal == /\ IsFiniteSet(V) /\ Cardinality(V) = (w - Waits(T[t])) + Waits(r)
                   /\ w - Waits(T[t]) \in Nat
<1>5. ASSUME T[t].pc = "wait" PROVE Goal
  <2>1. t \in W /\ Waits(T[t]) = 1
    BY <1>3, <1>5 DEF Waits
  <2>2. IsFiniteSet(W \ {t}) /\ Cardinality(W \ {t}) = w - 1 /\ w - 1 \in Nat
    <3>1. IsFiniteSet(W \ {t}) /\ Cardinality(W \ {t}) = w - 1
      BY <1>4, <2>1, FS_RemoveElement
    <3> QED
      BY <3>1, FS_CardinalityType
  <2>3. CASE r.pc = "wait"
    <3>1. V = W /\ Waits(r) = 1
      BY <1>3, <1>5, <2>3 DEF Waits
    <3>2. (w - 1) + Waits(r) = Cardinality(V)
      BY <1>4, <2>2, <3>1
    <3> QED
      BY <1>4, <2>1, <2>2, <3>1, <3>2
  <2>4. CASE r.pc # "wait"
    <3>1. V = W \ {t} /\ Waits(r) = 0
      BY <1>3, <1>5, <2>4 DEF Waits
    <3>2. (w - 1) + Waits(r) = Cardinality(V)
      BY <1>4, <2>2, <3>1
    <3> QED
      BY <1>4, <2>1, <2>2, <3>1, <3>2
  <2> QED
    BY <2>3, <2>4
<1>6. ASSUME T[t].pc # "wait" PROVE Goal
  <2>1. t \notin W /\ Waits(T[t]) = 0
    BY <1>3, <1>6 DEF Waits
  <2>3. CASE r.pc = "wait"
    <3>1. V = W \cup {t} /\ Waits(r) = 1
      BY <1>3, <1>6, <2>3 DEF Waits
    <3>2. IsFiniteSet(W \cup {t}) /\ Cardinality(W \cup {t}) = w + 1
      BY <1>4, <2>1, FS_AddElement
    <3>3. w - 0 = w /\ Cardinality(V) = w + Waits(r)
      BY <1>4, <3>1, <3>2
    <3> QED
      BY <1>4, <2>1, <3>1, <3>2, <3>3
  <2>4. CASE r.pc # "wait"
    <3>1. V = W /\ Waits(r) = 0
      BY <1>3, <1>6, <2>4 DEF Waits
    <3>2. w - 0 = w /\ w + Waits(r) = w
      BY <1>4, <3>1
    <3> QED
      BY <1>4, <2>1, <3>1, <3>2
  <2> QED
    BY <2>3, <2>4
<1>7. Goal
  BY <1>5, <1>6
<1> QED
  BY <1>1, <1>4, <1>7

\* A step of a thread that changes neither what it verifies nor who must wait.
LEMMA CallMoves ==
  ASSUME NEW T, NEW F, NEW w, Calls(T, F, w), NEW t \in Thread, NEW r \in ReaderRow, CallSound(r),
         Leads(r) <=> Leads(T[t]), Leads(r) => r.key = T[t].key,
         r.pc = "wait" /\ ~r.told => Busy(r.key, F),
         NEW v, v = (w - Waits(T[t])) + Waits(r), v <= MaxWaiters
  PROVE  Calls([T EXCEPT ![t] = r], F, v)
<1>1. PICK U : U = [T EXCEPT ![t] = r]
  OBVIOUS
<1>2. U \in [Thread -> ReaderRow] /\ \A u \in Thread : U[u] = IF u = t THEN r ELSE T[u]
  BY <1>1 DEF Calls
<1>3. WaitersCounted(U, v)
  BY <1>1, WaiterMoves DEF Calls, WaitersCounted
<1>4. \A u \in Thread : CallSound(U[u])
  BY <1>2 DEF Calls
<1>5. \A u \in Thread : (Leads(U[u]) <=> Leads(T[u])) /\ (Leads(U[u]) => U[u].key = T[u].key)
  BY <1>2
<1>6. \A s, u \in Thread : Leads(U[s]) /\ Leads(U[u]) /\ U[s].key = U[u].key => s = u
  BY <1>5 DEF Calls
<1>7. F = {U[u].key : u \in {s \in Thread : Leads(U[s])}}
  <2>1. F = {T[u].key : u \in {s \in Thread : Leads(T[s])}}
    BY DEF Calls
  <2> QED
    BY <1>5, <2>1
<1>8. \A u \in Thread : U[u].pc = "wait" /\ ~U[u].told => Busy(U[u].key, F)
  BY <1>2 DEF Calls
<1>9. Calls(U, F, v)
  BY <1>2, <1>3, <1>4, <1>6, <1>7, <1>8 DEF Calls
<1> QED
  BY <1>1, <1>9

\* A thread begins to verify a key that nobody verifies.
LEMMA LeaderComes ==
  ASSUME NEW T, NEW F, NEW w, Calls(T, F, w), NEW t \in Thread, NEW r \in ReaderRow, CallSound(r),
         ~Leads(T[t]), Leads(r), ~Busy(r.key, F)
  PROVE  Calls([T EXCEPT ![t] = r], F \cup {r.key}, w - Waits(T[t]))
<1>1. PICK U, v, k : U = [T EXCEPT ![t] = r] /\ v = w - Waits(T[t]) /\ k = r.key
  OBVIOUS
<1>2. U \in [Thread -> ReaderRow] /\ \A u \in Thread : U[u] = IF u = t THEN r ELSE T[u]
  BY <1>1 DEF Calls
<1>3. Waits(r) = 0 /\ Waits(T[t]) \in 0..1 /\ w <= MaxWaiters /\ MaxWaiters \in Nat
  BY CacheAssumption DEF Leads, Waits, Calls, WaitersCounted
<1>4. WaitersCounted(U, v)
  <2>1. /\ IsFiniteSet(Sleepers(U)) /\ Cardinality(Sleepers(U)) = v + Waits(r)
        /\ w \in Nat /\ v \in Nat
    BY <1>1, WaiterMoves DEF Calls
  <2> QED
    BY <1>1, <1>3, <2>1 DEF WaitersCounted
<1>5. \A u \in Thread : CallSound(U[u])
  BY <1>2 DEF Calls
<1>6. F = {T[u].key : u \in {s \in Thread : Leads(T[s])}}
  BY DEF Calls
<1>7. k \notin F /\ \A u \in Thread : Leads(T[u]) => T[u].key # k
  BY <1>1, <1>6 DEF Busy
<1>8. \A s, u \in Thread : Leads(U[s]) /\ Leads(U[u]) /\ U[s].key = U[u].key => s = u
  BY <1>1, <1>2, <1>7 DEF Calls
<1>9. F \cup {k} = {U[u].key : u \in {s \in Thread : Leads(U[s])}}
  BY <1>1, <1>2, <1>6
<1>10. /\ IsFiniteSet(F \cup {k}) /\ Cardinality(F \cup {k}) <= MaxInflight
       /\ Cardinality(F \cup {k}) = Cardinality(F) + 1 /\ Cardinality(F) \in Nat
  <2>1. IsFiniteSet(F) /\ Cardinality(F) \in Nat /\ MaxInflight \in Nat
    BY CacheAssumption, FS_CardinalityType DEF Calls
  <2>2. IsFiniteSet(F \cup {k}) /\ Cardinality(F \cup {k}) = Cardinality(F) + 1
    BY <1>7, <2>1, FS_AddElement
  <2>3. ~(Cardinality(F) >= MaxInflight)
    BY DEF Busy
  <2> QED
    BY <2>1, <2>2, <2>3
<1>11. \A l : Busy(l, F) => Busy(l, F \cup {k})
  <2>1. MaxInflight \in Nat
    BY CacheAssumption
  <2> QED
    BY <1>10, <2>1 DEF Busy
<1>12. \A u \in Thread : U[u].pc = "wait" /\ ~U[u].told => Busy(U[u].key, F \cup {k})
  BY <1>2, <1>11 DEF Calls, Leads
<1>13. Calls(U, F \cup {k}, v)
  BY <1>2, <1>4, <1>5, <1>8, <1>9, <1>10, <1>12 DEF Calls
<1> QED
  BY <1>1, <1>13

\* A thread is done with verifying, and everybody who waits is told.
LEMMA LeaderGoes ==
  ASSUME NEW T, NEW F, NEW w, Calls(T, F, w), NEW t \in Thread, NEW r \in ReaderRow, CallSound(r),
         Leads(T[t]), ~Leads(r), r.pc # "wait"
  PROVE  Calls(Notify([T EXCEPT ![t] = r]), F \ {T[t].key}, w)
<1>1. PICK U, k, N : U = [T EXCEPT ![t] = r] /\ k = T[t].key /\ N = Notify(U)
  OBVIOUS
<1>2. U \in [Thread -> ReaderRow] /\ \A u \in Thread : U[u] = IF u = t THEN r ELSE T[u]
  BY <1>1 DEF Calls
<1>3. N = [u \in Thread |-> IF U[u].pc = "wait" THEN [U[u] EXCEPT !.told = TRUE] ELSE U[u]]
  BY <1>1 DEF Notify
<1>4. /\ N \in [Thread -> ReaderRow]
      /\ \A u \in Thread : /\ N[u].pc = U[u].pc /\ N[u].key = U[u].key /\ N[u].sig = U[u].sig
                           /\ N[u].value = U[u].value
                           /\ N[u].pc = "wait" => N[u].told
  <2>1. ASSUME NEW q \in ReaderRow
        PROVE  /\ [q EXCEPT !.told = TRUE] \in ReaderRow /\ [q EXCEPT !.told = TRUE].told
               /\ [q EXCEPT !.told = TRUE].pc = q.pc /\ [q EXCEPT !.told = TRUE].key = q.key
               /\ [q EXCEPT !.told = TRUE].sig = q.sig /\ [q EXCEPT !.told = TRUE].value = q.value
    BY DEF ReaderRow
  <2>2. \A u \in Thread : U[u] \in ReaderRow
    BY <1>2
  <2>3. \A u \in Thread : N[u] = IF U[u].pc = "wait" THEN [U[u] EXCEPT !.told = TRUE] ELSE U[u]
    BY <1>3
  <2>4. \A u \in Thread : N[u] \in ReaderRow
    BY <2>1, <2>2, <2>3
  <2>5. N \in [Thread -> ReaderRow]
    BY <1>3, <2>3, <2>4
  <2> QED
    BY <2>1, <2>2, <2>3, <2>5
<1>5. WaitersCounted(N, w)
  <2>1. Waits(r) = 0 /\ Waits(T[t]) = 0
    BY DEF Leads, Waits
  <2>2. IsFiniteSet(Sleepers(U)) /\ Cardinality(Sleepers(U)) = (w - Waits(T[t])) + Waits(r) /\ w \in Nat
    BY <1>1, WaiterMoves DEF Calls
  <2>3. Sleepers(N) = Sleepers(U)
    BY <1>4 DEF Sleepers
  <2>4. w <= MaxWaiters
    BY DEF Calls, WaitersCounted
  <2> QED
    BY <2>1, <2>2, <2>3, <2>4 DEF WaitersCounted
<1>6. \A u \in Thread : CallSound(N[u])
  <2>1. \A u \in Thread : CallSound(U[u])
    BY <1>2 DEF Calls
  <2> QED
    BY <1>4, <2>1 DEF CallSound
<1>7. \A u \in Thread : u # t => T[u] = U[u]
  BY <1>2
<1>8. \A u \in Thread : (Leads(N[u]) <=> u # t /\ Leads(T[u])) /\ (u # t => N[u].key = T[u].key)
  <2>1. U[t] = r
    BY <1>2
  <2> QED
    BY <1>4, <1>7, <2>1 DEF Leads
<1>9. \A s, u \in Thread : Leads(T[s]) /\ Leads(T[u]) /\ T[s].key = T[u].key => s = u
  BY DEF Calls
<1>10. \A s, u \in Thread : Leads(N[s]) /\ Leads(N[u]) /\ N[s].key = N[u].key => s = u
  BY <1>8, <1>9
<1>11. F \ {k} = {N[u].key : u \in {s \in Thread : Leads(N[s])}}
  <2>1. F = {T[u].key : u \in {s \in Thread : Leads(T[s])}}
    BY DEF Calls
  <2>2. ASSUME NEW x \in F \ {k} PROVE \E u \in Thread : Leads(N[u]) /\ x = N[u].key
    <3>1. PICK u \in Thread : Leads(T[u]) /\ x = T[u].key
      BY <2>1, <2>2
    <3>2. u # t
      BY <1>1, <2>2, <3>1
    <3> QED
      BY <1>8, <3>1, <3>2
  <2>3. ASSUME NEW u \in Thread, Leads(N[u]) PROVE N[u].key \in F \ {k}
    <3>1. u # t /\ Leads(T[u]) /\ N[u].key = T[u].key
      BY <1>8, <2>3
    <3>2. T[u].key # k
      BY <1>1, <1>9, <3>1
    <3> QED
      BY <2>1, <3>1, <3>2
  <2> QED
    BY <2>2, <2>3
<1>12. IsFiniteSet(F \ {k}) /\ Cardinality(F \ {k}) <= MaxInflight
  <2>1. IsFiniteSet(F) /\ Cardinality(F) \in Nat /\ MaxInflight \in Nat /\ Cardinality(F) <= MaxInflight
    BY CacheAssumption, FS_CardinalityType DEF Calls
  <2>2. F \ {k} \in SUBSET F
    OBVIOUS
  <2>3. IsFiniteSet(F \ {k}) /\ Cardinality(F \ {k}) <= Cardinality(F) /\ Cardinality(F \ {k}) \in Nat
    BY <2>1, <2>2, FS_Subset, FS_CardinalityType
  <2> QED
    BY <2>1, <2>3
<1>13. Calls(N, F \ {k}, w)
  BY <1>4, <1>5, <1>6, <1>10, <1>11, <1>12 DEF Calls
<1> QED
  BY <1>1, <1>13

LEMMA CacheStart == CInit => CacheInv
<1> SUFFICES ASSUME CInit PROVE CacheInv
  OBVIOUS
<1>1. file \in [Path -> 0..MaxWrites]
  BY CacheAssumption DEF CInit
<1>2. /\ MaxEntries \in Nat \ {0} /\ MaxBytes \in Nat \ {0} /\ MaxWaiters \in Nat \ {0}
      /\ MaxInflight \in Nat \ {0} /\ MaxWrites \in Nat
  BY CacheAssumption
<1>3. Books(<<>>, 0)
  <2>1. <<>> \in Seq(EntryRow) /\ Len(<<>>) = 0 /\ Distinct(<<>>) /\ ToSet(<<>>) = {}
    BY DEF Distinct, ToSet
  <2> QED
    BY <1>2, <2>1, SizeOfSets DEF Books
<1>4. Idle \in ReaderRow /\ CallSound(Idle) /\ Idle.pc = "idle" /\ ~Leads(Idle)
  BY <1>2 DEF Idle, ReaderRow, CallSound, Leads
<1>5. th \in [Thread -> ReaderRow] /\ \A t \in Thread : th[t] = Idle
  BY <1>4 DEF CInit
<1>6. WaitersCounted(th, 0)
  <2>1. Sleepers(th) = {}
    BY <1>4, <1>5 DEF Sleepers
  <2> QED
    BY <1>2, <2>1, FS_EmptySet DEF WaitersCounted
<1>7. Calls(th, {}, 0)
  <2>1. IsFiniteSet({}) /\ Cardinality({}) <= MaxInflight
    BY <1>2, FS_EmptySet
  <2>2. {} = {th[t].key : t \in {u \in Thread : Leads(th[u])}}
    BY <1>4, <1>5
  <2> QED
    BY <1>4, <1>5, <1>6, <2>1, <2>2 DEF Calls
<1> QED
  BY <1>1, <1>3, <1>7 DEF CacheInv, CInit

\* What the invariant says of the thread that takes a step.
LEMMA CallOf ==
  ASSUME CacheInv, NEW t \in Thread
  PROVE  /\ th[t] \in ReaderRow /\ CallSound(th[t]) /\ th \in [Thread -> ReaderRow]
         /\ Calls(th, inflight, waiters) /\ Books(entries, bytes)
         /\ waiters \in Nat /\ waiters <= MaxWaiters /\ MaxWaiters \in Nat
         /\ waiters - Waits(th[t]) \in Nat /\ Leaving(t) = waiters - Waits(th[t])
         /\ Leaving(t) <= MaxWaiters
<1>1. Calls(th, inflight, waiters) /\ th \in [Thread -> ReaderRow] /\ WaitersCounted(th, waiters)
  BY DEF CacheInv, Calls
<1>2. waiters \in Nat /\ waiters - Waits(th[t]) \in Nat
  <2>1. th[t] \in ReaderRow
    BY <1>1
  <2> QED
    BY <1>1, <2>1, WaiterMoves
<1>3. Leaving(t) = waiters - Waits(th[t]) /\ Waits(th[t]) \in 0..1
  BY <1>2 DEF Leaving, At, Waits
<1>4. waiters <= MaxWaiters /\ MaxWaiters \in Nat
  BY <1>1, CacheAssumption DEF WaitersCounted
<1>5. Leaving(t) <= MaxWaiters
  BY <1>2, <1>3, <1>4
<1> QED
  BY <1>1, <1>2, <1>3, <1>4, <1>5 DEF CacheInv, Calls

LEMMA IdleCall == Idle \in ReaderRow /\ CallSound(Idle) /\ ~Leads(Idle) /\ Waits(Idle) = 0 /\ Idle.pc = "idle"
  BY CacheAssumption DEF Idle, ReaderRow, CallSound, Leads, Waits

LEMMA StartStep == ASSUME CacheInv, NEW t \in Thread, NEW p \in Path, Start(t, p) PROVE CacheInv'
<1>1. /\ th[t] \in ReaderRow /\ Calls(th, inflight, waiters) /\ Books(entries, bytes)
      /\ waiters \in Nat /\ waiters <= MaxWaiters
  BY CallOf
<1>2. PICK r : r = [Idle EXCEPT !.pc = "look", !.sig = file[p], !.key = KeyOf(p, file[p])]
  OBVIOUS
<1>3. file[p] \in 0..MaxWrites /\ KeyOf(p, file[p]) \in Key /\ KeyOf(p, file[p])[2] = file[p]
  BY DEF CacheInv, KeyOf, Key
<1>4. r \in ReaderRow /\ r.pc = "look" /\ r.key = KeyOf(p, file[p]) /\ r.sig = file[p]
  BY <1>2, <1>3 DEF Idle, ReaderRow
<1>5. CallSound(r) /\ ~Leads(r) /\ r.pc # "wait" /\ Waits(r) = 0
  BY <1>3, <1>4 DEF CallSound, Leads, Waits
<1>6. ~Leads(th[t]) /\ Waits(th[t]) = 0 /\ th' = [th EXCEPT ![t] = r]
  BY <1>2 DEF Start, At, Leads, Waits
<1>7. waiters = (waiters - Waits(th[t])) + Waits(r)
  BY <1>1, <1>5, <1>6
<1>8. Calls(th', inflight, waiters)
  BY <1>1, <1>4, <1>5, <1>6, <1>7, CallMoves
<1> QED
  BY <1>8 DEF CacheInv, Start

LEMMA HitStep == ASSUME CacheInv, NEW t \in Thread, Hit(t) PROVE CacheInv'
<1>1. /\ th[t] \in ReaderRow /\ CallSound(th[t]) /\ Calls(th, inflight, waiters) /\ Books(entries, bytes)
      /\ waiters \in Nat /\ waiters - Waits(th[t]) \in Nat
      /\ Leaving(t) = waiters - Waits(th[t]) /\ Leaving(t) <= MaxWaiters
  BY CallOf
<1>2. PICK k : k = th[t].key
  OBVIOUS
<1>3. PICK e \in Of(entries, k) :
        /\ entries' = Append(Without(entries, k), e)
        /\ th' = [th EXCEPT ![t] = IF e.failed THEN Idle
                                   ELSE [th[t] EXCEPT !.pc = "recheck", !.value = e.value]]
  BY <1>2 DEF Hit, EntryOf
<1>4. Books(entries', bytes) /\ e \in EntryRow /\ e.key = k /\ Sound(e)
  BY <1>1, <1>3, BooksHit
<1>5. th[t].pc \in {"look", "wait"} /\ ~Leads(th[t]) /\ th[t].key \in Key /\ th[t].key[2] = th[t].sig
  BY <1>1 DEF Hit, HasLock, At, Leads, CallSound
<1>6. PICK r : r = IF e.failed THEN Idle ELSE [th[t] EXCEPT !.pc = "recheck", !.value = e.value]
  OBVIOUS
<1>7. r \in ReaderRow /\ CallSound(r) /\ ~Leads(r) /\ r.pc # "wait" /\ Waits(r) = 0
  <2>1. CASE e.failed
    BY <1>6, <2>1, IdleCall
  <2>2. CASE ~e.failed
    <3>1. e.value = k /\ k[2] \in Good /\ e.value \in Key \cup {<<>>}
      BY <1>2, <1>4, <1>5, <2>2 DEF Sound
    <3>2. r \in ReaderRow /\ r.pc = "recheck" /\ r.value = e.value /\ r.key = th[t].key /\ r.sig = th[t].sig
      BY <1>1, <1>6, <2>2, <3>1 DEF ReaderRow
    <3> QED
      BY <1>2, <1>5, <3>1, <3>2 DEF CallSound, Leads, Waits
  <2> QED
    BY <2>1, <2>2
<1>8. waiters' = (waiters - Waits(th[t])) + Waits(r) /\ waiters' <= MaxWaiters
  BY <1>1, <1>7 DEF Hit
<1>9. th' = [th EXCEPT ![t] = r]
  BY <1>3, <1>6
<1>10. Calls(th', inflight, waiters')
  BY <1>1, <1>5, <1>7, <1>8, <1>9, CallMoves
<1> QED
  BY <1>4, <1>10 DEF CacheInv, Hit

LEMMA LeadStep == ASSUME CacheInv, NEW t \in Thread, Lead(t) PROVE CacheInv'
<1>1. /\ th[t] \in ReaderRow /\ CallSound(th[t]) /\ th \in [Thread -> ReaderRow]
      /\ Calls(th, inflight, waiters) /\ Books(entries, bytes) /\ Leaving(t) = waiters - Waits(th[t])
  BY CallOf
<1>2. PICK k, r : k = th[t].key /\ r = [th[t] EXCEPT !.pc = "verify", !.told = FALSE, !.late = FALSE]
  OBVIOUS
<1>3. th[t].pc \in {"look", "wait"} /\ ~Leads(th[t]) /\ th[t].key \in Key /\ th[t].key[2] = th[t].sig
  BY <1>1 DEF Lead, HasLock, At, Leads, CallSound
<1>4. r \in ReaderRow /\ r.pc = "verify" /\ r.key = k /\ r.sig = th[t].sig
  BY <1>1, <1>2 DEF ReaderRow
<1>5. CallSound(r) /\ Leads(r)
  BY <1>2, <1>3, <1>4 DEF CallSound, Leads
<1>6. th' = [th EXCEPT ![t] = r]
  BY <1>1, <1>2 DEF Lead
<1>7. ~Busy(r.key, inflight)
  <2>1. Cardinality(inflight) \in Nat /\ MaxInflight \in Nat
    BY <1>1, CacheAssumption, FS_CardinalityType DEF Calls
  <2> QED
    BY <1>2, <1>4, <2>1 DEF Lead, MayVerify, Busy
<1>8. inflight' = inflight \cup {r.key} /\ waiters' = waiters - Waits(th[t])
  BY <1>1, <1>2, <1>4 DEF Lead
<1>9. Calls(th', inflight', waiters')
  BY <1>1, <1>3, <1>4, <1>5, <1>6, <1>7, <1>8, LeaderComes
<1>10. Books(entries', bytes')
  BY <1>1, BooksWithout DEF Lead, Forget, EntryOf
<1> QED
  BY <1>9, <1>10 DEF CacheInv, Lead

LEMMA WaitStep == ASSUME CacheInv, NEW t \in Thread, Wait(t) PROVE CacheInv'
<1>1. /\ th[t] \in ReaderRow /\ CallSound(th[t]) /\ th \in [Thread -> ReaderRow]
      /\ Calls(th, inflight, waiters) /\ Books(entries, bytes)
      /\ waiters - Waits(th[t]) \in Nat /\ MaxWaiters \in Nat
      /\ Leaving(t) = waiters - Waits(th[t]) /\ Leaving(t) <= MaxWaiters
  BY CallOf
<1>2. PICK k : k = th[t].key
  OBVIOUS
<1>3. th[t].pc \in {"look", "wait"} /\ ~Leads(th[t]) /\ th[t].key \in Key /\ th[t].key[2] = th[t].sig
  BY <1>1 DEF Wait, HasLock, At, Leads, CallSound
<1>4. Busy(k, inflight)
  <2>1. Cardinality(inflight) \in Nat /\ MaxInflight \in Nat
    BY <1>1, CacheAssumption, FS_CardinalityType DEF Calls
  <2> QED
    BY <1>2, <2>1 DEF Wait, MayVerify, Busy
<1>5. Calls(th', inflight, waiters')
  <2>1. CASE th' = [th EXCEPT ![t] = Idle] /\ waiters' = Leaving(t)
    <3>1. waiters' = (waiters - Waits(th[t])) + Waits(Idle) /\ waiters' <= MaxWaiters
      BY <1>1, <2>1, IdleCall
    <3>2. Idle \in ReaderRow /\ CallSound(Idle) /\ ~Leads(Idle) /\ Idle.pc # "wait"
      BY IdleCall
    <3> HIDE DEF Idle
    <3> QED
      BY <1>1, <1>3, <2>1, <3>1, <3>2, CallMoves
  <2>2. CASE /\ th' = [th EXCEPT ![t].pc = "wait", ![t].told = FALSE]
             /\ waiters' = Leaving(t) + 1 /\ ~(Leaving(t) >= MaxWaiters)
    <3>1. PICK r : r = [th[t] EXCEPT !.pc = "wait", !.told = FALSE]
      OBVIOUS
    <3>2. r \in ReaderRow /\ r.pc = "wait" /\ r.key = k /\ r.sig = th[t].sig
      BY <1>1, <1>2, <3>1 DEF ReaderRow
    <3>3. CallSound(r) /\ ~Leads(r) /\ Waits(r) = 1
      BY <1>2, <1>3, <3>2 DEF CallSound, Leads, Waits
    <3>4. th' = [th EXCEPT ![t] = r]
      BY <1>1, <2>2, <3>1
    <3>5. waiters' = (waiters - Waits(th[t])) + Waits(r) /\ waiters' <= MaxWaiters
      BY <1>1, <2>2, <3>3
    <3> QED
      BY <1>1, <1>3, <1>4, <3>2, <3>3, <3>4, <3>5, CallMoves
  <2> QED
    BY <2>1, <2>2 DEF Wait
<1>6. Books(entries', bytes')
  BY <1>1, BooksWithout DEF Wait, Forget, EntryOf
<1> QED
  BY <1>5, <1>6 DEF CacheInv, Wait

\* A step outside the lock, or a deadline: only the thread's own call changes.
LEMMA OwnStep ==
  ASSUME CacheInv, NEW t \in Thread, NEW r \in ReaderRow, CallSound(r), th' = [th EXCEPT ![t] = r],
         Leads(r) <=> Leads(th[t]), Leads(r) => r.key = th[t].key,
         r.pc = "wait" <=> th[t].pc = "wait", r.pc = "wait" => r.key = th[t].key /\ r.told = th[t].told,
         UNCHANGED <<file, entries, inflight, waiters, bytes>>
  PROVE  CacheInv'
<1>1. Calls(th, inflight, waiters) /\ waiters \in Nat /\ waiters <= MaxWaiters
  BY CallOf
<1>2. Waits(r) = Waits(th[t]) /\ Waits(r) \in 0..1
  BY DEF Waits
<1>3. waiters = (waiters - Waits(th[t])) + Waits(r)
  BY <1>1, <1>2
<1>4. r.pc = "wait" /\ ~r.told => Busy(r.key, inflight)
  BY <1>1 DEF Calls
<1>5. Calls(th', inflight, waiters)
  BY <1>1, <1>3, <1>4, CallMoves
<1> QED
  BY <1>5 DEF CacheInv

LEMMA OwnSteps ==
  ASSUME CacheInv, NEW t \in Thread, Recheck(t) \/ Validate(t) \/ EndCall(t) \/ Deadline(t)
  PROVE  CacheInv'
<1>1. /\ th[t] \in ReaderRow /\ CallSound(th[t]) /\ th \in [Thread -> ReaderRow]
      /\ Calls(th, inflight, waiters)
  BY CallOf
<1>2. PICK c : c = th[t]
  OBVIOUS
<1>3. Idle \in ReaderRow /\ CallSound(Idle) /\ ~Leads(Idle) /\ Idle.pc = "idle"
  BY IdleCall
<1>4. CASE Recheck(t)
  <2>1. c.pc = "recheck" /\ ~Leads(c)
    BY <1>2, <1>4 DEF Recheck, At, Leads
  <2>2. CASE th' = [th EXCEPT ![t] = [c EXCEPT !.pc = "served"]]
    <3>1. PICK r : r = [c EXCEPT !.pc = "served"]
      OBVIOUS
    <3>2. r \in ReaderRow /\ r.pc = "served" /\ r.value = c.value /\ r.key = c.key /\ r.sig = c.sig
      BY <1>1, <1>2, <3>1 DEF ReaderRow
    <3>3. CallSound(r) /\ ~Leads(r)
      BY <1>1, <1>2, <2>1, <3>2 DEF CallSound, Leads
    <3> QED
      BY <1>2, <1>4, <2>1, <2>2, <3>1, <3>2, <3>3, OwnStep DEF Recheck
  <2>3. CASE th' = [th EXCEPT ![t] = Idle]
    BY <1>2, <1>3, <1>4, <2>1, <2>3, OwnStep DEF Recheck
  <2> QED
    BY <1>2, <1>4, <2>2, <2>3 DEF Recheck
<1>5. CASE Validate(t)
  <2>1. c.pc = "verify" /\ Leads(c) /\ c.key \in Key /\ c.key[2] = c.sig
    BY <1>1, <1>2, <1>5 DEF Validate, At, Leads, CallSound
  <2>2. CASE /\ file[c.key[1]] = c.sig /\ c.sig \in Good
             /\ th' = [th EXCEPT ![t] = [c EXCEPT !.pc = "publish", !.value = <<c.key[1], file[c.key[1]]>>]]
    <3>1. <<c.key[1], file[c.key[1]]>> = c.key
      BY <2>1, <2>2 DEF Key
    <3>2. PICK r : r = [c EXCEPT !.pc = "publish", !.value = c.key]
      OBVIOUS
    <3>3. r \in ReaderRow /\ r.pc = "publish" /\ r.value = c.key /\ r.key = c.key /\ r.sig = c.sig
      BY <1>1, <1>2, <2>1, <3>2 DEF ReaderRow
    <3>4. CallSound(r) /\ Leads(r)
      BY <2>1, <2>2, <3>3 DEF CallSound, Leads
    <3>5. th' = [th EXCEPT ![t] = r]
      BY <2>2, <3>1, <3>2
    <3> QED
      BY <1>2, <1>5, <2>1, <3>3, <3>4, <3>5, OwnStep DEF Validate
  <2>3. CASE th' = [th EXCEPT ![t] = [c EXCEPT !.pc = "fail"]]
    <3>1. PICK r : r = [c EXCEPT !.pc = "fail"]
      OBVIOUS
    <3>2. r \in ReaderRow /\ r.pc = "fail" /\ r.value = c.value /\ r.key = c.key /\ r.sig = c.sig
      BY <1>1, <1>2, <3>1 DEF ReaderRow
    <3>3. CallSound(r) /\ Leads(r)
      BY <2>1, <3>2 DEF CallSound, Leads
    <3> QED
      BY <1>2, <1>5, <2>1, <2>3, <3>1, <3>2, <3>3, OwnStep DEF Validate
  <2> QED
    BY <1>2, <1>5, <2>2, <2>3 DEF Validate
<1>6. CASE EndCall(t)
  <2>1. c.pc = "served" /\ ~Leads(c) /\ th' = [th EXCEPT ![t] = Idle]
    BY <1>2, <1>6 DEF EndCall, At, Leads
  <2> QED
    BY <1>2, <1>3, <1>6, <2>1, OwnStep DEF EndCall
<1>7. CASE Deadline(t)
  <2>1. c.pc = "wait" /\ ~Leads(c)
    BY <1>2, <1>7 DEF Deadline, At, Leads
  <2>2. PICK r : r = [c EXCEPT !.late = TRUE]
    OBVIOUS
  <2>3. r \in ReaderRow /\ r.pc = c.pc /\ r.value = c.value /\ r.key = c.key /\ r.sig = c.sig /\ r.told = c.told
    BY <1>1, <1>2, <2>2 DEF ReaderRow
  <2>4. CallSound(r) /\ ~Leads(r)
    BY <1>1, <1>2, <2>1, <2>3 DEF CallSound, Leads
  <2>5. th' = [th EXCEPT ![t] = r]
    BY <1>1, <1>2, <1>7, <2>2 DEF Deadline
  <2> QED
    BY <1>2, <1>7, <2>1, <2>3, <2>4, <2>5, OwnStep DEF Deadline
<1> QED
  BY <1>4, <1>5, <1>6, <1>7

LEMMA PublishStep == ASSUME CacheInv, NEW t \in Thread, Publish(t) PROVE CacheInv'
<1>1. /\ th[t] \in ReaderRow /\ CallSound(th[t]) /\ th \in [Thread -> ReaderRow]
      /\ Calls(th, inflight, waiters) /\ Books(entries, bytes)
  BY CallOf
<1>2. PICK c, k : c = th[t] /\ k = th[t].key
  OBVIOUS
<1>3. c.pc = "publish" /\ Leads(c) /\ c.key \in Key /\ c.key[2] = c.sig /\ c.value = c.key /\ c.sig \in Good
  BY <1>1, <1>2 DEF Publish, At, Leads, CallSound
<1>4. PICK e : e = [key |-> k, value |-> c.value, failed |-> FALSE, aged |-> FALSE, size |-> SizeOf[c.sig]]
  OBVIOUS
<1>5. e \in EntryRow /\ Sound(e)
  <2>1. SizeOf[c.sig] \in Nat
    BY <1>1, <1>2, CacheAssumption DEF ReaderRow
  <2> QED
    BY <1>2, <1>3, <1>4, <2>1 DEF EntryRow, Sound
<1>6. entries' = Stored(entries, bytes, e).entries /\ bytes' = Stored(entries, bytes, e).bytes
  BY <1>2, <1>4 DEF Publish
<1>7. Books(entries', bytes')
  BY <1>1, <1>5, <1>6, BooksStored
<1>8. PICK r : r = [c EXCEPT !.pc = "served"]
  OBVIOUS
<1>9. r \in ReaderRow /\ r.pc = "served" /\ r.value = c.value /\ r.key = c.key /\ r.sig = c.sig
  BY <1>1, <1>2, <1>8 DEF ReaderRow
<1>10. CallSound(r) /\ ~Leads(r) /\ r.pc # "wait"
  BY <1>3, <1>9 DEF CallSound, Leads
<1>11. th' = Notify([th EXCEPT ![t] = r])
  <2>1. [th EXCEPT ![t].pc = "served"] = [th EXCEPT ![t] = r]
    BY <1>1, <1>2, <1>8
  <2> QED
    BY <2>1 DEF Publish
<1>12. inflight' = inflight \ {th[t].key}
  BY DEF Publish
<1>13. Calls(th', inflight', waiters)
  BY <1>1, <1>2, <1>3, <1>9, <1>10, <1>11, <1>12, LeaderGoes
<1> QED
  BY <1>7, <1>13 DEF CacheInv, Publish

LEMMA RememberStep == ASSUME CacheInv, NEW t \in Thread, Remember(t) PROVE CacheInv'
<1>1. /\ th[t] \in ReaderRow /\ CallSound(th[t]) /\ Calls(th, inflight, waiters) /\ Books(entries, bytes)
  BY CallOf
<1>2. PICK k : k = th[t].key
  OBVIOUS
<1>3. Leads(th[t]) /\ k \in Key
  BY <1>1, <1>2 DEF Remember, At, Leads, CallSound
<1>4. PICK e : e = [key |-> k, value |-> <<>>, failed |-> TRUE, aged |-> FALSE, size |-> FailureSize]
  OBVIOUS
<1>5. e \in EntryRow /\ Sound(e)
  BY <1>3, <1>4, CacheAssumption DEF EntryRow, Sound
<1>6. entries' = Stored(entries, bytes, e).entries /\ bytes' = Stored(entries, bytes, e).bytes
  BY <1>2, <1>4 DEF Remember
<1>7. Books(entries', bytes')
  BY <1>1, <1>5, <1>6, BooksStored
<1>8. Idle \in ReaderRow /\ CallSound(Idle) /\ ~Leads(Idle) /\ Idle.pc # "wait"
  BY IdleCall
<1>9. th' = Notify([th EXCEPT ![t] = Idle]) /\ inflight' = inflight \ {th[t].key}
  BY DEF Remember
<1>10. Calls(th', inflight', waiters)
  BY <1>1, <1>3, <1>8, <1>9, LeaderGoes
<1> QED
  BY <1>7, <1>10 DEF CacheInv, Remember

LEMMA CacheStep == CacheInv /\ [CNext]_cvars => CacheInv'
<1> SUFFICES ASSUME CacheInv, [CNext]_cvars PROVE CacheInv'
  OBVIOUS
<1>1. CASE \E t \in Thread : Step(t) \/ Deadline(t) \/ \E p \in Path : Start(t, p)
  BY <1>1, StartStep, HitStep, LeadStep, WaitStep, OwnSteps, PublishStep, RememberStep DEF Step
<1>2. CASE \E k \in Key : Age(k)
  <2>1. PICK k \in Key : Age(k)
    BY <1>2
  <2>2. Of(entries, k) # {} /\ entries' = Aged(entries, k) /\ UNCHANGED <<file, inflight, waiters, bytes, th>>
    BY <2>1 DEF Age, EntryOf, Aged
  <2>3. Books(entries', bytes)
    BY <2>2, BooksAged DEF CacheInv
  <2> QED
    BY <2>2, <2>3 DEF CacheInv
<1>3. CASE \E p \in Path : Replace(p)
  <2>1. PICK p \in Path : Replace(p)
    BY <1>3
  <2>2. file' \in [Path -> 0..MaxWrites]
    BY <2>1, CacheAssumption DEF Replace, CacheInv
  <2> QED
    BY <2>1, <2>2 DEF Replace, CacheInv
<1>4. CASE Clear
  <2>1. <<>> \in Seq(EntryRow) /\ Len(<<>>) = 0 /\ Distinct(<<>>) /\ ToSet(<<>>) = {}
    BY DEF Distinct, ToSet
  <2>2. Books(<<>>, 0)
    <3>1. 0 <= MaxEntries /\ 0 <= MaxBytes
      BY CacheAssumption
    <3> QED
      BY <2>1, <3>1, SizeOfSets DEF Books
  <2> QED
    BY <1>4, <2>2 DEF Clear, CacheInv
<1>5. CASE UNCHANGED cvars
  BY <1>5 DEF cvars, CacheInv
<1> QED
  BY <1>1, <1>2, <1>3, <1>4, <1>5 DEF CNext

LEMMA CacheInvGivesConsistent == CacheInv => CacheConsistent
<1> SUFFICES ASSUME CacheInv PROVE CacheConsistent
  OBVIOUS
<1>1. Accounted
  <2>1. Sleepers(th) = {t \in Thread : At(t, "wait")}
    BY DEF Sleepers, At
  <2> QED
    BY <2>1 DEF CacheInv, Books, Distinct, Calls, WaitersCounted, Accounted
<1>2. SingleFlight
  BY DEF CacheInv, Calls, Leads, SingleFlight
<1>3. NoLostWakeup
  <2>1. Cardinality(inflight) \in Nat /\ MaxInflight \in Nat
    BY CacheAssumption, FS_CardinalityType DEF CacheInv, Calls
  <2> QED
    BY <2>1 DEF CacheInv, Calls, Busy, At, MayVerify, NoLostWakeup
<1>4. ServesWhatItFound
  <2> SUFFICES ASSUME NEW t \in Thread, At(t, "served")
               PROVE  th[t].value = <<th[t].key[1], th[t].sig>> /\ th[t].sig \in Good
    BY DEF ServesWhatItFound
  <2>1. CallSound(th[t]) /\ th[t].pc = "served"
    BY DEF CacheInv, Calls, At
  <2> QED
    BY <2>1 DEF CallSound, Key
<1> QED
  BY <1>1, <1>2, <1>3, <1>4 DEF CacheConsistent

\* For any number of threads and files, any sizes and limits: the release
\* cache's books are exact, a file is verified by one thread at a time, nobody
\* sleeps through a wake-up, and a caller gets the value of the file it found.
THEOREM CacheStaysConsistent == CSpec => []CacheConsistent
<1>1. CSpec => []CacheInv
  BY CacheStart, CacheStep, PTL DEF CSpec
<1> QED
  BY <1>1, CacheInvGivesConsistent, PTL
=============================================================================
