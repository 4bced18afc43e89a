--------------------------- MODULE CatalogueCache ---------------------------
(***************************************************************************)
(* The response caches of the timeline and materials routes: the bounded   *)
(* cache and the revision of api/services/catalogue_cache.py, and the read *)
(* path around them in api/routers/timeline.py and api/routers/materials.py. *)
(* A request reads the revision, looks, waits for its build lock, reads    *)
(* the revision and looks again, computes the page by several statements   *)
(* of a read-committed session, reads the revision once more and stores    *)
(* the page.  Every await lets other requests and other sessions run.  The *)
(* timeline has one lock.  The material list has one per revision and      *)
(* filters, fixed before the wait: all pages of a list share it, and who   *)
(* waited while the revision changed holds the lock of the older one.      *)
(*                                                                         *)
(* Data: the epochs and their xmin are one number, bumped by the trigger   *)
(* in the transaction of every change; a page is what was read of each     *)
(* part of the catalogue; every page has the same size.  Sessions whose    *)
(* revision is unavailable bypass the cache and are left out.              *)
(***************************************************************************)
EXTENDS Naturals, FiniteSets, Sequences, SequencesExt

CONSTANTS
  Request, Variant, Part,
  Filters,       \* the filters of a variant: what it asks for but offset and limit
  Route,         \* the routes this instance is about, of "timeline" and "materials"
  MaxPages,
  MaxEpoch       \* bound on the changes of the catalogue, for model checking

ASSUME PagesAssumption == MaxPages \in Nat \ {0} /\ MaxEpoch \in Nat

VARIABLES
  route,     \* whose cache and locks these are
  epoch,     \* the committed revision
  content,   \* content[e]: the catalogue as of revision e
  cache,     \* the stored pages, from the least to the most recently used
  building,  \* the build locks that are held
  rq         \* each request

pvars == <<route, epoch, content, cache, building, rq>>

NoRequest == [pc |-> "idle", variant |-> CHOOSE v \in Variant : TRUE, since |-> 0,
              before |-> 0, lock |-> <<>>, page |-> <<>>]

PInit ==
  /\ route \in Route /\ epoch = 0 /\ content = <<[p \in Part |-> 0]>>
  /\ cache = <<>> /\ building = {} /\ rq = [r \in Request |-> NoRequest]

AtStep(r, label) == rq[r].pc = label
Set(r, q) == rq' = [rq EXCEPT ![r] = q]
Snapshot(e) == content[e + 1]
-----------------------------------------------------------------------------
(* The cache. *)

Found(rev, v) == {i \in DOMAIN cache : cache[i].rev = rev /\ cache[i].variant = v}

\* A hit becomes the most recently used entry.
Touched(i) == Append(RemoveAt(cache, i), cache[i])

\* entries.pop(key, None).
WithoutPage(rev, v) ==
  IF Found(rev, v) = {} THEN cache ELSE RemoveAt(cache, CHOOSE i \in Found(rev, v) : TRUE)

\* put: the entry replaces its predecessor, and the oldest make room.
WithPage(e) ==
  LET grown == Append(WithoutPage(e.rev, e.variant), e)
  IN SubSeq(grown, 1 + (IF Len(grown) > MaxPages THEN Len(grown) - MaxPages ELSE 0), Len(grown))
-----------------------------------------------------------------------------
(* A request. *)

Receive(r, v) ==
  /\ AtStep(r, "idle") /\ Set(r, [NoRequest EXCEPT !.pc = "first", !.variant = v, !.since = epoch])
  /\ UNCHANGED <<epoch, content, cache, building>>

\* catalogue_revision: the committed epochs, before and after the wait.
ReadRevision(r) ==
  /\ \/ AtStep(r, "first") /\ Set(r, [rq[r] EXCEPT !.pc = "look", !.before = epoch])
     \/ AtStep(r, "again") /\ Set(r, [rq[r] EXCEPT !.pc = "relook", !.before = epoch])
  /\ UNCHANGED <<epoch, content, cache, building>>

\* Build locks: one for the route, or one per revision and filters.
PerRevision == route = "materials"
LockOf(r) == IF PerRevision THEN <<rq[r].before, Filters[rq[r].variant]>> ELSE <<"route">>

ServeStored(r) ==
  /\ AtStep(r, "look") \/ AtStep(r, "relook")
  /\ \E i \in Found(rq[r].before, rq[r].variant) :
       /\ cache' = Touched(i)
       /\ Set(r, [rq[r] EXCEPT !.pc = "answer", !.page = cache[i].page])
  /\ UNCHANGED <<epoch, content, building>>

\* Nothing stored: wait for the build lock of the route, or of this revision.
WaitForLock(r) ==
  /\ AtStep(r, "look") /\ Found(rq[r].before, rq[r].variant) = {}
  /\ Set(r, [rq[r] EXCEPT !.pc = "wait", !.lock = LockOf(r)])
  /\ UNCHANGED <<epoch, content, cache, building>>

\* The lock is granted, whatever was stored or changed during the wait.
TakeLock(r) ==
  /\ AtStep(r, "wait") /\ rq[r].lock \notin building
  /\ building' = building \cup {rq[r].lock}
  /\ Set(r, [rq[r] EXCEPT !.pc = "again"])
  /\ UNCHANGED <<epoch, content, cache>>

\* Faulty: who waited builds, whatever was stored meanwhile.
MissAnyway(r) ==
  /\ AtStep(r, "relook")
  /\ Set(r, [rq[r] EXCEPT !.pc = "build", !.page = <<>>])
  /\ UNCHANGED <<epoch, content, cache, building>>

Miss(r) ==
  /\ AtStep(r, "relook") /\ Found(rq[r].before, rq[r].variant) = {}
  /\ Set(r, [rq[r] EXCEPT !.pc = "build", !.page = <<>>])
  /\ UNCHANGED <<epoch, content, cache, building>>

\* One statement of the computation sees what is committed by then.
Read(r, p) ==
  /\ AtStep(r, "build") /\ p \notin DOMAIN rq[r].page
  /\ LET page == [q \in DOMAIN rq[r].page \cup {p} |->
                    IF q = p THEN Snapshot(epoch)[p] ELSE rq[r].page[q]]
     IN Set(r, [rq[r] EXCEPT !.page = page, !.pc = IF DOMAIN page = Part THEN "check" ELSE "build"])
  /\ UNCHANGED <<epoch, content, cache, building>>

\* Faulty: the revision is not read again.
CheckNothing(r) ==
  /\ AtStep(r, "check") /\ Set(r, [rq[r] EXCEPT !.pc = "put"])
  /\ UNCHANGED <<epoch, content, cache, building>>

\* The revision changed during the read: 503, retry.
Check(r) ==
  /\ AtStep(r, "check")
  /\ Set(r, [rq[r] EXCEPT !.pc = IF epoch = rq[r].before THEN "put" ELSE "retry"])
  /\ UNCHANGED <<epoch, content, cache, building>>

Put(r) ==
  /\ AtStep(r, "put")
  /\ cache' = WithPage([rev |-> rq[r].before, variant |-> rq[r].variant, page |-> rq[r].page])
  /\ Set(r, [rq[r] EXCEPT !.pc = "answer"])
  /\ UNCHANGED <<epoch, content, building>>

\* The answer is sent and the lock, if any, released.
Reply(r) ==
  /\ AtStep(r, "answer") \/ AtStep(r, "retry")
  /\ building' = building \ {rq[r].lock}
  /\ Set(r, NoRequest)
  /\ UNCHANGED <<epoch, content, cache>>

\* Another session commits a change of some parts, and the epoch with it.
Change ==
  /\ epoch < MaxEpoch /\ epoch' = epoch + 1
  /\ \E P \in SUBSET Part \ {{}} :
       content' = Append(content, [p \in Part |-> IF p \in P THEN epoch + 1 ELSE Snapshot(epoch)[p]])
  /\ UNCHANGED <<cache, building, rq>>

PNext ==
  /\ \/ \E r \in Request :
          \/ \E v \in Variant : Receive(r, v)
          \/ ReadRevision(r) \/ ServeStored(r) \/ WaitForLock(r) \/ TakeLock(r) \/ Miss(r)
          \/ \E p \in Part : Read(r, p)
          \/ Check(r) \/ Put(r) \/ Reply(r)
     \/ Change
  /\ UNCHANGED route

PSpec == PInit /\ [][PNext]_pvars
-----------------------------------------------------------------------------
(* A stored page is the catalogue of one revision, the one in its key: a   *)
(* page whose statements saw two revisions is never stored.                *)
StoredIsExact == \A i \in DOMAIN cache : cache[i].page = Snapshot(cache[i].rev)

(* What a request answers was the whole catalogue at some moment between   *)
(* its arrival and its answer: a hold or a withdrawal committed before a   *)
(* request arrived is never undone by an older page.                       *)
AnswerIsCurrent ==
  \A r \in Request : AtStep(r, "answer") => \E e \in rq[r].since..epoch : rq[r].page = Snapshot(e)

(* Neither what is stored nor what is answered mixes two revisions.        *)
PagesExact == StoredIsExact /\ AnswerIsCurrent

Builds(r) == rq[r].pc \in {"build", "check", "put"}

\* The revision changed while r waited for the lock of the older one.
Shifted(r) == rq[r].lock # LockOf(r)

(* Comments of both routes: simultaneous cold requests share one scan.     *)
(* Behind the timeline's one lock no two requests compute a page, and none *)
(* computes a page that is stored, however long it waited.  Behind the     *)
(* locks of the material list no two requests compute pages of one         *)
(* revision and filters, but for a request whose revision changed during   *)
(* its wait: it holds the older revision's lock and may compute beside one *)
(* that holds the new one's, or compute what that one has just stored.     *)
SharedScan ==
  \A r \in Request : Builds(r) =>
    /\ ~PerRevision => Found(rq[r].before, rq[r].variant) = {}
    /\ \A s \in Request \ {r} :
         Builds(s) => LockOf(r) # LockOf(s) \/ Shifted(r) \/ Shifted(s)
=============================================================================
