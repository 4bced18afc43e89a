------------------------- MODULE TimelineProjection -------------------------
(***************************************************************************)
(* The rebuildable Timeline projection of api/services/                    *)
(* timeline_projection.py: the incremental refresh that the background job *)
(* runs, the request that is answered from it, and the invalidation by a   *)
(* source task (trigger of api/models/source_tasks_v1.py), while other     *)
(* sessions write materials and papers.                                    *)
(*                                                                         *)
(* A row becomes visible later than its updated_at says.  A paper is       *)
(* stamped with now() of PostgreSQL, the start of its transaction; a       *)
(* material by a trigger of its UPDATE (migration 0041), which holds the   *)
(* row's lock by then, until the commit.  No two stamps are equal.  The    *)
(* refresh reads the clock of its own host.  Every statement sees what is  *)
(* committed by then.                                                      *)
(*                                                                         *)
(* Data: one paper, cited by all materials, all of which exist from the    *)
(* start; a transaction writes one row; a row is its version.  Dated       *)
(* holds the pairs of versions that give a point, since a record without a *)
(* date gives none.  A changed schema, policy or year is an invalidation.  *)
(***************************************************************************)
EXTENDS Integers

CONSTANTS
  Material, ThePaper,
  Writer,           \* sessions that write sources
  Reader,           \* requests
  Dated,
  Overlap,          \* _WATERMARK_OVERLAP
  MaxTxn,           \* longest writing transaction
  Ahead, Behind,    \* of the refreshing host's clock
  MaxTime, MaxInvalidations, MaxAborts   \* bounds, for model checking

ASSUME TimelineAssumption ==
  /\ {Overlap, MaxTxn, Ahead, Behind, MaxTime, MaxInvalidations, MaxAborts} \subseteq Nat
  /\ 0 < MaxTxn /\ MaxTxn + Ahead < Overlap
  /\ ThePaper \notin Material

VARIABLES
  now,
  src,       \* the committed materials and the paper
  txn,       \* the row each writer's transaction writes, and its stamp
  proj,      \* the active point of each material, or NoPoint
  state,     \* timeline_projection_state
  locked,    \* sclib_source_task_lock_v1, held by the refresh
  rf,        \* the refresh
  rd,        \* each request
  asked, built,   \* history: invalidations so far, and those seen by the last full build
  aborts

tvars == <<now, src, txn, proj, state, locked, rf, rd, asked, built, aborts>>

Closed == [on |-> "none", at |-> 0]
NoPoint == [rec |-> 0, upd |-> 0, paper |-> 0]
Resting == [pc |-> "idle", at |-> 0, full |-> FALSE, rows |-> <<>>, paper |-> 0, asked |-> 0]
Waiting == [pc |-> "idle", refreshed |-> 0, rows |-> <<>>, seen |-> <<>>]

TInit ==
  /\ now = 1
  /\ src = [x \in Material \cup {ThePaper} |-> [ver |-> 1, upd |-> 0]]
  /\ txn = [w \in Writer |-> Closed]
  /\ proj = [m \in Material |-> NoPoint]
  /\ state = [ready |-> FALSE, watermark |-> -Overlap, refreshed |-> 0]
  /\ locked = FALSE
  /\ rf = Resting /\ rd = [r \in Reader |-> Waiting]
  /\ asked = 0 /\ built = 0 /\ aborts = 0

Larger(a, b) == IF a < b THEN b ELSE a

\* extract_timeline_points, of a material row and a paper version.
Extract(row, paper) ==
  IF <<row.ver, paper>> \in Dated THEN [rec |-> row.ver, upd |-> row.upd, paper |-> paper]
                                  ELSE NoPoint
Want(m) == Extract(src[m], src[ThePaper].ver)
-----------------------------------------------------------------------------
(* External: the writers of materials and papers, and the clock. *)

Timely(t) == \A w \in Writer : txn[w] = Closed \/ t - txn[w].at <= MaxTxn

Tick ==
  /\ now < MaxTime /\ Timely(now + 1) /\ now' = now + 1
  /\ UNCHANGED <<src, txn, proj, state, locked, rf, rd, asked, built, aborts>>

\* sclib_touch_material_updated_at: who updates a material waits for its lock.
Stamp(w, x) ==
  /\ txn[w] = Closed /\ now < MaxTime /\ Timely(now + 1)
  /\ x \in Material => \A v \in Writer : txn[v].on # x
  /\ txn' = [txn EXCEPT ![w] = [on |-> x, at |-> now]] /\ now' = now + 1
  /\ UNCHANGED <<src, proj, state, locked, rf, rd, asked, built, aborts>>

CommitSource(w) ==
  /\ txn[w] # Closed
  /\ src' = [src EXCEPT ![txn[w].on] = [ver |-> @.ver + 1, upd |-> txn[w].at]]
  /\ txn' = [txn EXCEPT ![w] = Closed]
  /\ UNCHANGED <<now, proj, state, locked, rf, rd, asked, built, aborts>>

\* The attempt trigger of a source task, under the same lock.
Invalidate ==
  /\ asked < MaxInvalidations /\ ~locked
  /\ asked' = asked + 1
  /\ state' = [state EXCEPT !.ready = FALSE]
  /\ UNCHANGED <<now, src, txn, proj, locked, rf, rd, built, aborts>>
-----------------------------------------------------------------------------
(* refresh_timeline_projection, one transaction. *)

Clock == {t \in 0..(now + Ahead) : now - Behind <= t}

\* The lock, the clock, the state.
Begin(t) ==
  /\ rf.pc = "idle" /\ ~locked
  /\ locked' = TRUE
  /\ rf' = [Resting EXCEPT !.pc = "decide", !.at = Larger(t, state.refreshed),
                           !.full = ~state.ready, !.asked = asked]
  /\ UNCHANGED <<now, src, txn, proj, state, rd, asked, built, aborts>>

\* _sources_changed_since and _projected_sources_changed.
PapersChanged ==
  \/ src[ThePaper].upd > state.watermark
  \/ \E m \in Material : proj[m] # NoPoint /\ proj[m].paper # src[ThePaper].ver

Decide ==
  /\ rf.pc = "decide"
  /\ rf' = [rf EXCEPT !.pc = "materials", !.full = @ \/ PapersChanged]
  /\ UNCHANGED <<now, src, txn, proj, state, locked, rd, asked, built, aborts>>

Selected == {m \in Material : src[m].upd <= rf.at /\ (rf.full \/ src[m].upd >= state.watermark)}

ReadMaterials ==
  /\ rf.pc = "materials"
  /\ rf' = [rf EXCEPT !.pc = "paper", !.rows = [m \in Selected |-> src[m]]]
  /\ UNCHANGED <<now, src, txn, proj, state, locked, rd, asked, built, aborts>>

ReadPaper ==
  /\ rf.pc = "paper"
  /\ rf' = [rf EXCEPT !.pc = "commit", !.paper = src[ThePaper].ver]
  /\ UNCHANGED <<now, src, txn, proj, state, locked, rd, asked, built, aborts>>

\* Faulty: no overlap.
NextWatermarkAt(at) == Larger(state.watermark, at)

NextWatermark(at) == Larger(state.watermark, at - Overlap)

\* All points of a full build are replaced, otherwise those of the rows read.
Commit ==
  /\ rf.pc = "commit"
  /\ proj' = [m \in Material |->
                IF m \in DOMAIN rf.rows THEN Extract(rf.rows[m], rf.paper)
                ELSE IF rf.full THEN NoPoint ELSE proj[m]]
  /\ state' = [ready |-> TRUE, watermark |-> NextWatermark(rf.at),
               refreshed |-> Larger(state.refreshed, rf.at)]
  /\ built' = IF rf.full THEN rf.asked ELSE built
  /\ locked' = FALSE /\ rf' = Resting
  /\ UNCHANGED <<now, src, txn, rd, asked, aborts>>

\* A statement fails and all is rolled back.
Abort ==
  /\ rf.pc # "idle" /\ aborts < MaxAborts
  /\ aborts' = aborts + 1
  /\ locked' = FALSE /\ rf' = Resting
  /\ UNCHANGED <<now, src, txn, proj, state, rd, asked, built>>
-----------------------------------------------------------------------------
(* fetch_projected_timeline_points.  Falling back to the raw records is the *)
(* end of the request here.                                                *)

ReaderStep(r, from, q) ==
  /\ rd[r].pc = from /\ rd' = [rd EXCEPT ![r] = q]
  /\ UNCHANGED <<now, src, txn, proj, state, locked, rf, asked, built, aborts>>

\* seen is history: the sources when the points were compared with them.
ReadState(r) ==
  ReaderStep(r, "idle", IF state.ready
                        THEN [Waiting EXCEPT !.pc = "changed", !.refreshed = state.refreshed]
                        ELSE Waiting)

\* Two statements: materials, then papers, changed since the last refresh.
SeeChanges(r) ==
  \/ ReaderStep(r, "changed", IF \E m \in Material : src[m].upd > rd[r].refreshed
                              THEN Waiting ELSE [rd[r] EXCEPT !.pc = "papers"])
  \/ ReaderStep(r, "papers", IF src[ThePaper].upd > rd[r].refreshed
                             THEN Waiting ELSE [rd[r] EXCEPT !.pc = "rows"])

\* Points and papers in one statement; a point of another paper version is refused.
ReadRows(r) ==
  LET live == {m \in Material : proj[m] # NoPoint} IN
  ReaderStep(r, "rows", IF \E m \in live : proj[m].paper # src[ThePaper].ver THEN Waiting
                        ELSE [rd[r] EXCEPT !.pc = "compare", !.rows = [m \in live |-> proj[m]]])

\* Faulty: the points are not compared with their materials.
CompareNothing(r) == ReaderStep(r, "compare", [rd[r] EXCEPT !.pc = "answer", !.seen = src])

\* The materials once more; a point older than its material is refused.
Compare(r) ==
  ReaderStep(r, "compare", IF \E m \in DOMAIN rd[r].rows : src[m].upd > rd[r].rows[m].upd
                           THEN Waiting ELSE [rd[r] EXCEPT !.pc = "answer", !.seen = src])

Answer(r) == ReaderStep(r, "answer", Waiting)
-----------------------------------------------------------------------------
Refresh == (\E t \in Clock : Begin(t)) \/ Decide \/ ReadMaterials \/ ReadPaper \/ Commit

TNext ==
  \/ Tick \/ Invalidate \/ Refresh \/ Abort
  \/ \E w \in Writer : CommitSource(w) \/ \E x \in Material \cup {ThePaper} : Stamp(w, x)
  \/ \E r \in Reader : ReadState(r) \/ SeeChanges(r) \/ ReadRows(r) \/ Compare(r) \/ Answer(r)

TSpec == TInit /\ [][TNext]_tvars
-----------------------------------------------------------------------------
(* Nothing falls behind the watermark: whatever the projection does not    *)
(* show yet, the next refresh will look at, though a source is committed   *)
(* after a refresh read past its updated_at, the refreshing host's clock   *)
(* is off, or the paper changed in the middle of a refresh.                *)
CatchesUp ==
  state.ready => \A m \in Material : proj[m] # Want(m) =>
                   src[m].upd >= state.watermark \/ PapersChanged

(* An invalidation is not overwritten by a refresh that began before it:   *)
(* the projection is ready again only after a full build that saw it.      *)
InvalidationKept == state.ready => built = asked

(* A projection that calls itself ready has missed nothing for good:       *)
(* neither a late commit nor an invalidation.                              *)
NothingMissed == CatchesUp /\ InvalidationKept

(* A stale rebuildable point does not outrun its source: every point of an *)
(* answer is that of the material's version when the two were compared.    *)
ServedIsLive ==
  \A r \in Reader : rd[r].pc = "answer" => \A m \in DOMAIN rd[r].rows :
    rd[r].rows[m].rec = rd[r].seen[m].ver
=============================================================================
