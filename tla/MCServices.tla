----------------------------- MODULE MCServices -----------------------------
(***************************************************************************)
(* Eight services on small instances.  They share no state and call one    *)
(* another nowhere in what is modelled, so every behaviour of all of them  *)
(* together is, seen by one of them, a behaviour of that one: it is enough *)
(* to run each of them while the others rest.  part says which one runs.   *)
(***************************************************************************)
EXTENDS ReleaseCache, CircuitBreaker, Quota, CatalogueCache, TimelineProjection,
        IndexGenerations, BlobStore, NativeRun, TLC

CONSTANTS
  Checked,   \* the services of this instance
  t1, t2, t3, f1, f2, u1, g1, m1, w1, w2

VARIABLE part

\* Version 1 of a release file is the one that does not verify.
GoodVersions == {0, 2}
Sizes == [v \in 0..MaxWrites |-> IF v = 0 THEN 2 ELSE 3]

\* A user and a guest address.
UserAndGuest == {u1, g1}
DailyLimits == [w \in UserAndGuest |-> IF w = u1 THEN 2 ELSE 1]

\* Sources gain and lose their points as they change.
SomeDated == {<<v, p>> \in (1..9) \X (1..9) : v % 2 = 0 \/ p % 2 = 0}

\* All variants are pages of one list.
OneList == [v \in Variant |-> "list"]

Native == {"native", "native_lease"}

allvars == <<part, cvars, bvars, qvars, pvars, tvars, gvars, svars, nvars>>

AllInit ==
  /\ part \in Checked
  /\ part # "pages" => route = CHOOSE r \in Route : TRUE   \* one is enough for the others
  /\ CInit /\ BInit /\ QInit /\ PInit /\ TInit /\ GInit /\ SInit /\ NInit

AllNext ==
  /\ IF part = "releases" THEN CNext ELSE UNCHANGED cvars
  /\ IF part = "breaker" THEN BNext ELSE UNCHANGED bvars
  /\ IF part = "quota" THEN QNext ELSE UNCHANGED qvars
  /\ IF part = "pages" THEN PNext ELSE UNCHANGED pvars
  /\ IF part = "timeline" THEN TNext ELSE UNCHANGED tvars
  /\ IF part = "generations" THEN GNext ELSE UNCHANGED gvars
  /\ IF part = "blobs" THEN SNext ELSE UNCHANGED svars
  /\ IF part \in Native THEN NNext ELSE UNCHANGED nvars
  /\ UNCHANGED part

AllSpec == AllInit /\ [][AllNext]_allvars

\* What the object store and the native worker are assumed to do, while they run.
AllFairSpec ==
  /\ AllSpec
  \* A put runs on, and a client whose content has no row sends it again.
  /\ WF_svars(SyncFile \/ Rename \/ SyncDirectory \/ Insert)
  /\ \A b \in Blob : WF_svars(part = "blobs" /\ (OpenFile(b) \/ Adopt(b)))
  \* Processes run on and a worker that stopped is started again; nothing is
  \* assumed of heartbeats and of the solver.
  /\ WF_nvars(part \in Native /\ pc # "watch" /\ WorkerStep) /\ WF_nvars(SeeGuardianEnd)
  /\ \A a \in Attempt : WF_nvars(GuardianStep(a))
  \* The wall time of a job ends, but in native_lease nothing relies on it.
  /\ \A a \in Attempt : WF_nvars(part = "native" /\ WallEnds(a))

(* UploadLands, of the behaviours in which the object store runs: every    *)
(* content that fits is stored in the end, whatever interrupts put_blob.   *)
UploadsLand == part = "blobs" => UploadLands

(* ClaimCloses, of a native worker whose jobs have a wall time: it closes  *)
(* every claim, but for the two cases ClaimCloses excepts.                 *)
ClaimsClose == part = "native" => ClaimCloses
=============================================================================
