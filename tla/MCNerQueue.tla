----------------------------- MODULE MCNerQueue -----------------------------
(* NerQueue on small instances. *)
EXTENDS NerQueue, TLC

CONSTANTS k1, k2, k3, w1, w2, i1

\* Job 1 is open to every worker; the others are audits, of one identity.
MixedFlows == [j \in Job |-> IF j = 1 THEN "open" ELSE "audit"]
AllFlows == {"open", "audit"}
AuditOnly == {"audit"}
OneIdentity == [j \in Job |-> i1]

\* Two outcomes: one that settles, and the one that may be retried.
TwoOutcomes == {"succeeded", "failed"}
ShortDelay == [n \in 1..5 |-> IF n < 2 THEN 1 ELSE 2]

QSymmetry == Permutations(Attempt) \cup Permutations(Worker)
=============================================================================
