--------------------------- MODULE MCComputeWorker ---------------------------
(* ComputeWorker on small instances. *)
EXTENDS ComputeWorker, TLC

CONSTANTS n1, n2, a1, a2, r1, r2, o1, c1, c2, c3

OneKind == {"dummy"}
OneRuntime == {"v1"}
DummyGrant == [n \in Node |-> [runtime |-> "v1", caps |-> {"dummy"}]]

SpecOf(limit) ==
  [kind |-> "dummy", runtime |-> "v1", cores |-> 1, wall |-> 2, maxAttempts |-> 2,
   deadline |-> 3, outputs |-> {o1}, input |-> c1,
   limit |-> [m \in Name |-> limit], budget |-> limit]

\* One job, tried at most twice, whose single output has one of two contents.
WorkerSpecs == {SpecOf(1)}

\* Its rule allows every content, or not the larger one.
LimitedSpecs == {SpecOf(1), SpecOf(2)}

Sizes == [c \in Content |-> IF c = c3 THEN 2 ELSE 1]

AttemptSymmetry == Permutations(Attempt) \cup Permutations(Request)
=============================================================================
