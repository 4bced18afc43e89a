--------------------------- MODULE MCComputeStore ---------------------------
(* ComputeStore on small instances. *)
EXTENDS ComputeStore, TLC

CONSTANTS n1, n2, a1, a2, a3, r1, r2, r3, o1, o2, c1, c2

OneKind == {"dummy"}
OneRuntime == {"v1"}
DummyGrant == [n \in Node |-> [runtime |-> "v1", caps |-> {"dummy"}]]

SpecOf(kind, cores, wall, max, deadline, outputs) ==
  [kind |-> kind, runtime |-> "v1", cores |-> cores, wall |-> wall,
   maxAttempts |-> max, deadline |-> deadline, outputs |-> outputs, input |-> c1,
   limit |-> [m \in Name |-> 1], budget |-> Cardinality(outputs)]

Sizes == [c \in Content |-> 1]

\* One job tried twice, with time for a grace period between the attempts.
RetrySpecs == {SpecOf("dummy", 1, 3, 2, 5, {o1})}

\* Short jobs that compete for one node and for the campaign budget.
CampaignSpecs == {SpecOf("dummy", cores, 1, 1, 3, {o1}) : cores \in 1..2}

\* A job that can expire, wait out its grace and be tried again before its deadline.
SettleSpecs == {SpecOf("dummy", 1, 1, 2, 3, {o1})}

TwinSymmetry == Permutations(Attempt) \cup Permutations(Node)
RequestSymmetry == Permutations(Attempt) \cup Permutations(Request)
=============================================================================
