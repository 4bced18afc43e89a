----------------------------- MODULE MCNerReader -----------------------------
(* NerReader on small instances. *)
EXTENDS NerReader

CONSTANTS k1, k2, w1, w2, w3, i1

ReaderOnly == [j \in Job |-> "reader"]
ReaderFlows == {"reader", "audit"}
OneIdentity == [j \in Job |-> i1]
AllOutcomes == {"succeeded", "quarantined", "blocked", "failed"}
ShortDelay == [n \in 1..5 |-> 1]
=============================================================================
