-------------------------- MODULE MCBackgroundJobs --------------------------
(* Instances of BackgroundJobs for TLC. *)
EXTENDS BackgroundJobs

CONSTANTS s1, s2, h1, h2

Sessions == {s1, s2}
TwoHashes == {h1, h2}
=============================================================================
