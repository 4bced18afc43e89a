--------------------------- MODULE ExclusiveLease ---------------------------
(***************************************************************************)
(* What the durable queues of this repository promise to the people who    *)
(* submit jobs, whatever expires, retries or arrives late: a job has at    *)
(* most one holder, a holder is a token that was never used before, and    *)
(* at most one result is accepted, from the token that holds the job.      *)
(*                                                                         *)
(* One transaction may end the leases of many jobs before it does          *)
(* anything else, hence the set of released jobs in every action.          *)
(***************************************************************************)

CONSTANTS Job, Token, None

VARIABLES
  holder,   \* the token that holds each job, or None
  result,   \* the token whose result was accepted, or None
  issued    \* every token ever handed out

lvars == <<holder, result, issued>>

Init ==
  /\ holder = [j \in Job |-> None]
  /\ result = [j \in Job |-> None]
  /\ issued = {}

Released(S) == [j \in Job |-> IF j \in S THEN None ELSE holder[j]]

\* Leases end: expiry, a reported failure, a cancellation.
Release(S) ==
  /\ holder' = Released(S)
  /\ UNCHANGED <<result, issued>>

\* A job nobody holds, and that has no result yet, gets a fresh token.
Acquire(S, j, k) ==
  /\ Released(S)[j] = None /\ result[j] = None
  /\ k \notin issued
  /\ holder' = [Released(S) EXCEPT ![j] = k]
  /\ issued' = issued \cup {k}
  /\ UNCHANGED result

\* The holder of a job delivers its result.
Accept(S, j) ==
  /\ j \notin S /\ holder[j] # None /\ result[j] = None
  /\ result' = [result EXCEPT ![j] = holder[j]]
  /\ holder' = Released(S \cup {j})
  /\ UNCHANGED issued

Next ==
  \E S \in SUBSET Job :
    \/ Release(S)
    \/ \E j \in Job, k \in Token : Acquire(S, j, k)
    \/ \E j \in Job : Accept(S, j)

Spec == Init /\ [][Next]_lvars
=============================================================================
