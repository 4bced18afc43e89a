--------------------------- MODULE CircuitBreaker ---------------------------
(***************************************************************************)
(* The timeout and circuit-breaker boundary around blocking provider calls:*)
(* run_blocking of api/services/provider_resilience.py, awaited by many    *)
(* requests of one event loop.  Everything between two awaits is one step. *)
(*                                                                         *)
(* One provider is modelled: circuits of different providers share nothing.*)
(* opened is the time opened_until still lies ahead, so the clock needs no *)
(* bound; failures is only compared with the threshold and stops there.    *)
(***************************************************************************)
EXTENDS Integers, FiniteSets

CONSTANTS
  Caller,
  Threshold,     \* failure_threshold
  Cooldown,      \* cooldown_seconds, in ticks
  MaxAttempts,   \* max_attempts as the caller gives it
  MaxResets      \* bound on reset(), for model checking

ASSUME BreakerAssumption ==
  /\ IsFiniteSet(Caller)
  /\ {Threshold, Cooldown, MaxResets} \subseteq Nat /\ MaxAttempts \in Int

VARIABLES
  circuit,   \* the circuit objects, one for every reset() so far
  current,   \* the one _circuits holds
  call       \* each request: its await, its attempts, its running operations

bvars == <<circuit, current, call>>

\* hits is history: the operations started since this circuit opened.
ClosedCircuit == [failures |-> 0, opened |-> 0, hits |-> 0]
NoCall == [pc |-> "idle", left |-> 0, circ |-> 0, ops |-> 0]

BInit ==
  /\ circuit = [g \in 0..MaxResets |-> ClosedCircuit]
  /\ current = 0
  /\ call = [c \in Caller |-> NoCall]

AtLeast(n, low) == IF n < low THEN low ELSE n
AtMost(n, high) == IF n > high THEN high ELSE n

\* attempts = max(1, min(max_attempts, 3))
Attempts == AtLeast(AtMost(MaxAttempts, 3), 1)
FailureLimit == AtLeast(Threshold, 1)

IsOpen(g) == circuit[g].opened > 0
Trying(c) == call[c].pc = "trying"
-----------------------------------------------------------------------------
(* The circuit. *)

\* _record_failure.
Failed(k) ==
  LET n == AtMost(k.failures + 1, FailureLimit) IN
  [k EXCEPT !.failures = n, !.opened = IF n >= FailureLimit THEN Cooldown ELSE @]

\* Faulty: forgets that the circuit was open.
HealedOnly(k) == [k EXCEPT !.failures = 0]

Healed(k) == ClosedCircuit

\* Another operation starts while the circuit may be open.
Struck(k) == IF k.opened > 0 THEN [k EXCEPT !.hits = @ + 1] ELSE [k EXCEPT !.hits = 0]
-----------------------------------------------------------------------------
(* run_blocking. *)

\* A request arrives: refused at once when the circuit is open.
BeginCall(c) ==
  /\ call[c] = NoCall
  /\ IF IsOpen(current)
     THEN UNCHANGED <<circuit, call>>
     ELSE /\ call' = [call EXCEPT ![c] =
                        [pc |-> "trying", left |-> Attempts, circ |-> current, ops |-> 1]]
          /\ circuit' = [circuit EXCEPT ![current] = Struck(@)]
  /\ UNCHANGED current

\* The request is over; n of its operations run on in their threads.
Ended(c, n) == call' = [call EXCEPT ![c] = [NoCall EXCEPT !.ops = n]]

\* A success clears the circuit this request began with.
Succeed(c) ==
  /\ Trying(c)
  /\ Ended(c, call[c].ops - 1)
  /\ circuit' = [circuit EXCEPT ![call[c].circ] = Healed(@)]
  /\ UNCHANGED current

\* A local refusal says nothing of the provider's health.
NotRequested(c) ==
  /\ Trying(c)
  /\ Ended(c, call[c].ops - 1)
  /\ UNCHANGED <<circuit, current>>

\* The operation raises: it is tried again, whatever the circuit has become,
\* and only the last failure counts.
Raise(c) ==
  LET g == call[c].circ IN
  /\ Trying(c)
  /\ IF call[c].left > 1
     THEN /\ call' = [call EXCEPT ![c].left = @ - 1]
          /\ circuit' = [circuit EXCEPT ![g] = Struck(@)]
     ELSE /\ Ended(c, call[c].ops - 1)
          /\ circuit' = [circuit EXCEPT ![g] = Failed(@)]
  /\ UNCHANGED current

\* wait_for gives up; the thread cannot be stopped and runs on.
TimeOut(c) ==
  /\ Trying(c)
  /\ Ended(c, call[c].ops)
  /\ circuit' = [circuit EXCEPT ![call[c].circ] = Failed(@)]
  /\ UNCHANGED current

\* The operation itself raises TimeoutError: the same clause, no thread left.
RaiseTimeout(c) ==
  /\ Trying(c)
  /\ Ended(c, call[c].ops - 1)
  /\ circuit' = [circuit EXCEPT ![call[c].circ] = Failed(@)]
  /\ UNCHANGED current

\* The client goes away: CancelledError passes through every clause.
Cancelled(c) ==
  /\ Trying(c)
  /\ Ended(c, call[c].ops)
  /\ UNCHANGED <<circuit, current>>

\* An abandoned operation ends in its thread, unheard.
ThreadEnds(c) ==
  /\ ~Trying(c) /\ call[c].ops > 0
  /\ Ended(c, call[c].ops - 1)
  /\ UNCHANGED <<circuit, current>>

CircuitTick ==
  /\ \E g \in DOMAIN circuit : IsOpen(g)
  /\ circuit' = [g \in DOMAIN circuit |->
                   IF circuit[g].opened > 1 THEN [circuit[g] EXCEPT !.opened = @ - 1]
                   ELSE [circuit[g] EXCEPT !.opened = 0, !.hits = 0]]
  /\ UNCHANGED <<current, call>>

\* reset: the next request makes a new circuit, requests at work keep theirs.
Reset ==
  /\ current < MaxResets
  /\ current' = current + 1
  /\ UNCHANGED <<circuit, call>>
-----------------------------------------------------------------------------
BNext ==
  \/ \E c \in Caller : BeginCall(c) \/ Succeed(c) \/ NotRequested(c) \/ Raise(c) \/ TimeOut(c)
                       \/ RaiseTimeout(c) \/ Cancelled(c) \/ ThreadEnds(c)
  \/ CircuitTick \/ Reset

BSpec == BInit /\ [][BNext]_bvars
-----------------------------------------------------------------------------
(* Properties. *)

\* An open circuit has its reason: since the last success, late ones of
\* requests that began before it opened included, the provider failed often
\* enough.  A request never ends a circuit half cleared.
OpenHasCause ==
  \A g \in DOMAIN circuit : IsOpen(g) => circuit[g].failures >= FailureLimit

\* What an open circuit lets through: no more than the retries of requests
\* that were already at work when it opened.
BoundedPressure ==
  \A g \in DOMAIN circuit : circuit[g].hits <= Cardinality(Caller) * (Attempts - 1)

\* A request never has two operations running, though timed-out threads live
\* on: a timeout is not duplicated.
OneOperation == \A c \in Caller : call[c].ops \in 0..1

\* What the breaker promises while requests overlap it: it opens for a reason,
\* lets no more through than was at work, and does nothing twice.
BreakerConsistent == OpenHasCause /\ BoundedPressure /\ OneOperation

=============================================================================
