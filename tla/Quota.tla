------------------------------- MODULE Quota -------------------------------
(***************************************************************************)
(* The daily quotas of guests and users: consume_guest and consume_user of *)
(* api/services/rate_limit.py, and what require_identity of                *)
(* api/routers/deps.py makes of the answer.  A request names its key from  *)
(* the clock of its API process and is counted when its pipeline reaches   *)
(* Redis, possibly on another day; the two commands of the pipeline are    *)
(* one step (MULTI/EXEC).                                                  *)
(*                                                                         *)
(* Time is counted in ticks, Day of them to a UTC day.  A request is the   *)
(* caller and the day in its key.                                          *)
(***************************************************************************)
EXTENDS Naturals

CONSTANTS
  Who,           \* users and guest addresses
  Limit,         \* Limit[w]: registered_daily_limit or guest_daily_limit
  Day,           \* ticks per day: 86400 seconds
  MaxRequests,   \* bound on the requests of a caller, for model checking
  LastTick       \* bound on the clock, for model checking

ASSUME QuotaAssumption ==
  Day \in Nat \ {0} /\ LastTick \in Nat /\ MaxRequests \in Nat /\ Limit \in [Who -> Nat]

VARIABLES
  clock,
  counter,    \* counter[w][d]: the Redis key of w and day d, Absent or not
  flight,     \* flight[w][d]: requests of w under the key of d on their way to Redis
  sent,       \* sent[w]: how many requests w made
  served      \* history: served[w][d] requests admitted on day d itself

qvars == <<clock, counter, flight, sent, served>>

Today == clock \div Day
Days == 0..(LastTick \div Day)
Absent == [used |-> 0, expires |-> 0]

QInit ==
  /\ clock = 0
  /\ counter = [w \in Who |-> [d \in Days |-> Absent]]
  /\ flight = [w \in Who |-> [d \in Days |-> 0]]
  /\ sent = [w \in Who |-> 0]
  /\ served = flight
-----------------------------------------------------------------------------
\* Faulty: a key lives one tick less than a day.
TtlShort == Day - 1

\* expire(key, 86400, nx=True)
Ttl == Day

Alive(c) == c.expires > clock

\* INCR of the key, and the expiry it gets only when it has none.
Incremented(w, d) ==
  IF Alive(counter[w][d]) THEN [counter[w][d] EXCEPT !.used = @ + 1]
                          ELSE [used |-> 1, expires |-> clock + Ttl]

\* The request arrives: its key is that of today.
Arrive(w) ==
  /\ sent[w] < MaxRequests
  /\ sent' = [sent EXCEPT ![w] = @ + 1]
  /\ flight' = [flight EXCEPT ![w][Today] = @ + 1]
  /\ UNCHANGED <<clock, counter, served>>

\* The pipeline is executed; the request is admitted when what remains is
\* not negative, unless its answer is lost.
Consume(w, d, answered) ==
  /\ flight[w][d] > 0
  /\ flight' = [flight EXCEPT ![w][d] = @ - 1]
  /\ counter' = [counter EXCEPT ![w][d] = Incremented(w, d)]
  /\ LET admitted == answered /\ Limit[w] >= counter'[w][d].used /\ d = Today
     IN served' = [served EXCEPT ![w][d] = @ + (IF admitted THEN 1 ELSE 0)]
  /\ UNCHANGED <<clock, sent>>

\* Redis cannot be reached: the request ends in an error.
Unreachable(w, d) ==
  /\ flight[w][d] > 0
  /\ flight' = [flight EXCEPT ![w][d] = @ - 1]
  /\ UNCHANGED <<clock, counter, sent, served>>

Elapse == clock < LastTick /\ clock' = clock + 1 /\ UNCHANGED <<counter, flight, sent, served>>

QNext ==
  \/ \E w \in Who : Arrive(w)
  \/ \E w \in Who, d \in Days, answered \in BOOLEAN : Consume(w, d, answered)
  \/ \E w \in Who, d \in Days : Unreachable(w, d)
  \/ Elapse

QSpec == QInit /\ [][QNext]_qvars
-----------------------------------------------------------------------------
(* On one UTC day a caller is served at most Limit requests, however many  *)
(* processes count them at once and whenever in the day its key was born:  *)
(* a key does not expire before its day is over.  A request that was on    *)
(* its way at midnight counts for the day in its key and is left out.      *)
DailyCap == \A w \in Who, d \in Days : served[w][d] <= Limit[w]
=============================================================================
