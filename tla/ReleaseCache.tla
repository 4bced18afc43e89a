---------------------------- MODULE ReleaseCache ----------------------------
(***************************************************************************)
(* The process-local verification cache of immutable release files:        *)
(* read_verified_file of api/services/priority_release_cache.py, called by *)
(* any number of threads.  What runs under the condition variable is one   *)
(* step; a validator, which runs outside it, is another.                   *)
(*                                                                         *)
(* Data: a file is its version (the signature changes with every write);   *)
(* a key is a path and a signature, the identity of the caller being part  *)
(* of the path; a verified value is the key it was verified for.  Time is  *)
(* two events: a waiter's deadline passes, a remembered failure ages out.  *)
(***************************************************************************)
EXTENDS Naturals, FiniteSets, Sequences, SequencesExt

CONSTANTS
  Thread, Path,
  Good,          \* the versions that pass the validator
  SizeOf,        \* retained size of the value of each version
  FailureSize,   \* retained size of a remembered failure
  MaxEntries, MaxBytes, MaxInflight, MaxWaiters,
  MaxWrites     \* bound on the writes of a file, for model checking

ASSUME CacheAssumption ==
  /\ {FailureSize, MaxEntries, MaxBytes, MaxInflight, MaxWaiters} \subseteq Nat \ {0}
  /\ MaxWrites \in Nat /\ SizeOf \in [0..MaxWrites -> Nat]

VARIABLES
  file,      \* the signature each path has now
  entries,   \* _entries, from the least to the most recently used
  inflight, waiters, bytes,
  th         \* each thread's call

cvars == <<file, entries, inflight, waiters, bytes, th>>

Key == Path \X (0..MaxWrites)
Idle == [pc |-> "idle", sig |-> 0, key |-> <<>>, value |-> <<>>, late |-> FALSE, told |-> FALSE]

CInit ==
  /\ file = [p \in Path |-> 0]
  /\ entries = <<>> /\ inflight = {} /\ waiters = 0 /\ bytes = 0
  /\ th = [t \in Thread |-> Idle]

At(t, label) == th[t].pc = label
-----------------------------------------------------------------------------
(* The table of entries.  Keys are distinct, so it holds an entry once, and *)
(* sizes are added up over the set of entries.                             *)

Of(E, k) == {e \in ToSet(E) : e.key = k}
EntryOf(k) == Of(entries, k)
Without(E, k) == RemoveFirstMatch(E, LAMBDA e : e.key = k)
SizeSum(S) == LET size == [e \in S |-> e.size] IN MapThenSumSet(LAMBDA e : size[e], S)

\* How many of the least recently used entries make room for one of this size.
Evicted(E, b, size) ==
  LET fits(n) == Len(E) - n < MaxEntries /\ b - SizeSum(ToSet(SubSeq(E, 1, n))) + size <= MaxBytes
  IN CHOOSE n \in 0..Len(E) : (fits(n) \/ n = Len(E)) /\ \A i \in 0..(n - 1) : ~fits(i)

\* _store: replace, evict from the least recently used end, append; the bytes
\* are counted along.
Stored(E, b, e) ==
  LET rest == Without(E, e.key)
      left == b - SizeSum(Of(E, e.key))
      n == Evicted(rest, left, e.size) IN
  IF e.size > MaxBytes THEN [entries |-> E, bytes |-> b]
  ELSE [entries |-> Append(SubSeq(rest, n + 1, Len(rest)), e),
        bytes |-> left - SizeSum(ToSet(SubSeq(rest, 1, n))) + e.size]
-----------------------------------------------------------------------------
(* read_verified_file. *)

KeyOf(p, sig) == <<p, sig>>

Start(t, p) ==
  /\ At(t, "idle")
  /\ th' = [th EXCEPT ![t] = [Idle EXCEPT !.pc = "look", !.sig = file[p],
                                      !.key = KeyOf(p, file[p])]]
  /\ UNCHANGED <<file, entries, inflight, waiters, bytes>>

\* Threads with the cache lock: just entering, or woken by notify or deadline.
HasLock(t) == At(t, "look") \/ (At(t, "wait") /\ (th[t].told \/ th[t].late))
Leaving(t) == IF At(t, "wait") THEN waiters - 1 ELSE waiters

\* The entry is there: use it, or raise if it is a remembered failure.
Hit(t) ==
  LET k == th[t].key IN
  /\ HasLock(t)
  /\ \E e \in EntryOf(k) :
       /\ ~e.aged
       /\ entries' = Append(Without(entries, k), e)
       /\ th' = [th EXCEPT ![t] = IF e.failed THEN Idle
                                  ELSE [@ EXCEPT !.pc = "recheck", !.value = e.value]]
  /\ waiters' = Leaving(t)
  /\ UNCHANGED <<file, inflight, bytes>>

\* What a miss leaves: a failure whose second is over is removed.
Missed(k) == EntryOf(k) = {} \/ \E e \in EntryOf(k) : e.aged
Forget(k) ==
  /\ entries' = Without(entries, k)
  /\ bytes' = bytes - SizeSum(EntryOf(k))

MayVerify(k) == k \notin inflight /\ Cardinality(inflight) < MaxInflight

Lead(t) ==
  LET k == th[t].key IN
  /\ HasLock(t) /\ Missed(k) /\ MayVerify(k)
  /\ inflight' = inflight \cup {k}
  /\ th' = [th EXCEPT ![t].pc = "verify", ![t].told = FALSE, ![t].late = FALSE]
  /\ waiters' = Leaving(t)
  /\ Forget(k)
  /\ UNCHANGED file

\* A thread that is woken in vain waits again, unless its deadline has passed.
Wait(t) ==
  LET k == th[t].key IN
  /\ HasLock(t) /\ Missed(k) /\ ~MayVerify(k)
  /\ Forget(k)
  /\ IF th[t].late \/ Leaving(t) >= MaxWaiters
     THEN th' = [th EXCEPT ![t] = Idle] /\ waiters' = Leaving(t)
     ELSE /\ th' = [th EXCEPT ![t].pc = "wait", ![t].told = FALSE]
          /\ waiters' = Leaving(t) + 1
  /\ UNCHANGED <<file, inflight>>

\* A hit is used only if the file is still the one that was looked up.
Recheck(t) ==
  /\ At(t, "recheck")
  /\ th' = [th EXCEPT ![t] = IF file[@.key[1]] = @.sig THEN [@ EXCEPT !.pc = "served"] ELSE Idle]
  /\ UNCHANGED <<file, entries, inflight, waiters, bytes>>

\* The validator, with the signature checked before, during and after it.
Validate(t) ==
  LET k == th[t].key IN
  /\ At(t, "verify")
  /\ th' = [th EXCEPT ![t] =
       IF file[k[1]] = @.sig /\ @.sig \in Good
       THEN [@ EXCEPT !.pc = "publish", !.value = <<k[1], file[k[1]]>>]
       ELSE [@ EXCEPT !.pc = "fail"]]
  /\ UNCHANGED <<file, entries, inflight, waiters, bytes>>

\* Faulty: a failure wakes nobody.
NotifyNobody(T) == T

\* notify_all.
Notify(T) == [t \in Thread |-> IF T[t].pc = "wait" THEN [T[t] EXCEPT !.told = TRUE] ELSE T[t]]

Publish(t) ==
  LET k == th[t].key
      new == Stored(entries, bytes,
               [key |-> k, value |-> th[t].value, failed |-> FALSE, aged |-> FALSE,
                size |-> SizeOf[th[t].sig]]) IN
  /\ At(t, "publish")
  /\ entries' = new.entries /\ bytes' = new.bytes
  /\ inflight' = inflight \ {k}
  /\ th' = Notify([th EXCEPT ![t].pc = "served"])
  /\ UNCHANGED <<file, waiters>>

\* The except clause: the failure is remembered for a second, then raised.
Remember(t) ==
  LET k == th[t].key
      new == Stored(entries, bytes,
               [key |-> k, value |-> <<>>, failed |-> TRUE, aged |-> FALSE, size |-> FailureSize]) IN
  /\ At(t, "fail")
  /\ entries' = new.entries /\ bytes' = new.bytes
  /\ inflight' = inflight \ {k}
  /\ th' = Notify([th EXCEPT ![t] = Idle])
  /\ UNCHANGED <<file, waiters>>

\* The caller has its value.
EndCall(t) ==
  /\ At(t, "served")
  /\ th' = [th EXCEPT ![t] = Idle]
  /\ UNCHANGED <<file, entries, inflight, waiters, bytes>>

Deadline(t) ==
  /\ At(t, "wait") /\ ~th[t].late
  /\ th' = [th EXCEPT ![t].late = TRUE]
  /\ UNCHANGED <<file, entries, inflight, waiters, bytes>>

\* A remembered failure is a second old.
Age(k) ==
  /\ \E e \in EntryOf(k) : e.failed /\ ~e.aged
  /\ entries' = [i \in 1..Len(entries) |->
                   IF entries[i].key = k THEN [entries[i] EXCEPT !.aged = TRUE] ELSE entries[i]]
  /\ UNCHANGED <<file, inflight, waiters, bytes, th>>

\* A release file is replaced: another signature, never an old one.
Replace(p) ==
  /\ file[p] < MaxWrites
  /\ file' = [file EXCEPT ![p] = @ + 1]
  /\ UNCHANGED <<entries, inflight, waiters, bytes, th>>

\* clear_release_cache refuses while anybody is at work.
Clear ==
  /\ inflight = {} /\ waiters = 0
  /\ entries' = <<>> /\ bytes' = 0
  /\ UNCHANGED <<file, inflight, waiters, th>>
-----------------------------------------------------------------------------
Step(t) == Hit(t) \/ Lead(t) \/ Wait(t) \/ Recheck(t) \/ Validate(t)
           \/ Publish(t) \/ Remember(t) \/ EndCall(t)

CNext ==
  \/ \E t \in Thread : Step(t) \/ Deadline(t) \/ \E p \in Path : Start(t, p)
  \/ \E k \in Key : Age(k)
  \/ \E p \in Path : Replace(p)
  \/ Clear

CSpec == CInit /\ [][CNext]_cvars
-----------------------------------------------------------------------------
(* Properties. *)

\* The accounting of the cache: its limits hold, no key is stored twice, and
\* bytes and waiters are what the table and the threads say they are.
Accounted ==
  /\ Len(entries) <= MaxEntries /\ bytes <= MaxBytes
  /\ bytes = SizeSum(ToSet(entries))
  /\ \A i, j \in DOMAIN entries : entries[i].key = entries[j].key => i = j
  /\ waiters = Cardinality({t \in Thread : At(t, "wait")}) /\ waiters <= MaxWaiters

\* Single flight: a key is being verified by exactly one thread, and no more
\* than MaxInflight validators run.
SingleFlight ==
  LET leads(t) == th[t].pc \in {"verify", "publish", "fail"} IN
  /\ \A t, u \in Thread : leads(t) /\ leads(u) /\ th[t].key = th[u].key => t = u
  /\ inflight = {th[t].key : t \in {u \in Thread : leads(u)}}
  /\ Cardinality(inflight) <= MaxInflight

\* Nobody sleeps through a wake-up: a thread that waits and was not told to
\* look again has a reason to wait, a verification of its key or a full house.
NoLostWakeup ==
  \A t \in Thread : At(t, "wait") /\ ~th[t].told => ~MayVerify(th[t].key)

\* A caller gets the verified value of the very version it found on disk,
\* though files are replaced and entries evicted and stored meanwhile.
ServesWhatItFound ==
  \A t \in Thread : At(t, "served") =>
    th[t].value = <<th[t].key[1], th[t].sig>> /\ th[t].sig \in Good

\* The cache under all its threads: exact books, one verification for each file
\* at a time, no forgotten waiter, and no answer but for the file that was found.
CacheConsistent == Accounted /\ SingleFlight /\ NoLostWakeup /\ ServesWhatItFound

=============================================================================
