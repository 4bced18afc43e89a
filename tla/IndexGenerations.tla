-------------------------- MODULE IndexGenerations --------------------------
(***************************************************************************)
(* Immutable index generations and the compare-and-swap of the pointer     *)
(* that retrieval reads: api/services/index_generations.py with the        *)
(* triggers of api/models/index_generations_v1.py, up to the takeover by   *)
(* the v2 backend (api/models/retrieval_activation_v2.py); and the corpora *)
(* of api/services/index_corpus.py and api/models/index_corpus_v1.py, the  *)
(* generations that are planned at once and staged partition by partition. *)
(* All of it runs under one database lock, so every call is a step; what   *)
(* an operator read before the call may be out of date.                    *)
(*                                                                         *)
(* Data: a paper is its version; a generation is the version of every      *)
(* paper it is staged from, and a partition of a corpus is one paper; an   *)
(* activation request carries an idempotency key and may be delivered any  *)
(* number of times.                                                        *)
(***************************************************************************)
EXTENDS Naturals, Sequences, SequencesExt

CONSTANTS
  Paper, Generation, IdemKey,
  Corpus,                 \* the generations registered as corpora
  MaxVersion, MaxEvents   \* bounds, for model checking

ASSUME GenerationsAssumption == Corpus \subseteq Generation /\ {MaxVersion, MaxEvents} \subseteq Nat

VARIABLES
  source,    \* the current version of each paper
  held,      \* the papers with a lifecycle event or a restriction
  members,   \* what each generation is staged from
  sealed,    \* the papers of each generation that are staged
  valid,     \* its last validation: none, fresh, or stale
  request,   \* the activation each key stands for
  events,    \* index_activation_events; the last one is the pointer
  taken      \* the v2 backend: nothing, a reading of the pointer, authority

gvars == <<source, held, members, sealed, valid, request, events, taken>>

Unstaged == <<>>
Unasked == [gen |-> "none", action |-> "none", expected |-> 0]

GInit ==
  /\ source = [p \in Paper |-> 0]
  /\ held = {}
  /\ members = [g \in Generation |-> Unstaged]
  /\ sealed = [g \in Generation |-> {}]
  /\ valid = [g \in Generation |-> "none"]
  /\ request = [k \in IdemKey |-> Unasked]
  /\ events = <<>>
  /\ taken = [by |-> "v1", seen |-> 0]
-----------------------------------------------------------------------------
(* The sources change under the index. *)

Revise(p) ==
  /\ source[p] < MaxVersion
  /\ source' = [source EXCEPT ![p] = @ + 1]
  /\ UNCHANGED <<held, members, sealed, valid, request, events, taken>>

HoldPaper(p) ==
  /\ p \notin held
  /\ held' = held \cup {p}
  /\ UNCHANGED <<source, members, sealed, valid, request, events, taken>>
-----------------------------------------------------------------------------
(* Staging, validation, activation. *)

\* stage_generation: a generation is staged once, from the current sources.
StageGeneration(g, P) ==
  /\ g \notin Corpus /\ members[g] = Unstaged /\ P # {}
  /\ members' = [members EXCEPT ![g] = [p \in P |-> source[p]]]
  /\ sealed' = [sealed EXCEPT ![g] = P]
  /\ UNCHANGED <<source, held, valid, request, events, taken>>

\* create_corpus: the plan of all partitions, of the versions that were
\* retained; it is not compared with the sources.
CreateCorpus(g, plan) ==
  /\ g \in Corpus /\ members[g] = Unstaged
  /\ \A p \in DOMAIN plan : plan[p] <= source[p]
  /\ members' = [members EXCEPT ![g] = plan]
  /\ UNCHANGED <<source, held, sealed, valid, request, events, taken>>

\* stage_partition: only as planned, and only from the current source.
StagePartition(g, p) ==
  /\ g \in Corpus /\ p \in DOMAIN members[g] \ sealed[g]
  /\ members[g][p] = source[p]
  /\ sealed' = [sealed EXCEPT ![g] = @ \cup {p}]
  /\ UNCHANGED <<source, held, members, valid, request, events, taken>>

\* Every planned partition is sealed: the corpus root is its manifest.
Whole(g) == members[g] # Unstaged /\ sealed[g] = DOMAIN members[g]

\* record_validation, validate_corpus with matching observations; others have
\* no effect here.
RecordValidation(g) ==
  /\ Whole(g)
  /\ valid' = [valid EXCEPT ![g] = "fresh"]
  /\ UNCHANGED <<source, held, members, sealed, request, events, taken>>

\* A validation is fifteen minutes old.
GrowStale(g) ==
  /\ valid[g] = "fresh"
  /\ valid' = [valid EXCEPT ![g] = "stale"]
  /\ UNCHANGED <<source, held, members, sealed, request, events, taken>>

\* An operator decides on the pointer as it is now.
Ask(k, g, action) ==
  /\ members[g] # Unstaged
  /\ request' = [request EXCEPT ![k] = [gen |-> g, action |-> action, expected |-> Len(events)]]
  /\ UNCHANGED <<source, held, members, sealed, valid, events, taken>>

Done(k) == \E i \in DOMAIN events : events[i].key = k

\* Faulty: takes every generation for a corpus.
CurrentAsCorpus(g) == \A p \in DOMAIN members[g] : members[g][p] = source[p]

\* Every member is the current version of its paper, and none is held.  A
\* corpus keeps its held papers: they are left out when it is queried.
Current(g) ==
  \A p \in DOMAIN members[g] : members[g][p] = source[p] /\ (g \in Corpus \/ p \notin held)

WasActive(g) == \E i \in DOMAIN events : events[i].gen = g

Expected(r) == r.expected = Len(events)

\* Faulty: does not know of the v2 backend.
OpenToV1Always == TRUE

OpenToV1 == taken.by # "v2"

\* activate_generation: a repeated request answers with its first event and
\* leaves the pointer alone; a request of the same key for anything else, an
\* old predecessor or a stale validation is refused.
ActivateGeneration(k) ==
  LET r == request[k] IN
  /\ r # Unasked /\ Len(events) < MaxEvents
  /\ ~Done(k)
  /\ valid[r.gen] = "fresh" /\ Expected(r)
  /\ r.action = "rollback" => WasActive(r.gen)
  /\ Whole(r.gen) /\ Current(r.gen) /\ OpenToV1
  /\ events' = Append(events, [key |-> k, gen |-> r.gen, prev |-> r.expected])
  /\ UNCHANGED <<source, held, members, sealed, valid, request, taken>>
-----------------------------------------------------------------------------
(* The v2 backend takes over, from exactly the pointer it was built for. *)

ReadPointer ==
  /\ taken.by = "v1" /\ events # <<>> /\ taken.seen # Len(events)
  /\ taken' = [taken EXCEPT !.seen = Len(events)]
  /\ UNCHANGED <<source, held, members, sealed, valid, request, events>>

TakeOver ==
  /\ taken.by = "v1" /\ events # <<>> /\ taken.seen = Len(events)
  /\ taken' = [taken EXCEPT !.by = "v2"]
  /\ UNCHANGED <<source, held, members, sealed, valid, request, events>>
-----------------------------------------------------------------------------
GNext ==
  \/ \E p \in Paper : Revise(p) \/ HoldPaper(p)
  \/ \E g \in Generation :
       \/ RecordValidation(g) \/ GrowStale(g)
       \/ \E P \in SUBSET Paper : StageGeneration(g, P)
       \/ \E P \in SUBSET Paper \ {{}} : \E plan \in [P -> 0..MaxVersion] : CreateCorpus(g, plan)
       \/ \E p \in Paper : StagePartition(g, p)
       \/ \E k \in IdemKey, action \in {"promote", "rollback"} : Ask(k, g, action)
  \/ \E k \in IdemKey : ActivateGeneration(k)
  \/ ReadPointer \/ TakeOver

GSpec == GInit /\ [][GNext]_gvars
-----------------------------------------------------------------------------
(* Properties. *)

\* Activations of several operators, delivered late or again and again, form
\* one chain: a key moves the pointer once, and only from the event its
\* operator had seen.
OneChain ==
  \A i \in DOMAIN events :
    /\ events[i].prev = i - 1
    /\ \A j \in DOMAIN events : events[i].key = events[j].key => i = j

\* Once the v2 backend has authority, the v1 pointer is the one it was built
\* for, though requests for v1 are still on their way.
OneAuthority == taken.by = "v2" => taken.seen = Len(events)

\* One history of the pointer, whoever moved it, in whichever version.
OneHistory == OneChain /\ OneAuthority

\* The pointer moves only to a generation that is staged to the last partition
\* and all of whose papers are current at that moment, whatever changed since
\* staging and validation.  If it is not a corpus, none of them is held.
ActivatesCurrent ==
  [][Len(events') > Len(events) =>
       LET g == Last(events').gen IN
       /\ sealed[g] = DOMAIN members[g]
       /\ \A p \in DOMAIN members[g] :
            members[g][p] = source[p] /\ (g \in Corpus \/ p \notin held)]_gvars
=============================================================================
