---------------------- MODULE NativePublicationProofs ----------------------
(***************************************************************************)
(* What NativePublication guarantees for any papers, batches, claims,      *)
(* interruptions and activations.                                          *)
(*                                                                         *)
(* A content is an append-only list of changes.  A batch may add a         *)
(* publication only while no newer one of its paper is known, so along     *)
(* every content the publications of a paper go forward (ContentKept), and *)
(* a promotion, which adds one change at most, never goes back.  A content *)
(* is planned on a sealed base, so what is sealed rests on sealed contents *)
(* only (SealedKept).  A superseded publication has a later one of its     *)
(* paper, and the latest has none, so it is not superseded (LastWord).     *)
(***************************************************************************)
EXTENDS NativePublication, SequenceTheorems, WellFoundedInduction, TLAPS

Change == UNION {[D -> Nat] : D \in SUBSET Paper}
Content == Seq(Change)
Results == Terminal \cup {"none", "retry"}
ClaimRow == [by : Batch \cup {Anon}, live : BOOLEAN, result : Results, at : Nat]
BatchRow == [plan : Content, jobs : SUBSET Nat, cursor : 0..Parts, checked : BOOLEAN,
             build : {"none", "built", "valid"}, expects : BOOLEAN]
Event == [content : Content, build : Batch \cup {Legacy}, action : {"promote", "rollback"}]

PubTypes ==
  /\ paperOf \in Seq(Paper) /\ Len(paperOf) <= MaxJobs
  /\ claims \in [1..MaxJobs -> Seq(ClaimRow)]
  /\ made \in [DOMAIN made -> 0..Parts]
  /\ sealed \subseteq DOMAIN made /\ DOMAIN made \subseteq Content
  /\ batch \in [Batch \cup {Legacy} -> BatchRow]
  /\ events \in Seq(Event) /\ events # <<>>

\* The queue's claims: one answer, a successor for what is superseded, and
\* what is reported stays served until a rollback.
ClaimKept(j, i) ==
  LET c == claims[j][i] IN
  /\ (c.live /\ c.result = "none") \/ c.result \in Terminal => i = Len(claims[j])
  /\ c.result = "superseded" => Newer(j) # {}
  /\ c.result = "published" =>
       /\ c.at <= Len(events)
       /\ (\A n \in (c.at + 1)..Len(events) : events[n].action = "promote")
            => Ver(Active, paperOf[j]) >= j

QueueKept ==
  /\ \A j \in (1..MaxJobs) \ Jobs : claims[j] = <<>>
  /\ \A j \in Jobs : \A i \in DOMAIN claims[j] : ClaimKept(j, i)

\* In a content every publication is that of its paper, and goes forward.
Ordered(C) ==
  /\ \A i \in DOMAIN C : \A p \in DOMAIN C[i] : C[i][p] \in Jobs /\ paperOf[C[i][p]] = p
  /\ \A i, k \in DOMAIN C : i <= k =>
       \A p \in DOMAIN C[i] \cap DOMAIN C[k] : C[i][p] <= C[k][p]

ContentKept == \A C \in DOMAIN made : Ordered(C) /\ (C # <<>> => Front(C) \in sealed)

SealedKept ==
  \A C \in sealed : made[C] = Parts /\ \A i \in 0..Len(C) : SubSeq(C, 1, i) \in sealed

\* A batch that holds no jobs has built nothing, except the legacy one.
BatchKept ==
  \A b \in Batch \cup {Legacy} :
    /\ batch[b].plan \in DOMAIN made
    /\ batch[b].checked => batch[b].jobs # {}
    /\ batch[b].build # "none" => batch[b].plan \in sealed /\ (b = Legacy \/ batch[b].jobs # {})

EventsKept == \A n \in DOMAIN events : events[n].content \in sealed

PubInv == PubTypes /\ QueueKept /\ ContentKept /\ SealedKept /\ BatchKept /\ EventsKept
-----------------------------------------------------------------------------
(* Greatest elements and contents. *)

\* A nonempty set of numbers up to n has a greatest one.
LEMMA MaxOf ==
  ASSUME NEW n \in Nat, NEW S \in SUBSET (1..n), S # {}
  PROVE  Max(S) \in S /\ \A y \in S : Max(S) >= y
PROOF
<1> DEFINE T == {n - x : x \in S}
<1>1. T \subseteq Nat /\ T # {}
  OBVIOUS
<1>2. PICK m \in T : \A y \in T : ~(<<y, m>> \in OpToRel(<, Nat))
  BY <1>1, WFMin, NatLessThanWellFounded
<1>3. PICK x \in S : m = n - x
  BY <1>2
<1>4. ASSUME NEW y \in S PROVE x >= y
  <2>1. n - y \in T /\ n - y \in Nat /\ m \in Nat
    BY <1>1, <1>2
  <2>2. ~(n - y < m)
    BY <1>2, <2>1 DEF OpToRel
  <2> QED
    BY <1>3, <2>1, <2>2
<1>5. \E z \in S : \A y \in S : z >= y
  BY <1>4
<1> QED
  BY <1>5 DEF Max

\* A change appended to a content is its last one, and the rest its front.
LEMMA Appended ==
  ASSUME NEW B \in Content, NEW f \in Change
  PROVE  /\ Append(B, f) \in Content /\ Append(B, f) # <<>>
         /\ Len(Append(B, f)) = Len(B) + 1
         /\ \A i \in 1..Len(B) : Append(B, f)[i] = B[i]
         /\ Append(B, f)[Len(B) + 1] = f
         /\ Front(Append(B, f)) = B
PROOF
<1>1. /\ Append(B, f) \in Seq(Change) /\ Append(B, f) # <<>>
      /\ Len(Append(B, f)) = Len(B) + 1
      /\ \A i \in 1..Len(B) : Append(B, f)[i] = B[i]
      /\ Append(B, f)[Len(B) + 1] = f
  BY AppendProperties DEF Content
<1>2. Front(Append(B, f)) = B
  <2> DEFINE C == Append(B, f)
  <2>1. Len(B) \in Nat /\ \A i \in 1..Len(B) : C[i] \in Change
    BY <1>1 DEF Content
  <2>2. /\ SubSeq(C, 1, Len(B)) \in Seq(Change) /\ Len(SubSeq(C, 1, Len(B))) = Len(B)
        /\ \A i \in 1..Len(B) : SubSeq(C, 1, Len(B))[i] = C[i]
    <3> HIDE DEF C
    <3>1. /\ SubSeq(C, 1, Len(B)) \in Seq(Change)
          /\ Len(SubSeq(C, 1, Len(B))) = IF 1 <= Len(B) THEN Len(B) - 1 + 1 ELSE 0
          /\ \A i \in 1..Len(B) - 1 + 1 : SubSeq(C, 1, Len(B))[i] = C[1 + i - 1]
      BY <2>1, SubSeqProperties
    <3> QED
      BY <2>1, <3>1
  <2>3. SubSeq(C, 1, Len(B)) = B
    BY <1>1, <2>1, <2>2, SeqEqual DEF Content
  <2> QED
    BY <1>1, <2>1, <2>3 DEF Front
<1> QED
  BY <1>1, <1>2 DEF Content

\* The front of a content, and its prefixes.
LEMMA FrontOf ==
  ASSUME NEW C \in Content, C # <<>>
  PROVE  /\ Front(C) \in Content /\ Len(C) \in Nat \ {0} /\ Len(Front(C)) = Len(C) - 1
         /\ \A i \in 1..Len(C) - 1 : Front(C)[i] = C[i]
         /\ \A i \in 0..Len(C) - 1 : SubSeq(Front(C), 1, i) = SubSeq(C, 1, i)
         /\ SubSeq(C, 1, Len(C)) = C
PROOF
<1> DEFINE n == Len(C) - 1
<1>1. C \in Seq(Change) /\ Len(C) \in Nat \ {0} /\ \A i \in 1..Len(C) : C[i] \in Change
  BY EmptySeq DEF Content
<1>2. /\ Front(C) \in Seq(Change) /\ Len(Front(C)) = n
      /\ \A i \in 1..n : Front(C)[i] = C[i]
  <2> DEFINE D == SubSeq(C, 1, n)
  <2>1. n \in Nat /\ \A i \in 1..n : C[i] \in Change
    BY <1>1
  <2>2. /\ D \in Seq(Change)
        /\ Len(D) = IF 1 <= n THEN n - 1 + 1 ELSE 0
        /\ \A i \in 1..n - 1 + 1 : D[i] = C[1 + i - 1]
    BY <2>1, SubSeqProperties
  <2>3. Front(C) = D
    BY DEF Front
  <2> HIDE DEF D, n
  <2>4. Len(D) = n /\ \A i \in 1..n : i \in 1..n - 1 + 1 /\ 1 + i - 1 = i
    BY <2>1, <2>2
  <2>5. \A i \in 1..n : D[i] = C[i]
    BY <2>2, <2>4
  <2> QED
    BY <2>2, <2>3, <2>4, <2>5
<1>3. ASSUME NEW i \in 0..n PROVE SubSeq(Front(C), 1, i) = SubSeq(C, 1, i)
  <2>1. CASE i = 0
    BY <2>1, SubSeqEmpty
  <2>2. CASE i # 0
    <3>1. /\ 1 \in 1..Len(C) /\ n \in 1..Len(C)
          /\ 1 \in 1..(n - 1 + 1) /\ i \in 1..(n - 1 + 1)
      BY <1>1, <1>3, <2>2
    <3>2. SubSeq(SubSeq(C, 1, n), 1, i) = SubSeq(C, 1 + 1 - 1, 1 + i - 1)
      BY <1>1, <3>1, SubSeqOfSubSeq
    <3> QED
      BY <3>1, <3>2 DEF Front
  <2> QED
    BY <2>1, <2>2
<1>4. SubSeq(C, 1, Len(C)) = C
  BY <1>1, SubSeqFull
<1> QED
  BY <1>1, <1>2, <1>3, <1>4 DEF Content

LEMMA ValueNat ==
  ASSUME NEW C \in Content, NEW i \in DOMAIN C, NEW p \in DOMAIN C[i]
  PROVE  C[i][p] \in Nat
PROOF
<1>1. C[i] \in Change
  BY DEF Content
<1> QED
  BY <1>1 DEF Change

\* The publication a content holds of a paper is that of its last change.
LEMMA VerOf ==
  ASSUME NEW C \in Content, NEW p
  PROVE  /\ Ver(C, p) \in Nat
         /\ \/ Ver(C, p) = 0 /\ \A i \in DOMAIN C : p \notin DOMAIN C[i]
            \/ \E m \in DOMAIN C :
                 /\ p \in DOMAIN C[m] /\ Ver(C, p) = C[m][p]
                 /\ \A i \in DOMAIN C : p \in DOMAIN C[i] => i <= m
PROOF
<1> DEFINE I == {i \in DOMAIN C : p \in DOMAIN C[i]}
<1>1. Len(C) \in Nat /\ DOMAIN C = 1..Len(C)
  BY DEF Content
<1>2. CASE I = {}
  BY <1>2 DEF Ver
<1>3. CASE I # {}
  <2>1. Max(I) \in I /\ \A i \in I : Max(I) >= i
    BY <1>1, <1>3, MaxOf
  <2>2. Ver(C, p) = C[Max(I)][p]
    BY <1>3 DEF Ver
  <2>3. C[Max(I)][p] \in Nat
    BY <2>1, ValueNat
  <2>4. \A i \in DOMAIN C : p \in DOMAIN C[i] => i <= Max(I)
    BY <1>1, <2>1
  <2> QED
    BY <2>1, <2>2, <2>3, <2>4
<1> QED
  BY <1>2, <1>3

\* One more change never takes a paper back.
LEMMA VerGrows ==
  ASSUME NEW C \in Content, C # <<>>, Ordered(C), NEW p
  PROVE  Ver(C, p) >= Ver(Front(C), p)
PROOF
<1> DEFINE B == Front(C)
<1>1. /\ B \in Content /\ DOMAIN C = 1..Len(C) /\ DOMAIN B = 1..Len(C) - 1
      /\ Len(C) \in Nat \ {0} /\ \A i \in 1..Len(C) - 1 : B[i] = C[i]
  BY FrontOf DEF Content
<1>2. Ver(B, p) \in Nat /\ Ver(C, p) \in Nat
  BY <1>1, VerOf
<1>3. CASE \A i \in DOMAIN B : p \notin DOMAIN B[i]
  <2>1. Ver(B, p) = 0
    BY <1>1, <1>3, VerOf
  <2> QED
    BY <1>2, <2>1
<1>4. CASE ~\A i \in DOMAIN B : p \notin DOMAIN B[i]
  <2>1. PICK m \in DOMAIN B : p \in DOMAIN B[m] /\ Ver(B, p) = B[m][p]
    BY <1>1, <1>4, VerOf
  <2>2. m \in DOMAIN C /\ p \in DOMAIN C[m] /\ Ver(B, p) = C[m][p]
    BY <1>1, <2>1
  <2>3. PICK k \in DOMAIN C :
          /\ p \in DOMAIN C[k] /\ Ver(C, p) = C[k][p]
          /\ \A i \in DOMAIN C : p \in DOMAIN C[i] => i <= k
    BY <2>2, VerOf
  <2>4. m <= k
    BY <2>2, <2>3
  <2>5. C[m][p] <= C[k][p]
    BY <2>2, <2>3, <2>4 DEF Ordered
  <2> QED
    BY <1>2, <2>2, <2>3, <2>5
<1> QED
  BY <1>3, <1>4

\* New jobs leave the order of a content as it is.
LEMMA OrderedKept ==
  ASSUME NEW C, Ordered(C), paperOf \in Seq(Paper), paperOf' \in Seq(Paper),
         Len(paperOf') >= Len(paperOf), \A j \in Jobs : paperOf'[j] = paperOf[j]
  PROVE  Ordered(C)'
PROOF
<1>1. \A j \in Jobs : j \in Jobs' /\ paperOf'[j] = paperOf[j]
  BY DEF Jobs
<1> QED
  BY <1>1 DEF Ordered

\* A change by the latest publications of its papers keeps a content ordered.
LEMMA OrderedAppend ==
  ASSUME NEW B \in Content, NEW f \in Change, Ordered(B), paperOf \in Seq(Paper),
         \A p \in DOMAIN f : f[p] \in Jobs /\ paperOf[f[p]] = p /\ Latest(f[p])
  PROVE  Ordered(Append(B, f))
PROOF
<1> DEFINE C == Append(B, f)
           n == Len(B)
<1>1. /\ n \in Nat /\ DOMAIN B = 1..n /\ DOMAIN C = 1..n + 1
      /\ \A i \in 1..n : C[i] = B[i]
      /\ C[n + 1] = f
  BY Appended DEF Content
<1> HIDE DEF C
<1>2. \A i \in DOMAIN C : \A p \in DOMAIN C[i] : C[i][p] \in Jobs /\ paperOf[C[i][p]] = p
  BY <1>1 DEF Ordered
<1>3. ASSUME NEW i \in DOMAIN C, NEW k \in DOMAIN C, i <= k,
             NEW p \in DOMAIN C[i] \cap DOMAIN C[k]
      PROVE  C[i][p] <= C[k][p]
  <2>1. CASE k # n + 1
    <3>1. i \in 1..n /\ k \in 1..n
      BY <1>1, <1>3, <2>1
    <3> QED
      BY <1>1, <1>3, <3>1 DEF Ordered
  <2>2. CASE k = n + 1
    <3>1. /\ C[i][p] \in Jobs /\ paperOf[C[i][p]] = p
          /\ C[k][p] \in Jobs /\ paperOf[C[k][p]] = p /\ Newer(C[k][p]) = {}
      BY <1>1, <1>2, <2>2 DEF Latest
    <3>2. ~(C[i][p] > C[k][p])
      BY <3>1 DEF Newer
    <3> QED
      BY <3>1, <3>2 DEF Jobs
  <2> QED
    BY <2>1, <2>2
<1>4. Ordered(C)
  BY <1>2, <1>3 DEF Ordered
<1> QED
  BY <1>4 DEF C
-----------------------------------------------------------------------------
(* What the steps do to the claims. *)

\* The change a set of jobs makes: of each of its papers, one of them.
LEMMA ChangeOf ==
  ASSUME NEW J \in SUBSET Jobs, paperOf \in Seq(Paper),
         NEW f, f = [p \in {paperOf[j] : j \in J} |-> CHOOSE j \in J : paperOf[j] = p]
  PROVE  f \in Change /\ \A p \in DOMAIN f : f[p] \in J /\ paperOf[f[p]] = p
PROOF
<1>1. \A p \in DOMAIN f : f[p] \in J /\ paperOf[f[p]] = p
  OBVIOUS
<1>2. DOMAIN f \in SUBSET Paper
  BY DEF Jobs
<1>3. f \in [DOMAIN f -> Nat]
  <2>1. f = [p \in DOMAIN f |-> f[p]]
    OBVIOUS
  <2>2. J \subseteq Jobs /\ Jobs \subseteq Nat
    BY DEF Jobs
  <2>3. \A p \in DOMAIN f : f[p] \in Nat
    BY <1>1, <2>2
  <2> QED
    BY <2>1, <2>3
<1>4. f \in Change
  BY ONLY <1>2, <1>3 DEF Change
<1> QED
  BY <1>1, <1>4

\* A job's claims are left alone, grow by an unfinished or superseding claim,
\* or get the answer of their last one, or its end.
Grows(j, r) ==
  /\ Claimable(j) /\ claims'[j] = Append(claims[j], r)
  /\ r.result \in {"none", "superseded"}
  /\ r.result = "superseded" => Newer(j) # {}

Answers(j, r) ==
  /\ claims[j] # <<>> /\ claims'[j] = [claims[j] EXCEPT ![Len(claims[j])] = r]
  /\ r.result \in {"none", "retry", "published"}
  /\ r.result = "none" => ~r.live
  /\ r.result = "published" => r.at = Len(events) /\ Served(j)

ClaimsMove(j) ==
  \/ claims'[j] = claims[j]
  \/ j \in Jobs /\ \E r \in ClaimRow : Grows(j, r) \/ Answers(j, r)

\* The answer to the last claim of a job.
LEMMA AnswerRow ==
  ASSUME PubTypes, NEW j \in 1..MaxJobs, claims[j] # <<>>, NEW res \in {"published", "retry"}
  PROVE  \E r \in ClaimRow :
           /\ Answered(j, res) = [claims[j] EXCEPT ![Len(claims[j])] = r]
           /\ r.result = res /\ r.at = Len(events)
PROOF
<1> DEFINE n == Len(claims[j])
           r == [claims[j][n] EXCEPT !.result = res, !.at = Len(events)]
<1>1. claims[j] \in Seq(ClaimRow) /\ n \in DOMAIN claims[j] /\ Len(events) \in Nat
  BY EmptySeq DEF PubTypes
<1>2. claims[j][n] \in ClaimRow
  BY <1>1
<1>3. r \in ClaimRow /\ r.result = res /\ r.at = Len(events)
  BY <1>1, <1>2 DEF ClaimRow, Results, Terminal
<1>4. Answered(j, res) = [claims[j] EXCEPT ![n] = r]
  BY <1>1, <1>2 DEF Answered, ClaimRow
<1> QED
  BY <1>3, <1>4

LEMMA ClaimsMoved ==
  ASSUME PubTypes, QueueKept,
         \/ \E j \in Jobs : Expire(j)
         \/ SupersedePending
         \/ \E b \in Batch : \/ \E base \in sealed, J \in SUBSET Jobs : ClaimAndPlan(b, base, J)
                             \/ FinishBatch(b) \/ RetryBatch(b)
  PROVE  /\ claims' \in [1..MaxJobs -> Seq(ClaimRow)]
         /\ \A j \in 1..MaxJobs : ClaimsMove(j)
PROOF
<1> DEFINE Moved == /\ claims' = [k \in 1..MaxJobs |-> claims'[k]]
                    /\ \A k \in 1..MaxJobs : ClaimsMove(k)
<1>t. /\ claims \in [1..MaxJobs -> Seq(ClaimRow)] /\ Jobs \subseteq 1..MaxJobs
      /\ \A j \in (1..MaxJobs) \ Jobs : claims[j] = <<>>
  BY PublicationAssumption DEF PubTypes, QueueKept, Jobs
<1>g. \A j \in 1..MaxJobs : \A r \in ClaimRow : Append(claims[j], r) \in Seq(ClaimRow)
  BY <1>t, AppendProperties
<1>e. \A j \in 1..MaxJobs : \A r \in ClaimRow :
        claims[j] # <<>> => [claims[j] EXCEPT ![Len(claims[j])] = r] \in Seq(ClaimRow)
  <2> TAKE j \in 1..MaxJobs
  <2> TAKE r \in ClaimRow
  <2> HAVE claims[j] # <<>>
  <2>1. claims[j] \in Seq(ClaimRow) /\ Len(claims[j]) \in 1..Len(claims[j])
    BY <1>t, EmptySeq
  <2> QED
    BY <2>1, ExceptSeq
<1>m. ASSUME Moved
      PROVE  claims' \in [1..MaxJobs -> Seq(ClaimRow)]
  <2>1. ASSUME NEW j \in 1..MaxJobs PROVE claims'[j] \in Seq(ClaimRow)
    BY <1>t, <1>g, <1>e, <1>m DEF ClaimsMove, Grows, Answers
  <2> QED
    BY <1>m, <2>1
<1>1. ASSUME NEW j \in Jobs, Expire(j) PROVE Moved
  <2> DEFINE n == Len(claims[j])
             r == [claims[j][n] EXCEPT !.live = FALSE]
  <2>1. /\ claims[j] # <<>> /\ claims[j][n].result = "none"
        /\ claims' = [claims EXCEPT ![j][n].live = FALSE]
    BY <1>1 DEF Expire, Leased, Last
  <2>2. claims[j] \in Seq(ClaimRow) /\ n \in DOMAIN claims[j] /\ claims[j][n] \in ClaimRow
    BY <1>t, <2>1, EmptySeq
  <2>3. r \in ClaimRow /\ r.result = "none" /\ ~r.live
    BY <2>1, <2>2 DEF ClaimRow
  <2>4. claims'[j] = [claims[j] EXCEPT ![n] = r]
    BY <1>t, <2>1, <2>2 DEF ClaimRow
  <2>5. Answers(j, r)
    BY <2>1, <2>3, <2>4 DEF Answers
  <2>6. \A k \in (1..MaxJobs) \ {j} : claims'[k] = claims[k]
    BY <1>t, <2>1
  <2> QED
    BY <1>t, <2>1, <2>3, <2>5, <2>6 DEF ClaimsMove
<1>2. ASSUME SupersedePending PROVE Moved
  <2> DEFINE c == Claim(Anon)
             r == [c EXCEPT !.result = "superseded", !.at = Len(events)]
  <2>1. r \in ClaimRow /\ r.result = "superseded"
    <3>1. Len(events) \in Nat
      BY DEF PubTypes
    <3>2. c \in ClaimRow
      BY DEF Claim, ClaimRow, Results
    <3> HIDE DEF c
    <3> QED
      BY <3>1, <3>2 DEF ClaimRow, Results, Terminal
  <2>2. \A k \in 1..MaxJobs : claims'[k] = IF k \in Old THEN Append(claims[k], r) ELSE claims[k]
    BY <1>t, <1>2 DEF SupersedePending
  <2>3. \A k \in Old : k \in Jobs /\ Claimable(k) /\ Newer(k) # {}
    BY <1>2 DEF SupersedePending, Old
  <2>4. \A k \in 1..MaxJobs : ClaimsMove(k)
    <3> HIDE DEF r
    <3> QED
      BY <2>1, <2>2, <2>3 DEF ClaimsMove, Grows
  <2> QED
    BY <1>t, <1>2, <2>4 DEF SupersedePending
<1>3. ASSUME NEW b \in Batch, NEW base \in sealed, NEW J \in SUBSET Jobs, ClaimAndPlan(b, base, J)
      PROVE  Moved
  <2>1. Claim(b) \in ClaimRow /\ Claim(b).result = "none"
    BY DEF Claim, ClaimRow, Results
  <2>2. /\ \A k \in 1..MaxJobs : claims'[k] = IF k \in J THEN Append(claims[k], Claim(b)) ELSE claims[k]
        /\ \A k \in J : Claimable(k)
    BY <1>t, <1>3 DEF ClaimAndPlan
  <2>3. \A k \in 1..MaxJobs : ClaimsMove(k)
    BY <2>1, <2>2 DEF ClaimsMove, Grows
  <2> QED
    BY <1>t, <1>3, <2>3 DEF ClaimAndPlan
<1>4. ASSUME NEW b \in Batch, NEW res \in {"published", "retry"},
             \A j \in batch[b].jobs : Holds(j, b) /\ (res = "published" => Served(j)),
             claims' = [j \in DOMAIN claims |->
                          IF j \in batch[b].jobs THEN Answered(j, res) ELSE claims[j]]
      PROVE  Moved
  <2>1. ASSUME NEW k \in 1..MaxJobs, k \in batch[b].jobs PROVE ClaimsMove(k)
    <3>1. claims[k] # <<>> /\ claims'[k] = Answered(k, res) /\ k \in Jobs
      BY <1>t, <1>4, <2>1 DEF Holds, Leased
    <3>2. PICK r \in ClaimRow : /\ Answered(k, res) = [claims[k] EXCEPT ![Len(claims[k])] = r]
                                /\ r.result = res /\ r.at = Len(events)
      BY <3>1, AnswerRow
    <3>3. Answers(k, r)
      BY <1>4, <2>1, <3>1, <3>2 DEF Answers
    <3> QED
      BY <3>1, <3>3 DEF ClaimsMove
  <2>2. ASSUME NEW k \in 1..MaxJobs, k \notin batch[b].jobs PROVE ClaimsMove(k)
    BY <1>t, <1>4, <2>2 DEF ClaimsMove
  <2> QED
    BY <1>t, <1>4, <2>1, <2>2
<1>5. ASSUME NEW b \in Batch, FinishBatch(b) \/ RetryBatch(b)
      PROVE  Moved
  <2>1. CASE FinishBatch(b)
    BY <1>4, <2>1 DEF FinishBatch
  <2>2. CASE RetryBatch(b)
    BY <1>4, <2>2 DEF RetryBatch
  <2> QED
    BY <1>5, <2>1, <2>2
<1>6. Moved
  BY <1>1, <1>2, <1>3, <1>5
<1> QED
  BY <1>6, <1>m
-----------------------------------------------------------------------------
(* Types. *)

\* The steps on a batch that change nothing but its row.
RowStep(b) == Check(b) \/ Build(b) \/ Validate(b) \/ Interrupt(b) \/ AcceptBuild(b)

\* The content a claim plans.
Planned(C, base, f, J) ==
  /\ base \in sealed /\ f \in Change /\ C = Append(base, f) /\ C \in Content
  /\ \A p \in DOMAIN f : f[p] \in Jobs /\ paperOf[f[p]] = p /\ Latest(f[p])
  /\ made' = [D \in DOMAIN made \cup {C} |-> IF D \in DOMAIN made THEN made[D] ELSE 0]

LEMMA PlannedContent ==
  ASSUME PubTypes, NEW b \in Batch, NEW base \in sealed, NEW J \in SUBSET Jobs,
         ClaimAndPlan(b, base, J)
  PROVE  \E f, C : /\ Planned(C, base, f, J)
                   /\ batch' = [batch EXCEPT ![b].plan = C, ![b].jobs = J]
PROOF
<1> DEFINE f == [p \in {paperOf[j] : j \in J} |-> CHOOSE j \in J : paperOf[j] = p]
           C == Append(base, f)
<1>1. f \in Change /\ \A p \in DOMAIN f : f[p] \in J /\ paperOf[f[p]] = p
  <2>1. paperOf \in Seq(Paper)
    BY DEF PubTypes
  <2> QED
    BY <2>1, ChangeOf
<1>2. /\ \A j \in J : Latest(j)
      /\ made' = [D \in DOMAIN made \cup {C} |-> IF D \in DOMAIN made THEN made[D] ELSE 0]
      /\ batch' = [batch EXCEPT ![b].plan = C, ![b].jobs = J]
  BY DEF ClaimAndPlan
<1>3. base \in Content
  BY DEF PubTypes
<1>4. C \in Content
  BY <1>1, <1>3, Appended
<1> HIDE DEF f
<1>5. \A p \in DOMAIN f : f[p] \in Jobs /\ paperOf[f[p]] = p /\ Latest(f[p])
  BY <1>1, <1>2
<1>6. Planned(C, base, f, J)
  BY <1>1, <1>2, <1>4, <1>5 DEF Planned
<1> QED
  BY <1>2, <1>6

\* Steps on one row of the batches.
LEMMA CursorTyped ==
  ASSUME NEW r \in BatchRow, NEW k \in 0..Parts
  PROVE  [r EXCEPT !.cursor = k, !.checked = FALSE] \in BatchRow
PROOF
<1> DEFINE T == 0..Parts
<1> HIDE DEF T
<1>1. r \in [plan : Content, jobs : SUBSET Nat, cursor : T, checked : BOOLEAN,
             build : {"none", "built", "valid"}, expects : BOOLEAN] /\ k \in T
  BY DEF BatchRow, T
<1>2. [r EXCEPT !.cursor = k, !.checked = FALSE]
        \in [plan : Content, jobs : SUBSET Nat, cursor : T, checked : BOOLEAN,
             build : {"none", "built", "valid"}, expects : BOOLEAN]
  BY ONLY <1>1
<1> QED
  BY <1>2 DEF BatchRow, T

LEMMA RowTyped ==
  ASSUME NEW b \in Batch \cup {Legacy}, NEW r \in BatchRow,
         batch \in [Batch \cup {Legacy} -> BatchRow], batch' = [batch EXCEPT ![b] = r]
  PROVE  batch' \in [Batch \cup {Legacy} -> BatchRow]
PROOF
  OBVIOUS

LEMMA TypesKept ==
  ASSUME PubTypes, QueueKept, BatchKept, [PNext]_pvars
  PROVE  PubTypes'
PROOF
<1>t. /\ paperOf \in Seq(Paper) /\ Len(paperOf) <= MaxJobs
      /\ claims \in [1..MaxJobs -> Seq(ClaimRow)]
      /\ made \in [DOMAIN made -> 0..Parts] /\ Parts \in Nat
      /\ sealed \subseteq DOMAIN made /\ DOMAIN made \subseteq Content
      /\ batch \in [Batch \cup {Legacy} -> BatchRow]
      /\ events \in Seq(Event) /\ events # <<>>
  BY PublicationAssumption DEF PubTypes
<1>1. ASSUME NEW p \in Paper, Enqueue(p) PROVE PubTypes'
  <2>1. /\ paperOf' \in Seq(Paper) /\ Len(paperOf') = Len(paperOf) + 1
        /\ Len(paperOf) < MaxJobs /\ Len(paperOf) \in Nat /\ MaxJobs \in Nat
    BY <1>t, <1>1, AppendProperties, PublicationAssumption DEF Enqueue
  <2>2. UNCHANGED <<claims, made, sealed, batch, events>>
    BY <1>1 DEF Enqueue
  <2> QED
    BY <1>t, <2>1, <2>2 DEF PubTypes
<1>2. ASSUME \/ \E j \in Jobs : Expire(j)
             \/ SupersedePending
             \/ \E b \in Batch : FinishBatch(b) \/ RetryBatch(b)
      PROVE  PubTypes'
  <2>1. claims' \in [1..MaxJobs -> Seq(ClaimRow)]
    BY <1>2, ClaimsMoved
  <2>2. UNCHANGED <<paperOf, made, sealed, batch, events>>
    BY <1>2 DEF Expire, SupersedePending, FinishBatch, RetryBatch
  <2> QED
    BY <1>t, <2>1, <2>2 DEF PubTypes
<1>3. ASSUME NEW b \in Batch, NEW base \in sealed, NEW J \in SUBSET Jobs, ClaimAndPlan(b, base, J)
      PROVE  PubTypes'
  <2>1. claims' \in [1..MaxJobs -> Seq(ClaimRow)]
    BY <1>3, ClaimsMoved
  <2>2. PICK f, C : /\ Planned(C, base, f, J)
                    /\ batch' = [batch EXCEPT ![b].plan = C, ![b].jobs = J]
    BY <1>3, PlannedContent
  <2>3. J \in SUBSET Nat
    BY DEF Jobs
  <2>4. batch' \in [Batch \cup {Legacy} -> BatchRow]
    <3>1. batch[b] \in BatchRow /\ C \in Content
      BY <1>t, <2>2 DEF Planned
    <3>2. [batch[b] EXCEPT !.plan = C, !.jobs = J] \in BatchRow
      BY <3>1, <2>3 DEF BatchRow
    <3>3. batch' = [batch EXCEPT ![b] = [batch[b] EXCEPT !.plan = C, !.jobs = J]]
      BY <1>t, <2>2
    <3> QED
      BY <1>t, <3>2, <3>3, RowTyped
  <2>5. /\ made' \in [DOMAIN made' -> 0..Parts] /\ DOMAIN made' \subseteq Content
        /\ sealed \subseteq DOMAIN made'
    <3>1. /\ made' = [D \in DOMAIN made \cup {C} |-> IF D \in DOMAIN made THEN made[D] ELSE 0]
          /\ C \in Content
      BY <2>2 DEF Planned
    <3>2. DOMAIN made' = DOMAIN made \cup {C}
      BY <3>1
    <3>3. 0 \in 0..Parts
      BY <1>t
    <3>4. \A D \in DOMAIN made \cup {C} : made'[D] \in 0..Parts
      BY <1>t, <3>1, <3>3
    <3>5. made' = [D \in DOMAIN made' |-> made'[D]]
      BY <3>1
    <3> QED
      BY <1>t, <3>1, <3>2, <3>4, <3>5
  <2>6. UNCHANGED <<paperOf, sealed, events>>
    BY <1>3 DEF ClaimAndPlan
  <2> QED
    BY <1>t, <2>1, <2>4, <2>5, <2>6 DEF PubTypes
<1>4. ASSUME NEW b \in Batch \cup {Legacy}, RowStep(b) PROVE PubTypes'
  <2>1. batch[b] \in BatchRow /\ Parts \in Nat
    BY <1>t
  <2>3. /\ [batch[b] EXCEPT !.checked = TRUE] \in BatchRow
        /\ [batch[b] EXCEPT !.expects = TRUE] \in BatchRow
        /\ \A s \in {"built", "valid"} : [batch[b] EXCEPT !.build = s, !.checked = FALSE] \in BatchRow
    BY <2>1 DEF BatchRow
  <2>6. [batch[b] EXCEPT !.cursor = 0, !.checked = FALSE] \in BatchRow
    <3>1. 0 \in 0..Parts
      BY <2>1
    <3> QED
      BY <2>1, <3>1, CursorTyped
  <2>4. \/ batch' = [batch EXCEPT ![b] = [batch[b] EXCEPT !.checked = TRUE]]
        \/ batch' = [batch EXCEPT ![b] = [batch[b] EXCEPT !.expects = TRUE]]
        \/ batch' = [batch EXCEPT ![b] = [batch[b] EXCEPT !.cursor = 0, !.checked = FALSE]]
        \/ \E s \in {"built", "valid"} :
             batch' = [batch EXCEPT ![b] = [batch[b] EXCEPT !.build = s, !.checked = FALSE]]
    BY <1>t, <1>4 DEF RowStep, Check, Build, Validate, Interrupt, AcceptBuild
  <2>5. batch' \in [Batch \cup {Legacy} -> BatchRow]
    BY <1>t, <2>3, <2>4, <2>6, RowTyped
  <2>2. UNCHANGED <<paperOf, claims, made, sealed, events>>
    BY <1>4 DEF RowStep, Check, Build, Validate, Interrupt, AcceptBuild
  <2> QED
    BY <1>t, <2>2, <2>5 DEF PubTypes
<1>5. ASSUME NEW b \in Batch, AppendPartition(b) PROVE PubTypes'
  <2>1. batch[b].cursor \in 0..Parts /\ batch[b].cursor < Parts /\ batch[b].plan \in DOMAIN made
    BY <1>t, <1>5 DEF AppendPartition, BatchRow, BatchKept
  <2>2. batch' \in [Batch \cup {Legacy} -> BatchRow]
    <3>1. batch[b] \in BatchRow
      BY <1>t
    <3>2. [batch[b] EXCEPT !.cursor = @ + 1, !.checked = FALSE] \in BatchRow
      <4>1. batch[b].cursor + 1 \in 0..Parts
        BY <1>t, <2>1
      <4> QED
        BY <3>1, <4>1, CursorTyped
    <3>3. batch' = [batch EXCEPT ![b] = [batch[b] EXCEPT !.cursor = @ + 1, !.checked = FALSE]]
      BY <1>t, <1>5 DEF AppendPartition
    <3> QED
      BY <1>t, <3>2, <3>3, RowTyped
  <2>3. made' \in [DOMAIN made -> 0..Parts] /\ DOMAIN made' = DOMAIN made
    BY <1>t, <1>5, <2>1 DEF AppendPartition
  <2>4. UNCHANGED <<paperOf, claims, sealed, events>>
    BY <1>5 DEF AppendPartition
  <2> QED
    BY <1>t, <2>2, <2>3, <2>4 DEF PubTypes
<1>6. ASSUME NEW b \in Batch, SealContent(b) PROVE PubTypes'
  <2>1. batch[b].plan \in DOMAIN made
    BY <1>t DEF BatchKept
  <2>2. batch' \in [Batch \cup {Legacy} -> BatchRow]
    BY <1>t, <1>6 DEF SealContent, BatchRow
  <2>3. sealed' \subseteq DOMAIN made /\ UNCHANGED <<paperOf, claims, made, events>>
    BY <1>t, <1>6, <2>1 DEF SealContent
  <2> QED
    BY <1>t, <2>2, <2>3 DEF PubTypes
<1>7. ASSUME NEW b \in Batch \cup {Legacy}, NEW action \in {"promote", "rollback"}, Activate(b, action)
      PROVE  PubTypes'
  <2> DEFINE e == [content |-> batch[b].plan, build |-> b, action |-> action]
  <2>1. e \in Event
    BY <1>t DEF Event, BatchRow
  <2>2. events' = Append(events, e)
    BY <1>7 DEF Activate
  <2>3. events' \in Seq(Event) /\ events' # <<>>
    BY <1>t, <2>1, <2>2, AppendProperties
  <2>4. batch' \in [Batch \cup {Legacy} -> BatchRow]
    <3>1. \A c \in Batch \cup {Legacy} : [batch[c] EXCEPT !.expects = FALSE] \in BatchRow
      <4> TAKE c \in Batch \cup {Legacy}
      <4>1. batch[c] \in BatchRow
        BY <1>t
      <4> QED
        BY <4>1 DEF BatchRow
    <3>2. batch' = [c \in Batch \cup {Legacy} |-> [batch[c] EXCEPT !.expects = FALSE]]
      BY <1>t, <1>7 DEF Activate
    <3> QED
      BY <3>1, <3>2
  <2>5. UNCHANGED <<paperOf, claims, made, sealed>>
    BY <1>7 DEF Activate
  <2> QED
    BY <1>t, <2>3, <2>4, <2>5 DEF PubTypes
<1>8. CASE UNCHANGED pvars
  BY <1>t, <1>8 DEF PubTypes, pvars
<1> QED
  BY <1>1, <1>2, <1>3, <1>4, <1>5, <1>6, <1>7, <1>8 DEF PNext, RowStep
-----------------------------------------------------------------------------
(* What each step preserves. *)

\* The claims of one job after one move.
LEMMA MoveKept ==
  ASSUME PubTypes, NEW j \in Jobs, j \in 1..MaxJobs,
         \A i \in DOMAIN claims[j] : ClaimKept(j, i),
         ClaimsMove(j), UNCHANGED <<paperOf, events>>
  PROVE  \A i \in DOMAIN claims'[j] : ClaimKept(j, i)'
PROOF
<1> DEFINE n == Len(claims[j])
<1>1. /\ claims[j] \in Seq(ClaimRow) /\ n \in Nat /\ DOMAIN claims[j] = 1..n
      /\ Len(events) \in Nat /\ paperOf' = paperOf /\ events' = events
  BY DEF PubTypes
<1>2. CASE claims'[j] = claims[j]
  BY <1>1, <1>2 DEF ClaimKept, Newer, Jobs, Active
<1>3. ASSUME NEW r \in ClaimRow, Grows(j, r) PROVE \A i \in DOMAIN claims'[j] : ClaimKept(j, i)'
  <2>1. /\ claims'[j] = Append(claims[j], r)
        /\ r.result \in {"none", "superseded"} /\ (r.result = "superseded" => Newer(j) # {})
    BY <1>3 DEF Grows
  <2>2. /\ DOMAIN claims'[j] = 1..n + 1 /\ Len(claims'[j]) = n + 1 /\ claims'[j][n + 1] = r
        /\ \A i \in 1..n : claims'[j][i] = claims[j][i]
    BY <1>1, <2>1, AppendProperties
  <2>3. ASSUME NEW i \in 1..n PROVE ClaimKept(j, i)'
    <3>1. claims[j][i].result \notin Terminal
      BY <1>1, <1>3, <2>3 DEF Grows, Claimable, Ended
    <3>2. ~(claims[j][i].live /\ claims[j][i].result = "none")
      <4>1. CASE i = n
        <5>1. claims[j] # <<>>
          BY <1>1, <2>3
        <5>2. ~claims[j][n].live \/ claims[j][n].result = "retry"
          BY <1>3, <5>1 DEF Grows, Claimable, Last
        <5> QED
          BY <4>1, <5>2
      <4>2. CASE i # n
        BY <1>1, <2>3, <4>2 DEF ClaimKept
      <4> QED
        BY <4>1, <4>2
    <3> QED
      BY <2>2, <3>1, <3>2 DEF ClaimKept, Terminal
  <2>m. PICK m \in Nat : m = n + 1
    BY <1>1
  <2>4. ClaimKept(j, m)'
    <3>1. Newer(j)' = Newer(j)
      BY <1>1 DEF Newer, Jobs
    <3> QED
      BY <2>1, <2>2, <2>m, <3>1 DEF ClaimKept, Terminal
  <2>5. \A i \in 1..n + 1 : i = m \/ i \in 1..n
    BY <1>1, <2>m
  <2> QED
    BY <2>2, <2>3, <2>4, <2>5
<1>4. ASSUME NEW r \in ClaimRow, Answers(j, r) PROVE \A i \in DOMAIN claims'[j] : ClaimKept(j, i)'
  <2>1. /\ claims'[j] = [claims[j] EXCEPT ![n] = r]
        /\ r.result \in {"none", "retry", "published"} /\ (r.result = "none" => ~r.live)
        /\ r.result = "published" => r.at = Len(events) /\ Ver(Active, paperOf[j]) = j
        /\ n \in 1..n
    BY <1>1, <1>4, EmptySeq DEF Answers, Served
  <2>2. claims'[j] \in Seq(ClaimRow) /\ Len(claims'[j]) = n
    BY <1>1, <2>1, ExceptSeq
  <2>3. /\ DOMAIN claims'[j] = 1..n /\ claims'[j][n] = r
        /\ \A i \in 1..n : i # n => claims'[j][i] = claims[j][i]
    BY <1>1, <2>1
  <2>4. ASSUME NEW i \in 1..n, i # n PROVE ClaimKept(j, i)'
    BY <1>1, <2>2, <2>3, <2>4 DEF ClaimKept, Newer, Jobs, Active
  <2>5. ClaimKept(j, n)'
    <3>1. Active' = Active /\ j \in Nat
      BY <1>1 DEF Active, Jobs
    <3> QED
      BY <1>1, <2>1, <2>2, <2>3, <3>1 DEF ClaimKept
  <2> QED
    BY <1>1, <2>3, <2>4, <2>5
<1> QED
  BY <1>2, <1>3, <1>4 DEF ClaimsMove

\* The content of a promotion serves of each paper what was served, or more.
LEMMA PromotionForward ==
  ASSUME PubTypes, ContentKept, NEW C \in DOMAIN made, Extends(C), NEW p
  PROVE  Ver(C, p) >= Ver(Active, p)
PROOF
<1>1. C \in Content /\ Ordered(C)
  BY DEF PubTypes, ContentKept
<1>2. CASE C = Active
  BY <1>1, <1>2, VerOf
<1>3. CASE C # <<>> /\ Front(C) = Active
  BY <1>1, <1>3, VerGrows
<1> QED
  BY <1>2, <1>3 DEF Extends

\* What activation does.
LEMMA Activated ==
  ASSUME PubTypes, BatchKept, NEW b \in Batch \cup {Legacy}, NEW action \in {"promote", "rollback"},
         Activate(b, action)
  PROVE  /\ batch[b].plan \in sealed /\ Len(events) \in Nat \ {0}
         /\ Len(events') = Len(events) + 1 /\ Active' = batch[b].plan
         /\ \A n \in 1..Len(events) : events'[n] = events[n]
         /\ events'[Len(events) + 1].content = batch[b].plan
         /\ events'[Len(events) + 1].action = action
         /\ action = "promote" => Extends(batch[b].plan)
PROOF
<1> DEFINE e == [content |-> batch[b].plan, build |-> b, action |-> action]
<1>1. events \in Seq(Event) /\ Len(events) \in Nat \ {0} /\ batch[b] \in BatchRow
  BY EmptySeq DEF PubTypes
<1>2. e \in Event
  BY <1>1 DEF Event, BatchRow
<1>3. /\ events' = Append(events, e) /\ batch[b].build = "valid"
      /\ action = "promote" => Extends(batch[b].plan)
  BY DEF Activate
<1>4. /\ Len(events') = Len(events) + 1 /\ events'[Len(events) + 1] = e
      /\ \A n \in 1..Len(events) : events'[n] = events[n]
  BY <1>1, <1>2, <1>3, AppendProperties
<1>5. Active' = batch[b].plan
  BY <1>4 DEF Active, Last
<1>6. batch[b].plan \in sealed
  BY <1>3 DEF BatchKept
<1> QED
  BY <1>1, <1>3, <1>4, <1>5, <1>6

LEMMA QueueKeptByStep ==
  ASSUME PubTypes, PubTypes', QueueKept, ContentKept, BatchKept, [PNext]_pvars
  PROVE  QueueKept'
PROOF
<1>t. /\ Jobs \subseteq 1..MaxJobs /\ Len(paperOf) \in Nat /\ Jobs \subseteq Nat
      /\ claims \in [1..MaxJobs -> Seq(ClaimRow)] /\ MaxJobs \in Nat
      /\ \A j \in (1..MaxJobs) \ Jobs : claims[j] = <<>>
      /\ \A j \in Jobs : \A i \in DOMAIN claims[j] : ClaimKept(j, i)
      /\ Len(events) \in Nat
  BY PublicationAssumption DEF PubTypes, QueueKept, Jobs
<1>1. ASSUME NEW p \in Paper, Enqueue(p) PROVE QueueKept'
  <2>1. /\ Len(paperOf') = Len(paperOf) + 1 /\ Len(paperOf) < MaxJobs
        /\ \A j \in Jobs : paperOf'[j] = paperOf[j]
    BY <1>1, AppendProperties DEF Enqueue, PubTypes, Jobs
  <2>2. claims' = claims /\ events' = events
    BY <1>1 DEF Enqueue
  <2>3. Jobs' = Jobs \cup {Len(paperOf) + 1} /\ Len(paperOf) + 1 \in (1..MaxJobs) \ Jobs
    BY <1>t, <2>1 DEF Jobs
  <2>4. \A j \in (1..MaxJobs) \ Jobs' : claims'[j] = <<>>
    BY <1>t, <2>2, <2>3
  <2>5. ASSUME NEW j \in Jobs, NEW i \in DOMAIN claims[j] PROVE ClaimKept(j, i)'
    <3>1. Newer(j) \subseteq Newer(j)' /\ paperOf'[j] = paperOf[j] /\ Active' = Active
      BY <2>1, <2>2, <2>3 DEF Newer, Active
    <3>2. ClaimKept(j, i)
      BY <1>t, <2>5
    <3> QED
      BY <2>2, <3>1, <3>2 DEF ClaimKept
  <2>6. claims'[Len(paperOf) + 1] = <<>>
    BY <1>t, <2>2, <2>3
  <2> QED
    BY <1>t, <2>2, <2>3, <2>4, <2>5, <2>6, EmptySeq DEF QueueKept
<1>2. ASSUME \/ \E j \in Jobs : Expire(j)
             \/ SupersedePending
             \/ \E b \in Batch : \/ \E base \in sealed, J \in SUBSET Jobs : ClaimAndPlan(b, base, J)
                                 \/ FinishBatch(b) \/ RetryBatch(b)
      PROVE  QueueKept'
  <2>1. \A j \in 1..MaxJobs : ClaimsMove(j)
    BY <1>2, ClaimsMoved
  <2>2. paperOf' = paperOf /\ events' = events /\ Jobs' = Jobs
    BY <1>2 DEF Expire, SupersedePending, ClaimAndPlan, FinishBatch, RetryBatch, Jobs
  <2>3. \A j \in (1..MaxJobs) \ Jobs' : claims'[j] = <<>>
    BY <1>t, <2>1, <2>2 DEF ClaimsMove
  <2>4. \A j \in Jobs : \A i \in DOMAIN claims'[j] : ClaimKept(j, i)'
    BY <1>t, <2>1, <2>2, MoveKept
  <2> QED
    BY <2>2, <2>3, <2>4 DEF QueueKept
<1>3. ASSUME NEW b \in Batch \cup {Legacy}, NEW action \in {"promote", "rollback"}, Activate(b, action)
      PROVE  QueueKept'
  <2>1. /\ batch[b].plan \in DOMAIN made
        /\ Len(events') = Len(events) + 1 /\ Active' = batch[b].plan
        /\ \A n \in 1..Len(events) : events'[n] = events[n]
        /\ events'[Len(events) + 1].action = action
        /\ action = "promote" => Extends(batch[b].plan)
    BY <1>3, Activated DEF BatchKept
  <2>2. paperOf' = paperOf /\ claims' = claims /\ Jobs' = Jobs
    BY <1>3 DEF Activate, Jobs
  <2>3. ASSUME NEW j \in Jobs, NEW i \in DOMAIN claims[j] PROVE ClaimKept(j, i)'
    <3> DEFINE c == claims[j][i]
    <3>1. ClaimKept(j, i) /\ c.at \in Nat
      <4>1. claims[j] \in Seq(ClaimRow)
        BY <1>t
      <4>2. c \in ClaimRow
        BY <2>3, <4>1
      <4> QED
        BY <1>t, <2>3, <4>2 DEF ClaimRow
    <3>2. ASSUME c.result = "published",
                 \A n \in (c.at + 1)..Len(events') : events'[n].action = "promote"
          PROVE  Ver(Active', paperOf[j]) >= j
      <4>1. c.at <= Len(events)
        BY <3>1, <3>2 DEF ClaimKept
      <4>2. action = "promote"
        BY <1>t, <2>1, <3>1, <3>2, <4>1
      <4>3. \A n \in (c.at + 1)..Len(events) : events[n].action = "promote"
        BY <1>t, <2>1, <3>1, <3>2
      <4>4. Ver(Active, paperOf[j]) >= j
        BY <3>1, <3>2, <4>3 DEF ClaimKept
      <4>5. Ver(Active', paperOf[j]) >= Ver(Active, paperOf[j])
        BY <2>1, <4>2, PromotionForward
      <4>6. Active \in Content /\ batch[b].plan \in Content
        <5>1. Len(events) \in 1..Len(events)
          BY <1>t, EmptySeq DEF PubTypes
        <5>2. events[Len(events)] \in Event /\ DOMAIN made \subseteq Content
          BY <5>1 DEF PubTypes
        <5> QED
          BY <2>1, <5>2 DEF Active, Last, Event
      <4>7. Ver(Active, paperOf[j]) \in Nat /\ Ver(Active', paperOf[j]) \in Nat
        BY <2>1, <4>6, VerOf
      <4> QED
        BY <1>t, <4>4, <4>5, <4>7
    <3>3. Newer(j)' = Newer(j)
      BY <2>2 DEF Newer
    <3>4. c.result = "published" => c.at <= Len(events')
      BY <1>t, <2>1, <3>1 DEF ClaimKept
    <3> QED
      BY <2>2, <3>1, <3>2, <3>3, <3>4 DEF ClaimKept
  <2> QED
    BY <1>t, <2>2, <2>3 DEF QueueKept
<1>4. CASE UNCHANGED <<paperOf, claims, events>>
  BY <1>4 DEF QueueKept, ClaimKept, Newer, Active, Jobs
<1> QED
  <2>1. ASSUME NEW b \in Batch,
               Check(b) \/ AppendPartition(b) \/ SealContent(b) \/ Build(b) \/ Validate(b) \/ Interrupt(b)
        PROVE  QueueKept'
    BY <1>4, <2>1 DEF Check, AppendPartition, SealContent, Build, Validate, Interrupt
  <2>2. ASSUME NEW b \in Batch \cup {Legacy}, AcceptBuild(b) PROVE QueueKept'
    BY <1>4, <2>2 DEF AcceptBuild
  <2> QED
    BY <1>1, <1>2, <1>3, <1>4, <2>1, <2>2 DEF PNext, pvars

LEMMA ContentKeptByStep ==
  ASSUME PubTypes, PubTypes', ContentKept, BatchKept, [PNext]_pvars
  PROVE  ContentKept' /\ sealed \subseteq sealed' /\ DOMAIN made \subseteq DOMAIN made'
PROOF
<1>t. /\ paperOf \in Seq(Paper) /\ Len(paperOf) \in Nat /\ DOMAIN made \subseteq Content
      /\ sealed \subseteq DOMAIN made /\ made \in [DOMAIN made -> 0..Parts]
      /\ \A b \in Batch \cup {Legacy} : batch[b].plan \in DOMAIN made
  BY DEF PubTypes, BatchKept
<1>1. ASSUME NEW p \in Paper, Enqueue(p)
      PROVE  ContentKept' /\ sealed \subseteq sealed' /\ DOMAIN made \subseteq DOMAIN made'
  <2>1. /\ paperOf' \in Seq(Paper) /\ Len(paperOf') >= Len(paperOf)
        /\ \A j \in Jobs : paperOf'[j] = paperOf[j]
        /\ made' = made /\ sealed' = sealed
    BY <1>t, <1>1, AppendProperties DEF Enqueue, Jobs
  <2>2. \A C \in DOMAIN made : Ordered(C)'
    BY <1>t, <2>1, OrderedKept DEF ContentKept
  <2> QED
    BY <2>1, <2>2 DEF ContentKept
<1>2. ASSUME NEW b \in Batch, NEW base \in sealed, NEW J \in SUBSET Jobs, ClaimAndPlan(b, base, J)
      PROVE  ContentKept' /\ sealed \subseteq sealed' /\ DOMAIN made \subseteq DOMAIN made'
  <2>1. PICK f, C : Planned(C, base, f, J)
    BY <1>2, PlannedContent
  <2>2. paperOf' = paperOf /\ sealed' = sealed /\ DOMAIN made' = DOMAIN made \cup {C}
    BY <1>2, <2>1 DEF ClaimAndPlan, Planned
  <2>3. base \in Content /\ Ordered(base)
    BY <1>t DEF ContentKept
  <2>4. Ordered(C) /\ Front(C) = base
    BY <1>t, <2>1, <2>3, OrderedAppend, Appended DEF Planned
  <2>5. \A D \in DOMAIN made' : Ordered(D) /\ (D # <<>> => Front(D) \in sealed)
    BY <2>2, <2>4 DEF ContentKept
  <2> QED
    BY <2>2, <2>5 DEF ContentKept, Ordered, Jobs
<1>3. ASSUME NEW b \in Batch, AppendPartition(b)
      PROVE  ContentKept' /\ sealed \subseteq sealed' /\ DOMAIN made \subseteq DOMAIN made'
  <2>1. paperOf' = paperOf /\ sealed' = sealed /\ DOMAIN made' = DOMAIN made
    BY <1>3 DEF AppendPartition
  <2> QED
    BY <2>1 DEF ContentKept, Ordered, Jobs
<1>4. ASSUME NEW b \in Batch, SealContent(b)
      PROVE  ContentKept' /\ sealed \subseteq sealed' /\ DOMAIN made \subseteq DOMAIN made'
  <2>1. paperOf' = paperOf /\ sealed \subseteq sealed' /\ made' = made
    BY <1>4 DEF SealContent
  <2> QED
    BY <2>1 DEF ContentKept, Ordered, Jobs
<1>5. CASE UNCHANGED <<paperOf, made, sealed>>
  BY <1>5 DEF ContentKept, Ordered, Jobs
<1> QED
  <2>1. ASSUME NEW b \in Batch, \/ Check(b) \/ Build(b) \/ Validate(b)
                                \/ Interrupt(b) \/ FinishBatch(b) \/ RetryBatch(b)
        PROVE  UNCHANGED <<paperOf, made, sealed>>
    BY <2>1 DEF Check, Build, Validate, Interrupt, FinishBatch, RetryBatch
  <2>2. ASSUME NEW b \in Batch \cup {Legacy},
               AcceptBuild(b) \/ \E action \in {"promote", "rollback"} : Activate(b, action)
        PROVE  UNCHANGED <<paperOf, made, sealed>>
    BY <2>2 DEF AcceptBuild, Activate
  <2>3. ASSUME (\E j \in Jobs : Expire(j)) \/ SupersedePending PROVE UNCHANGED <<paperOf, made, sealed>>
    BY <2>3 DEF Expire, SupersedePending
  <2> QED
    BY <1>1, <1>2, <1>3, <1>4, <1>5, <2>1, <2>2, <2>3 DEF PNext, pvars

LEMMA SealedKeptByStep ==
  ASSUME PubTypes, ContentKept, SealedKept, BatchKept, [PNext]_pvars
  PROVE  SealedKept'
PROOF
<1>t. /\ DOMAIN made \subseteq Content /\ Parts \in Nat
      /\ sealed \subseteq DOMAIN made /\ made \in [DOMAIN made -> 0..Parts]
      /\ batch \in [Batch \cup {Legacy} -> BatchRow]
  BY PublicationAssumption DEF PubTypes
<1>1. ASSUME NEW b \in Batch, NEW base \in sealed, NEW J \in SUBSET Jobs, ClaimAndPlan(b, base, J)
      PROVE  SealedKept'
  <2>1. PICK f, C : Planned(C, base, f, J)
    BY <1>1, PlannedContent
  <2>2. sealed' = sealed /\ \A D \in sealed : made'[D] = made[D]
    BY <1>t, <1>1, <2>1 DEF ClaimAndPlan, Planned
  <2> QED
    BY <2>2 DEF SealedKept
<1>2. ASSUME NEW b \in Batch, AppendPartition(b) PROVE SealedKept'
  <2>1. batch[b].cursor \in 0..Parts /\ batch[b].cursor < Parts
    BY <1>t, <1>2 DEF AppendPartition, BatchRow
  <2>2. /\ sealed' = sealed
        /\ \A D \in DOMAIN made : D # batch[b].plan => made'[D] = made[D]
        /\ made[batch[b].plan] > batch[b].cursor => made'[batch[b].plan] = made[batch[b].plan]
    BY <1>t, <1>2 DEF AppendPartition
  <2>3. \A D \in sealed : made'[D] = made[D]
    BY <1>t, <2>1, <2>2 DEF SealedKept
  <2> QED
    BY <2>2, <2>3 DEF SealedKept
<1>3. ASSUME NEW b \in Batch, SealContent(b) PROVE SealedKept'
  <2> DEFINE C == batch[b].plan
  <2>1. sealed' = sealed \cup {C} /\ made' = made /\ made[C] = Parts
    BY <1>3 DEF SealContent
  <2>2. C \in Content /\ C \in DOMAIN made
    BY <1>t DEF BatchKept
  <2>3. \A i \in 0..Len(C) : SubSeq(C, 1, i) \in sealed \cup {C}
    <3>1. CASE C = <<>>
      <4>1. Len(C) = 0 /\ SubSeq(C, 1, 0) = <<>>
        BY <3>1, SubSeqEmpty
      <4> QED
        BY <3>1, <4>1
    <3>2. CASE C # <<>>
      <4>1. /\ Len(C) \in Nat \ {0} /\ Len(Front(C)) = Len(C) - 1
            /\ \A i \in 0..Len(C) - 1 : SubSeq(Front(C), 1, i) = SubSeq(C, 1, i)
            /\ SubSeq(C, 1, Len(C)) = C
        BY <2>2, <3>2, FrontOf
      <4>2. Front(C) \in sealed
        BY <2>2, <3>2 DEF ContentKept
      <4>3. \A i \in 0..Len(C) - 1 : SubSeq(C, 1, i) \in sealed
        BY <4>1, <4>2 DEF SealedKept
      <4>4. \A i \in 0..Len(C) : i = Len(C) \/ i \in 0..Len(C) - 1
        BY <4>1
      <4> QED
        BY <4>1, <4>3, <4>4
    <3> QED
      BY <3>1, <3>2
  <2>4. ASSUME NEW D \in sealed' PROVE made'[D] = Parts /\ \A i \in 0..Len(D) : SubSeq(D, 1, i) \in sealed'
    BY <2>1, <2>3, <2>4 DEF SealedKept
  <2> QED
    BY <2>4 DEF SealedKept
<1>4. CASE UNCHANGED <<made, sealed>>
  BY <1>4 DEF SealedKept
<1> QED
  <2>1. ASSUME NEW b \in Batch, \/ Check(b) \/ Build(b) \/ Validate(b)
                                \/ Interrupt(b) \/ FinishBatch(b) \/ RetryBatch(b)
        PROVE  UNCHANGED <<made, sealed>>
    BY <2>1 DEF Check, Build, Validate, Interrupt, FinishBatch, RetryBatch
  <2>2. ASSUME NEW b \in Batch \cup {Legacy},
               AcceptBuild(b) \/ \E action \in {"promote", "rollback"} : Activate(b, action)
        PROVE  UNCHANGED <<made, sealed>>
    BY <2>2 DEF AcceptBuild, Activate
  <2>3. ASSUME (\E j \in Jobs : Expire(j)) \/ SupersedePending \/ \E p \in Paper : Enqueue(p)
        PROVE  UNCHANGED <<made, sealed>>
    BY <2>3 DEF Expire, SupersedePending, Enqueue
  <2> QED
    BY <1>1, <1>2, <1>3, <1>4, <2>1, <2>2, <2>3 DEF PNext, pvars

LEMMA EventsKeptByStep ==
  ASSUME PubTypes, BatchKept, EventsKept, sealed \subseteq sealed', [PNext]_pvars
  PROVE  EventsKept'
PROOF
<1>1. ASSUME NEW b \in Batch \cup {Legacy}, NEW action \in {"promote", "rollback"}, Activate(b, action)
      PROVE  EventsKept'
  <2>1. /\ batch[b].plan \in sealed /\ Len(events) \in Nat \ {0}
        /\ Len(events') = Len(events) + 1
        /\ \A n \in 1..Len(events) : events'[n] = events[n]
        /\ events'[Len(events) + 1].content = batch[b].plan
    BY <1>1, Activated
  <2>2. events \in Seq(Event) /\ events' \in Seq(Event) /\ sealed' = sealed
    <3>1. events' = Append(events, [content |-> batch[b].plan, build |-> b, action |-> action])
      BY <1>1 DEF Activate
    <3>2. [content |-> batch[b].plan, build |-> b, action |-> action] \in Event
      BY DEF PubTypes, BatchRow, Event
    <3> QED
      BY <1>1, <3>1, <3>2, AppendProperties DEF PubTypes, Activate
  <2>3. \A n \in DOMAIN events' : n = Len(events) + 1 \/ n \in 1..Len(events)
    BY <2>1, <2>2
  <2>4. DOMAIN events = 1..Len(events)
    BY <2>2
  <2> QED
    BY <2>1, <2>2, <2>3, <2>4 DEF EventsKept
<1>2. CASE events' = events
  BY <1>2 DEF EventsKept
<1> QED
  <2>1. ASSUME NEW b \in Batch,
               \/ \E base \in sealed, J \in SUBSET Jobs : ClaimAndPlan(b, base, J)
               \/ Check(b) \/ AppendPartition(b) \/ SealContent(b) \/ Build(b) \/ Validate(b)
               \/ Interrupt(b) \/ FinishBatch(b) \/ RetryBatch(b)
        PROVE  events' = events
    BY <2>1 DEF ClaimAndPlan, Check, AppendPartition, SealContent, Build, Validate, Interrupt,
                FinishBatch, RetryBatch
  <2>2. ASSUME NEW b \in Batch \cup {Legacy}, AcceptBuild(b) PROVE events' = events
    BY <2>2 DEF AcceptBuild
  <2>3. ASSUME (\E j \in Jobs : Expire(j)) \/ SupersedePending \/ \E p \in Paper : Enqueue(p)
        PROVE  events' = events
    BY <2>3 DEF Expire, SupersedePending, Enqueue
  <2> QED
    BY <1>1, <1>2, <2>1, <2>2, <2>3 DEF PNext, pvars

\* What must be shown of one row when only that row of the batches changes.
LEMMA OneRow ==
  ASSUME BatchKept, PubTypes, NEW b \in Batch \cup {Legacy},
         \A c \in (Batch \cup {Legacy}) \ {b} : batch'[c] = batch[c],
         sealed \subseteq sealed', DOMAIN made \subseteq DOMAIN made',
         batch'[b].plan \in DOMAIN made',
         batch'[b].checked => batch'[b].jobs # {},
         batch'[b].build # "none" => batch'[b].plan \in sealed' /\ (b = Legacy \/ batch'[b].jobs # {})
  PROVE  BatchKept'
PROOF
<1>1. ASSUME NEW c \in Batch \cup {Legacy}
      PROVE  /\ batch'[c].plan \in DOMAIN made'
             /\ batch'[c].checked => batch'[c].jobs # {}
             /\ batch'[c].build # "none" =>
                  batch'[c].plan \in sealed' /\ (c = Legacy \/ batch'[c].jobs # {})
  BY <1>1 DEF BatchKept
<1> QED
  BY <1>1 DEF BatchKept

LEMMA BatchKeptByStep ==
  ASSUME PubTypes, BatchKept, [PNext]_pvars,
         sealed \subseteq sealed', DOMAIN made \subseteq DOMAIN made'
  PROVE  BatchKept'
PROOF
<1>t. batch \in [Batch \cup {Legacy} -> BatchRow] /\ Legacy \notin Batch
  BY PublicationAssumption DEF PubTypes
<1>b. ASSUME NEW b \in Batch \cup {Legacy}
      PROVE  /\ batch[b].plan \in DOMAIN made
             /\ batch[b].checked => batch[b].jobs # {}
             /\ batch[b].build # "none" =>
                  batch[b].plan \in sealed /\ (b = Legacy \/ batch[b].jobs # {})
             /\ batch[b] \in BatchRow
  BY <1>t DEF BatchKept
<1>1. ASSUME NEW b \in Batch, NEW base \in sealed, NEW J \in SUBSET Jobs, ClaimAndPlan(b, base, J)
      PROVE  BatchKept'
  <2>1. PICK f, C : /\ Planned(C, base, f, J)
                    /\ batch' = [batch EXCEPT ![b].plan = C, ![b].jobs = J]
    BY <1>1, PlannedContent
  <2>2. C \in DOMAIN made' /\ J # {} /\ batch[b].jobs = {} /\ b # Legacy
    BY <1>t, <1>1, <2>1 DEF Planned, ClaimAndPlan
  <2>3. batch[b].build = "none" /\ batch[b] \in BatchRow
    BY <1>b, <2>2
  <2>4. /\ batch'[b].plan = C /\ batch'[b].jobs = J /\ batch'[b].build = "none"
        /\ \A c \in (Batch \cup {Legacy}) \ {b} : batch'[c] = batch[c]
    BY <1>t, <2>1, <2>3 DEF BatchRow
  <2> QED
    BY <2>2, <2>4, OneRow
<1>2. ASSUME NEW b \in Batch \cup {Legacy}, Check(b) PROVE BatchKept'
  <2>1. /\ batch'[b].plan = batch[b].plan /\ batch'[b].jobs = batch[b].jobs
        /\ batch'[b].build = batch[b].build /\ batch[b].jobs # {}
        /\ \A c \in (Batch \cup {Legacy}) \ {b} : batch'[c] = batch[c]
    BY <1>t, <1>2 DEF Check, Usable, BatchRow
  <2> QED
    BY <1>b, <2>1, OneRow
<1>3. ASSUME NEW b \in Batch \cup {Legacy}, Build(b) \/ Validate(b) PROVE BatchKept'
  <2>1. /\ batch'[b].plan = batch[b].plan /\ batch'[b].jobs = batch[b].jobs
        /\ batch[b].plan \in sealed /\ batch[b].jobs # {}
        /\ \A c \in (Batch \cup {Legacy}) \ {b} : batch'[c] = batch[c]
    BY <1>t, <1>b, <1>3 DEF Build, Validate, BatchRow
  <2> QED
    BY <1>b, <2>1, OneRow
<1>4. ASSUME NEW b \in Batch \cup {Legacy},
             Interrupt(b) \/ AcceptBuild(b) \/ AppendPartition(b) \/ SealContent(b)
      PROVE  BatchKept'
  <2>1. /\ batch'[b].plan = batch[b].plan /\ batch'[b].jobs = batch[b].jobs
        /\ batch'[b].build = batch[b].build
        /\ batch'[b].checked => batch[b].checked
        /\ \A c \in (Batch \cup {Legacy}) \ {b} : batch'[c] = batch[c]
    BY <1>t, <1>4 DEF Interrupt, AcceptBuild, AppendPartition, SealContent, BatchRow
  <2> QED
    BY <1>b, <2>1, OneRow
<1>5. ASSUME NEW b \in Batch \cup {Legacy}, NEW action \in {"promote", "rollback"}, Activate(b, action)
      PROVE  BatchKept'
  <2>1. ASSUME NEW c \in Batch \cup {Legacy}
        PROVE  /\ batch'[c].plan = batch[c].plan /\ batch'[c].jobs = batch[c].jobs
               /\ batch'[c].build = batch[c].build /\ batch'[c].checked = batch[c].checked
    BY <1>t, <1>5 DEF Activate, BatchRow
  <2> QED
    BY <1>b, <2>1 DEF BatchKept
<1>6. CASE batch' = batch
  BY <1>b, <1>6 DEF BatchKept
<1> QED
  <2>1. ASSUME NEW b \in Batch, FinishBatch(b) \/ RetryBatch(b) PROVE batch' = batch
    BY <2>1 DEF FinishBatch, RetryBatch
  <2>2. ASSUME (\E j \in Jobs : Expire(j)) \/ SupersedePending \/ \E p \in Paper : Enqueue(p)
        PROVE  batch' = batch
    BY <2>2 DEF Expire, SupersedePending, Enqueue
  <2> QED
    BY <1>1, <1>2, <1>3, <1>4, <1>5, <1>6, <2>1, <2>2 DEF PNext, pvars
-----------------------------------------------------------------------------
(* The invariant, and what it says of the properties. *)

LEMMA PubInit == PInit => PubInv
PROOF
<1> SUFFICES ASSUME PInit PROVE PubInv
  OBVIOUS
<1> DEFINE e == [content |-> <<>>, build |-> Legacy, action |-> "promote"]
<1>1. <<>> \in Content /\ e \in Event /\ Parts \in Nat /\ MaxJobs \in Nat
  BY PublicationAssumption DEF Content, Event
<1>2. /\ paperOf = <<>> /\ claims = [j \in 1..MaxJobs |-> <<>>]
      /\ made = [C \in {<<>>} |-> Parts] /\ sealed = {<<>>} /\ events = <<e>>
      /\ batch = [b \in Batch \cup {Legacy} |->
                    IF b = Legacy THEN [Unplanned EXCEPT !.build = "valid"] ELSE Unplanned]
  BY DEF PInit
<1>3. Unplanned \in BatchRow /\ [Unplanned EXCEPT !.build = "valid"] \in BatchRow
  <2>1. 0 \in 0..Parts
    BY <1>1
  <2>2. Unplanned \in BatchRow
    BY <1>1, <2>1 DEF Unplanned, BatchRow
  <2>3. \A r \in BatchRow : [r EXCEPT !.build = "valid"] \in BatchRow
    BY DEF BatchRow
  <2> QED
    BY <2>2, <2>3
<1>4. PubTypes
  <2>1. batch \in [Batch \cup {Legacy} -> BatchRow]
    BY <1>2, <1>3
  <2>2. events \in Seq(Event) /\ events # <<>>
    BY <1>1, <1>2
  <2>3. made \in [DOMAIN made -> 0..Parts] /\ sealed \subseteq DOMAIN made /\ DOMAIN made \subseteq Content
    BY <1>1, <1>2
  <2>4. claims \in [1..MaxJobs -> Seq(ClaimRow)] /\ paperOf \in Seq(Paper) /\ Len(paperOf) <= MaxJobs
    BY <1>1, <1>2
  <2> QED
    BY <2>1, <2>2, <2>3, <2>4 DEF PubTypes
<1>5. QueueKept
  BY <1>2 DEF QueueKept, Jobs
<1>6. ContentKept
  BY <1>2 DEF ContentKept, Ordered
<1>7. SealedKept
  BY <1>1, <1>2, SubSeqEmpty DEF SealedKept
<1>8. BatchKept
  <2>1. ASSUME NEW b \in Batch \cup {Legacy}
        PROVE  /\ batch[b].plan = <<>> /\ ~batch[b].checked
               /\ batch[b].build # "none" => b = Legacy
    BY <1>2 DEF Unplanned
  <2>2. <<>> \in DOMAIN made /\ <<>> \in sealed
    BY <1>2
  <2> QED
    BY <2>1, <2>2 DEF BatchKept
<1>9. EventsKept
  BY <1>2 DEF EventsKept
<1> QED
  BY <1>4, <1>5, <1>6, <1>7, <1>8, <1>9 DEF PubInv

LEMMA PubStep == PubInv /\ [PNext]_pvars => PubInv'
PROOF
<1> SUFFICES ASSUME PubInv, [PNext]_pvars PROVE PubInv'
  OBVIOUS
<1>1. PubTypes'
  BY TypesKept DEF PubInv
<1>2. QueueKept'
  BY <1>1, QueueKeptByStep DEF PubInv
<1>3. ContentKept' /\ sealed \subseteq sealed' /\ DOMAIN made \subseteq DOMAIN made'
  BY <1>1, ContentKeptByStep DEF PubInv
<1>4. SealedKept'
  BY SealedKeptByStep DEF PubInv
<1>5. BatchKept'
  BY <1>3, BatchKeptByStep DEF PubInv
<1>6. EventsKept'
  BY <1>3, EventsKeptByStep DEF PubInv
<1> QED
  BY <1>1, <1>2, <1>3, <1>4, <1>5, <1>6 DEF PubInv

LEMMA PubAlways == PSpec => []PubInv
PROOF
  BY PubInit, PubStep, PTL DEF PSpec

\* The last publication of a paper is never superseded.
LEMMA LastWord ==
  ASSUME PubTypes, QueueKept
  PROVE  LastWordKept
PROOF
<1> SUFFICES ASSUME NEW j \in Jobs
             PROVE  \E k \in Jobs :
                      /\ k >= j /\ paperOf[k] = paperOf[j]
                      /\ \A i \in DOMAIN claims[k] : claims[k][i].result # "superseded"
  BY DEF LastWordKept
<1> DEFINE S == {k \in Jobs : k >= j /\ paperOf[k] = paperOf[j]}
<1>1. Len(paperOf) \in Nat /\ S \subseteq 1..Len(paperOf) /\ j \in S
  BY DEF PubTypes, Jobs
<1>2. Max(S) \in S /\ \A k \in S : Max(S) >= k
  BY <1>1, MaxOf
<1>3. PICK m \in S : \A k \in S : m >= k
  BY <1>2
<1>4. Newer(m) = {}
  <2>1. ASSUME NEW k \in Newer(m) PROVE FALSE
    <3>1. k \in Jobs /\ k > m /\ paperOf[k] = paperOf[m]
      BY <2>1 DEF Newer
    <3>2. k \in S
      BY <1>1, <3>1 DEF Jobs
    <3> QED
      BY <1>1, <1>3, <3>1, <3>2
  <2> QED
    BY <2>1
<1>5. \A i \in DOMAIN claims[m] : claims[m][i].result # "superseded"
  BY <1>4 DEF QueueKept, ClaimKept
<1> QED
  BY <1>5

\* Among the claims of a publication, retried, expired and superseding ones,
\* only the last can be open or final, and a superseded publication always
\* has a later one of its paper that is not.
THEOREM PublicationsAnswered == PSpec => []JobsAnswered
PROOF
<1>1. PubInv => JobsAnswered
  <2> SUFFICES ASSUME PubInv PROVE JobsAnswered
    OBVIOUS
  <2>1. PubTypes /\ QueueKept
    BY DEF PubInv
  <2>2. OneAnswer
    BY <2>1 DEF QueueKept, ClaimKept, OneAnswer
  <2> QED
    BY <2>1, <2>2, LastWord DEF JobsAnswered
<1> QED
  BY <1>1, PubAlways, PTL

\* What was ever activated is sealed down to the legacy content, with every
\* partition, and what was reported as published is served until a rollback.
THEOREM PublicationsServed == PSpec => []ServedIsWhole
PROOF
<1>1. PubInv => ServedIsWhole
  <2> SUFFICES ASSUME PubInv PROVE ServedIsWhole
    OBVIOUS
  <2>1. ActiveIsWhole
    BY DEF PubInv, EventsKept, SealedKept, ActiveIsWhole
  <2>2. PublishedIsServed
    BY DEF PubInv, QueueKept, ClaimKept, PublishedIsServed
  <2> QED
    BY <2>1, <2>2 DEF ServedIsWhole
<1> QED
  BY <1>1, PubAlways, PTL

\* Whatever was planned and promoted meanwhile, a promotion takes no paper
\* back to an older publication.
THEOREM PromotionsGoForward == PSpec => ForwardOnly
PROOF
<1>1. PubInv /\ [PNext]_pvars =>
        [Len(events') > Len(events) /\ Last(events').action = "promote"
         => \A p \in Paper : Ver(Last(events').content, p) >= Ver(Active, p)]_pvars
  <2> SUFFICES ASSUME PubInv, PNext, Len(events') > Len(events), Last(events').action = "promote",
                      NEW p \in Paper
               PROVE  Ver(Last(events').content, p) >= Ver(Active, p)
    OBVIOUS
  <2>1. PubTypes /\ ContentKept /\ BatchKept
    BY DEF PubInv
  <2>2. PICK b \in Batch \cup {Legacy}, action \in {"promote", "rollback"} : Activate(b, action)
    <3>1. events' # events
      BY <2>1 DEF PubTypes
    <3> QED
      BY <3>1 DEF PNext, Enqueue, Expire, SupersedePending, ClaimAndPlan, Check, AppendPartition,
                  SealContent, Build, Validate, Interrupt, FinishBatch, RetryBatch, AcceptBuild
  <2>3. /\ batch[b].plan \in sealed /\ Len(events) \in Nat
        /\ Len(events') = Len(events) + 1
        /\ events'[Len(events) + 1].content = batch[b].plan
        /\ events'[Len(events) + 1].action = action
        /\ action = "promote" => Extends(batch[b].plan)
    BY <2>1, <2>2, Activated
  <2>4. Last(events').content = batch[b].plan /\ Extends(batch[b].plan)
    BY <2>3 DEF Last
  <2>5. batch[b].plan \in DOMAIN made
    BY <2>1, <2>3 DEF PubTypes
  <2> QED
    BY <2>1, <2>4, <2>5, PromotionForward
<1> QED
  BY <1>1, PubAlways, PTL DEF PSpec, ForwardOnly
=============================================================================
