--------------------------- MODULE FeatureListsProofs ---------------------------
(***************************************************************************)
(* The parts of MCFeatures that keep lists of any length, for every value of  *)
(* their constants: the attempts at a scenario, the notices and the answer    *)
(* suggestions.  The other parts are in FeaturesProofs.                       *)
(***************************************************************************)
EXTENDS MCFeatures, KeptEntries, Integers, Sequences, FiniteSetTheorems, WellFoundedInduction, TLAPS

\* Every step is one of the part that runs, or leaves it alone.
LEMMA PartSteps ==
  ASSUME [Next]_vars
  PROVE  /\ part' = part
         /\ part = "scenario" => [Scenario!Next]_(Scenario!vars)
         /\ part = "notices" => [Notices!Next]_(Notices!vars)
         /\ part = "moderation" => [Answers!Next]_(Answers!vars)
  BY DEF Next, vars, Scenario!vars, Notices!vars, Answers!vars

-----------------------------------------------------------------------------
(* Lists                                                                   *)

\* A sequence with its entry i replaced.
LEMMA ReplacedEntry ==
  ASSUME NEW S, NEW es \in Seq(S), NEW i \in DOMAIN es, NEW e \in S
  PROVE  /\ [es EXCEPT ![i] = e] \in Seq(S)
         /\ DOMAIN [es EXCEPT ![i] = e] = DOMAIN es
         /\ Len([es EXCEPT ![i] = e]) = Len(es)
         /\ \A j \in DOMAIN es : [es EXCEPT ![i] = e][j] = IF j = i THEN e ELSE es[j]
<1>1. PICK fs : fs = [es EXCEPT ![i] = e]
  OBVIOUS
<1>2. es \in [1 .. Len(es) -> S] /\ Len(es) \in Nat /\ DOMAIN es = 1 .. Len(es)
  OBVIOUS
<1>3. fs \in [1 .. Len(es) -> S]
  BY <1>1, <1>2
<1>4. fs \in Seq(S) /\ Len(fs) = Len(es)
  BY <1>2, <1>3
<1> QED BY <1>1, <1>2, <1>3, <1>4

\* A sequence with an entry after it.
LEMMA AppendedEntry ==
  ASSUME NEW S, NEW es \in Seq(S), NEW e \in S
  PROVE  /\ Append(es, e) \in Seq(S) /\ Len(Append(es, e)) = Len(es) + 1
         /\ DOMAIN Append(es, e) = DOMAIN es \cup {Len(es) + 1}
         /\ Append(es, e)[Len(es) + 1] = e
         /\ \A i \in DOMAIN es : Append(es, e)[i] = es[i]
  OBVIOUS

\* The least of a set of numbers.
LEMMA LeastOne ==
  ASSUME NEW S \in SUBSET Nat, S # {}
  PROVE  \E m \in S : \A n \in S : m <= n
<1>1. IsWellFoundedOn(OpToRel(<, Nat), Nat)
  BY NatLessThanWellFounded
<1>2. PICK m \in S : \A n \in S : ~ (<<n, m>> \in OpToRel(<, Nat))
  BY <1>1, WFMin
<1>3. \A n \in S : m <= n
  <2> SUFFICES ASSUME NEW n \in S, n < m
               PROVE  FALSE
    BY SMT
  <2>1. <<n, m>> \in {ss \in Nat \X Nat : ss[1] < ss[2]}
    BY SMT
  <2> QED BY <1>2, <2>1 DEF OpToRel
<1> QED BY <1>3

\* A function is there that begins with base and goes on with step.
LEMMA Iteration ==
  ASSUME NEW T, NEW base \in T, NEW n \in Nat, NEW step \in [1 .. n -> [T -> T]]
  PROVE  \E F \in [0 .. n -> T] : F[0] = base /\ \A k \in 1 .. n : F[k] = step[k][F[k - 1]]
<1> DEFINE Goes(F, k) == F[0] = base /\ \A j \in 1 .. k : F[j] = step[j][F[j - 1]]
           lacking == {k \in 0 .. n : ~ \E F \in [0 .. k -> T] : Goes(F, k)}
<1>1. ASSUME lacking # {} PROVE FALSE
  <2>1. lacking \in SUBSET Nat
    OBVIOUS
  <2>2. PICK k \in lacking : \A j \in lacking : k <= j
    <3> HIDE DEF lacking
    <3> QED BY <1>1, <2>1, LeastOne
  <2>3. k \in 0 .. n /\ ~ \E F \in [0 .. k -> T] : Goes(F, k)
    BY <2>2
  <2>4. CASE k = 0
    <3>1. PICK F : F = [i \in 0 .. 0 |-> base]
      OBVIOUS
    <3>2. F \in [0 .. k -> T] /\ Goes(F, k)
      BY <2>4, <3>1
    <3> QED BY <2>3, <3>2
  <2>5. CASE k # 0
    <3>1. k - 1 \in 0 .. n /\ k - 1 \notin lacking
      BY <2>2, <2>3, <2>5
    <3>2. PICK F \in [0 .. k - 1 -> T] : Goes(F, k - 1)
      BY <3>1
    <3>3. step[k][F[k - 1]] \in T
      <4>1. k \in 1 .. n /\ F[k - 1] \in T
        BY <2>3, <2>5, <3>2
      <4> QED BY <4>1
    <3>4. PICK G : G = [i \in 0 .. k |-> IF i = k THEN step[k][F[k - 1]] ELSE F[i]]
      OBVIOUS
    <3>5. G \in [0 .. k -> T]
      BY <2>3, <3>3, <3>4
    <3>6. ASSUME NEW j \in 1 .. k PROVE G[j] = step[j][G[j - 1]]
      <4>1. j - 1 \in 0 .. k /\ j - 1 # k /\ G[j - 1] = F[j - 1]
        BY <2>3, <3>4
      <4>2. CASE j = k
        BY <3>4, <4>1, <4>2
      <4>3. CASE j # k
        BY <2>3, <3>2, <3>4, <4>1, <4>3
      <4> QED BY <4>2, <4>3
    <3>7. G[0] = base
      BY <2>3, <2>5, <3>2, <3>4
    <3> QED BY <2>3, <3>5, <3>6, <3>7
  <2> QED BY <2>4, <2>5
<1>2. n \in 0 .. n /\ n \notin lacking
  BY <1>1
<1> QED BY <1>2

\* The entries that are kept, up to each of the indices.
LEMMA KeptSteps ==
  ASSUME NEW S, NEW list \in Seq(S), NEW indices
  PROVE  \E F \in [0 .. Len(list) -> Seq(S)] :
           /\ F[0] = <<>>
           /\ \A k \in 1 .. Len(list) :
                F[k] = IF k \in indices THEN Append(F[k - 1], list[k]) ELSE F[k - 1]
           /\ Kept(list, indices) = F[Len(list)]
<1>1. PICK n \in Nat : n = Len(list)
  OBVIOUS
<1>2. \A k \in 1 .. n : list[k] \in S
  BY <1>1
<1> DEFINE Rec(F) == [k \in 0 .. n |-> IF k = 0 THEN <<>>
                       ELSE IF k \in indices THEN Append(F[k - 1], list[k]) ELSE F[k - 1]]
<1>3. PICK T : T = Seq(S)
  OBVIOUS
<1>4. PICK step : step = [k \in 1 .. n |-> [z \in T |-> IF k \in indices THEN Append(z, list[k]) ELSE z]]
  OBVIOUS
<1>5. step \in [1 .. n -> [T -> T]]
  <2>1. ASSUME NEW k \in 1 .. n, NEW z \in T
        PROVE  (IF k \in indices THEN Append(z, list[k]) ELSE z) \in T
    <3>1. Append(z, list[k]) \in Seq(S)
      BY <1>2, <1>3
    <3> QED BY <1>3, <3>1
  <2> QED BY <1>4, <2>1
<1>6. <<>> \in T
  BY <1>3
<1>7. PICK F0 \in [0 .. n -> T] : F0[0] = <<>> /\ \A k \in 1 .. n : F0[k] = step[k][F0[k - 1]]
  <2> HIDE DEF Rec
  <2>1. n \in Nat
    BY <1>1
  <2> QED BY <1>5, <1>6, <2>1, Iteration, SMTT(20)
<1>8. F0 = Rec(F0)
  <2>1. ASSUME NEW k \in 0 .. n
        PROVE  F0[k] = IF k = 0 THEN <<>>
                       ELSE IF k \in indices THEN Append(F0[k - 1], list[k]) ELSE F0[k - 1]
    <3>1. CASE k = 0
      BY <1>7, <3>1
    <3>2. CASE k # 0
      <4>1. k \in 1 .. n /\ k - 1 \in 0 .. n
        BY <3>2
      <4>2. PICK before \in T : before = F0[k - 1]
        BY <1>7, <4>1
      <4>3. F0[k] = step[k][before]
        BY <1>7, <4>1, <4>2
      <4>5. step[k][before] = IF k \in indices THEN Append(before, list[k]) ELSE before
        BY <1>4, <4>1, <4>2
      <4> QED BY <3>2, <4>2, <4>3, <4>5
    <3> QED BY <3>1, <3>2
  <2>2. Rec(F0) = [k \in 0 .. n |-> F0[k]]
    BY <2>1
  <2>3. F0 = [k \in 0 .. n |-> F0[k]]
    BY <1>7
  <2> QED BY <2>2, <2>3
<1>9. PICK F : F = CHOOSE f : f = Rec(f)
  OBVIOUS
<1>10. F = Rec(F)
  <2> HIDE DEF Rec
  <2> QED BY <1>8, <1>9
<1>11. Kept(list, indices) = F[n]
  BY <1>1, <1>9 DEF Kept
<1>12. \A g : \A k \in 0 .. n : Rec(g)[k] = IF k = 0 THEN <<>>
                       ELSE IF k \in indices THEN Append(g[k - 1], list[k]) ELSE g[k - 1]
  OBVIOUS
<1>13. DOMAIN F = 0 .. n /\ F = [k \in 0 .. n |-> F[k]]
  <2>1. \A g : DOMAIN Rec(g) = 0 .. n /\ Rec(g) = [k \in 0 .. n |-> Rec(g)[k]]
    OBVIOUS
  <2> HIDE DEF Rec
  <2> QED BY <1>10, <2>1
<1> HIDE DEF Rec
<1>14. \A k \in 0 .. n : F[k] = IF k = 0 THEN <<>>
                       ELSE IF k \in indices THEN Append(F[k - 1], list[k]) ELSE F[k - 1]
  BY <1>10, <1>12
<1>15. /\ F[0] = <<>>
       /\ \A k \in 1 .. n : F[k] = IF k \in indices THEN Append(F[k - 1], list[k]) ELSE F[k - 1]
  <2>1. 0 \in 0 .. n /\ \A k \in 1 .. n : k \in 0 .. n /\ k # 0
    OBVIOUS
  <2> QED BY <1>14, <2>1, Zenon
<1>16. \A k \in 0 .. n : F[k] \in Seq(S)
  <2> DEFINE wrong == {k \in 0 .. n : F[k] \notin Seq(S)}
  <2>1. ASSUME wrong # {} PROVE FALSE
    <3>1. wrong \in SUBSET Nat
      OBVIOUS
    <3>2. PICK k \in wrong : \A j \in wrong : k <= j
      <4> HIDE DEF wrong
      <4> QED BY <2>1, <3>1, LeastOne
    <3>3. k \in 0 .. n /\ F[k] \notin Seq(S)
      BY <3>2
    <3>4. k # 0
      <4>1. <<>> \in Seq(S)
        OBVIOUS
      <4> QED BY <1>15, <3>3, <4>1
    <3>5. k \in 1 .. n /\ k - 1 \in 0 .. n /\ ~ (k <= k - 1)
      BY <3>3, <3>4
    <3>6. F[k - 1] \in Seq(S)
      BY <3>2, <3>5
    <3>7. list[k] \in S /\ Append(F[k - 1], list[k]) \in Seq(S)
      BY <1>2, <3>5, <3>6
    <3> QED BY <1>15, <3>3, <3>5, <3>6, <3>7
  <2> QED BY <2>1
<1>17. F \in [0 .. n -> Seq(S)]
  BY <1>13, <1>16
<1> QED BY <1>1, <1>11, <1>15, <1>17, Zenon

\* What is kept comes from the indices, every one of them, in their order.
LEMMA KeptInOrder ==
  ASSUME NEW S, NEW list \in Seq(S), NEW indices \in SUBSET (1 .. Len(list))
  PROVE  /\ Kept(list, indices) \in Seq(S)
         /\ \E of \in [1 .. Len(Kept(list, indices)) -> indices] :
              /\ \A k \in 1 .. Len(Kept(list, indices)) : Kept(list, indices)[k] = list[of[k]]
              /\ \A j, k \in 1 .. Len(Kept(list, indices)) : j < k => of[j] < of[k]
              /\ \A i \in indices : \E k \in 1 .. Len(Kept(list, indices)) : of[k] = i
<1> DEFINE Embeds(of, z, top) ==
             /\ of \in [1 .. Len(z) -> {i \in indices : i <= top}]
             /\ \A k \in 1 .. Len(z) : z[k] = list[of[k]]
             /\ \A j, k \in 1 .. Len(z) : j < k => of[j] < of[k]
             /\ \A i \in indices : i <= top => \E k \in 1 .. Len(z) : of[k] = i
<1>1. Len(list) \in Nat
  OBVIOUS
<1>2. PICK F \in [0 .. Len(list) -> Seq(S)] :
        /\ F[0] = <<>>
        /\ \A k \in 1 .. Len(list) : F[k] = IF k \in indices THEN Append(F[k - 1], list[k]) ELSE F[k - 1]
        /\ Kept(list, indices) = F[Len(list)]
  BY KeptSteps
<1> DEFINE lacking == {n \in 0 .. Len(list) : ~ \E of : Embeds(of, F[n], n)}
<1>3. ASSUME lacking # {} PROVE FALSE
  <2>1. lacking \in SUBSET Nat
    BY <1>1
  <2>2. PICK n \in lacking : \A m \in lacking : n <= m
    <3> HIDE DEF lacking
    <3> QED BY <1>3, <2>1, LeastOne
  <2>3. n \in 0 .. Len(list) /\ ~ \E of : Embeds(of, F[n], n)
    BY <2>2
  <2>4. CASE n = 0
    <3>1. PICK of : of = [k \in 1 .. 0 |-> 0]
      OBVIOUS
    <3>2. F[n] = <<>> /\ Len(F[n]) = 0
      BY <1>2, <2>4
    <3>3. Embeds(of, F[n], n)
      BY <1>1, <2>4, <3>1, <3>2
    <3> QED BY <2>3, <3>3
  <2>5. CASE n # 0
    <3>1. n - 1 \in 0 .. Len(list) /\ n \in 1 .. Len(list) /\ n - 1 \notin lacking
      <4> HIDE DEF lacking
      <4> QED BY <1>1, <2>2, <2>3, <2>5
    <3>2. PICK of : Embeds(of, F[n - 1], n - 1)
      BY <3>1
    <3>3. PICK z : z = F[n - 1]
      OBVIOUS
    <3>4. z \in Seq(S) /\ Len(z) \in Nat /\ Embeds(of, z, n - 1)
      BY <1>2, <3>1, <3>2, <3>3
    <3>5. CASE n \notin indices
      <4>1. F[n] = z
        BY <1>2, <3>1, <3>3, <3>5
      <4>2. \A i \in indices : i <= n <=> i <= n - 1
        BY <1>1, <3>1, <3>5
      <4>3. Embeds(of, z, n)
        BY <3>4, <4>2
      <4> QED BY <2>3, <4>1, <4>3
    <3>6. CASE n \in indices
      <4>1. PICK y : y = Append(z, list[n])
        OBVIOUS
      <4>2. F[n] = y
        BY <1>2, <3>1, <3>3, <3>6, <4>1
      <4>3. /\ Len(y) = Len(z) + 1 /\ y[Len(z) + 1] = list[n]
            /\ \A k \in 1 .. Len(z) : y[k] = z[k]
        BY <3>1, <3>4, <4>1
      <4>4. PICK on : on = [k \in 1 .. Len(z) + 1 |-> IF k = Len(z) + 1 THEN n ELSE of[k]]
        OBVIOUS
      <4>5. on \in [1 .. Len(y) -> {i \in indices : i <= n}]
        <5>1. \A k \in 1 .. Len(z) : k # Len(z) + 1 /\ of[k] \in indices /\ of[k] <= n - 1 /\ of[k] <= n
          <6>1. ASSUME NEW k \in 1 .. Len(z)
                PROVE  k # Len(z) + 1 /\ of[k] \in indices /\ of[k] <= n - 1 /\ of[k] <= n
            <7>1. of[k] \in {i \in indices : i <= n - 1}
              BY <3>4
            <7>2. of[k] \in 1 .. Len(list) /\ of[k] <= n - 1
              BY <7>1
            <7> QED BY <1>1, <3>1, <3>4, <7>1, <7>2
          <6> QED BY <6>1
        <5>2. \A k \in 1 .. Len(y) : on[k] \in {i \in indices : i <= n}
          BY <3>1, <3>4, <3>6, <4>3, <4>4, <5>1
        <5> QED BY <4>3, <4>4, <5>2
      <4>6. \A k \in 1 .. Len(y) : y[k] = list[on[k]]
        BY <3>4, <4>3, <4>4
      <4>7. \A j, k \in 1 .. Len(y) : j < k => on[j] < on[k]
        <5>1. ASSUME NEW j \in 1 .. Len(z)
              PROVE  on[j] = of[j] /\ of[j] \in Nat /\ of[j] < n
          <6>1. of[j] \in {i \in indices : i <= n - 1}
            BY <3>4
          <6>2. of[j] \in 1 .. Len(list) /\ of[j] <= n - 1
            BY <6>1
          <6> QED BY <1>1, <3>1, <3>4, <4>4, <6>2
        <5>2. SUFFICES ASSUME NEW j \in 1 .. Len(y), NEW k \in 1 .. Len(y), j < k
                       PROVE  on[j] < on[k]
          OBVIOUS
        <5>3. j \in 1 .. Len(z)
          BY <3>4, <4>3, <5>2
        <5>4. CASE k = Len(z) + 1
          <6>1. on[k] = n
            BY <3>4, <4>4, <5>4
          <6> QED BY <5>1, <5>3, <6>1
        <5>5. CASE k # Len(z) + 1
          <6>1. k \in 1 .. Len(z)
            BY <3>4, <4>3, <5>5
          <6>2. of[j] < of[k]
            BY <3>4, <5>2, <5>3, <6>1
          <6> QED BY <5>1, <5>3, <6>1, <6>2
        <5> QED BY <5>4, <5>5
      <4>8. \A i \in indices : i <= n => \E k \in 1 .. Len(y) : on[k] = i
        <5>1. ASSUME NEW i \in indices, i <= n, i # n PROVE \E k \in 1 .. Len(y) : on[k] = i
          <6>1. PICK k \in 1 .. Len(z) : of[k] = i
            BY <1>1, <3>1, <3>4, <5>1
          <6> QED BY <3>4, <4>3, <4>4, <6>1
        <5> QED BY <3>4, <4>3, <4>4, <5>1
      <4> QED BY <2>3, <4>2, <4>5, <4>6, <4>7, <4>8
    <3> QED BY <3>5, <3>6
  <2> QED BY <2>4, <2>5
<1>4. Len(list) \in 0 .. Len(list) /\ Len(list) \notin lacking
  <2> HIDE DEF lacking
  <2> QED BY <1>1, <1>3
<1>5. PICK z : z = Kept(list, indices)
  OBVIOUS
<1>6. z = F[Len(list)] /\ z \in Seq(S)
  BY <1>1, <1>2, <1>5
<1>7. PICK of : Embeds(of, z, Len(list))
  BY <1>4, <1>6
<1>8. \A i \in indices : i <= Len(list)
  BY <1>1
<1>9. of \in [1 .. Len(z) -> indices]
  BY <1>7, <1>8
<1>10. \E os \in [1 .. Len(z) -> indices] :
         /\ \A k \in 1 .. Len(z) : z[k] = list[os[k]]
         /\ \A j, k \in 1 .. Len(z) : j < k => os[j] < os[k]
         /\ \A i \in indices : \E k \in 1 .. Len(z) : os[k] = i
  BY <1>7, <1>8, <1>9
<1> QED BY <1>5, <1>6, <1>10

-----------------------------------------------------------------------------
(* The attempts at a scenario                                              *)

\* The places of the scenario.
attempts == s1
page == s2
saved == s3
typed == s4
call == s5
late == s6
ids == s7

USE DEF attempts, page, saved, typed, call, late, ids

Submission == [id : Nat, hash : Nat \X Nat \X Scenario!Draft, draft : Scenario!Draft]
Row == [status : Scenario!Status, position : Nat, version : Nat, accepted : Seq(Submission)]
Shot == [n : Nat, status : Scenario!Status, position : Nat, version : Nat]
Identity == [draft : Scenario!Draft, id : Nat]
Feedback == [place : Nat \X Nat, draft : Scenario!Draft]
Page == [at : {"closed", "loading", "failed", "shown"}, attempt : Shot \cup {Nothing}, draft : Scenario!Draft,
         owner : Scenario!Place \cup {Nothing}, identity : Identity \cup {Nothing},
         feedback : Feedback \cup {Nothing}, dialog : BOOLEAN]
Asked == [is : {"start", "pause", "resume", "submit", "resync"}, n : Nat, position : Nat, version : Nat,
          id : Nat, draft : Scenario!Draft, leaves : BOOLEAN,
          answer : {"sent", "done", "accepted", "conflict"}]

\* The scenario has a step, and the value for "none" is none of the others.
Stepped ==
  /\ ScenarioSteps \in Nat \ {0} /\ MaxAttempts \in Nat
  /\ Nothing \notin Scenario!Place \cup Shot \cup Identity \cup Feedback \cup Asked

ScenarioType ==
  /\ attempts \in Seq(Row) /\ Len(attempts) <= MaxAttempts
  /\ page \in [Tab -> Page] /\ call \in [Tab -> Asked \cup {Nothing}] /\ late \subseteq Asked
  /\ saved \in [Tab -> [Scenario!Place -> Scenario!Draft]]
  /\ typed \in [Tab -> [Scenario!Place -> Scenario!Draft]]
  /\ ids \in Nat

\* The steps of an attempt were accepted one after the other, each under an id that
\* was made, and the attempt is completed with its last one.
RowOK(a, made) ==
  /\ a.position <= ScenarioSteps /\ Len(a.accepted) = a.position
  /\ a.status = "completed" <=> a.position = ScenarioSteps
  /\ \A k \in DOMAIN a.accepted :
       LET s == a.accepted[k] IN s.id \in 1 .. made /\ s.hash = <<k - 1, s.hash[2], s.draft>>

RowsOK == \A n \in DOMAIN attempts : RowOK(attempts[n], ids)

\* An attempt as it was read some time ago: the version tells whether it still is so.
ReadOK(a) ==
  /\ a.n \in DOMAIN attempts
  /\ a.position <= attempts[a.n].position /\ a.version <= attempts[a.n].version
  /\ a.version = attempts[a.n].version => a.position = attempts[a.n].position /\ a.status = attempts[a.n].status
  /\ a.status = "completed" <=> a.position = ScenarioSteps

\* What a page shows was read; its draft is of the step it shows, and its feedback is
\* of an answer the server holds.
ShownOK(t) ==
  LET p == page[t] IN
  /\ p.attempt # Nothing => ReadOK(p.attempt)
  /\ p.feedback = Nothing =>
       p.owner = IF Scenario!HasStep(p.attempt) THEN Scenario!PlaceOf(p.attempt) ELSE Nothing
  /\ p.feedback # Nothing =>
       /\ p.attempt # Nothing
       /\ p.feedback.place[1] \in DOMAIN attempts
       /\ p.feedback.place[2] + 1 \in DOMAIN attempts[p.feedback.place[1]].accepted
       /\ attempts[p.feedback.place[1]].accepted[p.feedback.place[2] + 1].draft = p.feedback.draft

\* Nothing was typed for a step the attempt, as far as the page has come, has not
\* reached; under the feedback nothing yet for the next one.
TypedOK(t) ==
  LET p == page[t] IN
  \A q \in Scenario!Place : typed[t][q] # Empty =>
    /\ q[1] \in DOMAIN attempts /\ q[2] <= attempts[q[1]].position
    /\ p.attempt # Nothing /\ p.attempt.n = q[1] =>
         q[2] <= p.attempt.position /\ (p.feedback # Nothing => q[2] < p.attempt.position)

\* TypedIsKept, of one tab.
DraftOK(t) ==
  \A q \in Scenario!Place : typed[t][q] # Empty /\ ~ Scenario!Accepted(q) =>
    /\ saved[t][q] = typed[t][q]
    /\ page[t].owner = q /\ page[t].feedback = Nothing => page[t].draft = typed[t][q]

\* A request is about the attempt that is shown, a submission goes under its
\* identity; one that was refused cannot be accepted any more.
CallOK(t) ==
  LET p == page[t]
      c == call[t]
  IN  c # Nothing =>
        /\ IF c.is = "start" THEN p.attempt = Nothing /\ c.answer \in {"sent", "done"}
                                   /\ (c.answer = "sent" => c.n = 0)
           ELSE p.attempt # Nothing /\ c.n = p.attempt.n /\ c.position = p.attempt.position
                /\ c.version = p.attempt.version
        /\ c.is = "start" /\ c.answer = "done" => c.n \in DOMAIN attempts
        /\ c.is = "submit" =>
             /\ p.identity # Nothing /\ c.id = p.identity.id /\ c.draft = p.identity.draft
             /\ p.feedback = Nothing /\ p.attempt.status = "active"
        /\ c.answer = "accepted" =>
             /\ c.is = "submit"
             /\ c.position + 1 \in DOMAIN attempts[c.n].accepted
             /\ attempts[c.n].accepted[c.position + 1].draft = c.draft
        /\ c.is = "submit" /\ c.answer = "conflict" =>
             c.version < attempts[c.n].version /\ Scenario!Earlier(c) = {}

LateOK == \A r \in late : (r.is # "start" => r.n \in DOMAIN attempts) /\ (r.is = "submit" => r.id \in 1 .. ids)

\* A submission under the identity of the answer on screen is of the step and of the
\* answer, and no newer.
Agrees(t, r) ==
  LET p == page[t] IN
  r.is = "submit" /\ p.identity # Nothing /\ r.id = p.identity.id /\ p.feedback = Nothing =>
    r.n = p.attempt.n /\ r.position = p.attempt.position /\ r.draft = p.identity.draft
    /\ r.version <= p.attempt.version

\* So is what is still on its way, and what was accepted under it.
OwnOK(t) ==
  LET p == page[t] IN
  p.identity # Nothing =>
    /\ p.identity.id \in 1 .. ids
    /\ \A r \in late : Agrees(t, r)
    /\ p.feedback = Nothing =>
         /\ p.attempt # Nothing
         /\ \A n \in DOMAIN attempts : \A k \in DOMAIN attempts[n].accepted :
              attempts[n].accepted[k].id = p.identity.id =>
                n = p.attempt.n
                /\ attempts[n].accepted[k].hash = <<p.attempt.position, p.attempt.version, p.identity.draft>>

\* No two tabs share an identity.
DistinctIds ==
  \A t, u \in Tab : t # u /\ page[t].identity # Nothing /\ page[u].identity # Nothing =>
    page[t].identity.id # page[u].identity.id

TabOK(t) == ShownOK(t) /\ TypedOK(t) /\ DraftOK(t) /\ CallOK(t) /\ OwnOK(t)

ScenarioInv == ScenarioType /\ RowsOK /\ LateOK /\ DistinctIds /\ \A t \in Tab : TabOK(t)

LEMMA ScenarioShapes ==
  ASSUME ScenarioType
  PROVE  /\ \A n \in DOMAIN attempts : attempts[n] \in Row
         /\ DOMAIN attempts = 1 .. Len(attempts) /\ Len(attempts) \in Nat
         /\ \A t \in Tab : /\ page[t] \in Page /\ call[t] \in Asked \cup {Nothing}
                           /\ saved[t] \in [Scenario!Place -> Scenario!Draft]
                           /\ typed[t] \in [Scenario!Place -> Scenario!Draft]
  BY DEF ScenarioType

\* The step of an attempt that has one.
LEMMA StepPlace ==
  ASSUME Stepped, ScenarioType, RowsOK, NEW a \in Shot, ReadOK(a), a.status # "completed"
  PROVE  /\ Scenario!HasStep(a)
         /\ Scenario!PlaceOf(a) \in Scenario!Place /\ Scenario!PlaceOf(a) # Nothing
         /\ Scenario!PlaceOf(a)[1] = a.n /\ Scenario!PlaceOf(a)[2] = a.position
<1>1. a.n \in Nat /\ a.position \in Nat /\ a # Nothing
  BY DEF Shot, Stepped
<1>2. a.n \in 1 .. MaxAttempts
  BY <1>1, ScenarioShapes DEF ReadOK, ScenarioType, Stepped
<1>3. a.position \in 0 .. ScenarioSteps - 1
  <2>1. attempts[a.n] \in Row /\ RowOK(attempts[a.n], ids) /\ a.position <= attempts[a.n].position
        /\ a.position # ScenarioSteps
    BY ScenarioShapes DEF ReadOK, RowsOK
  <2> QED BY <1>1, <2>1 DEF RowOK, Row, Stepped
<1> QED BY <1>1, <1>2, <1>3 DEF Scenario!HasStep, Scenario!PlaceOf, Scenario!Place, Stepped

-----------------------------------------------------------------------------

\* What the request r may do to the attempts.
GrowsBy(r) ==
  /\ \A n \in DOMAIN attempts :
       /\ n \in DOMAIN attempts'
       /\ attempts[n].position <= attempts'[n].position /\ attempts[n].version <= attempts'[n].version
       /\ attempts[n].version = attempts'[n].version => attempts'[n] = attempts[n]
       /\ \A k \in DOMAIN attempts[n].accepted :
            k \in DOMAIN attempts'[n].accepted /\ attempts'[n].accepted[k] = attempts[n].accepted[k]
  /\ \A n \in DOMAIN attempts' : \A k \in DOMAIN attempts'[n].accepted :
       \/ n \in DOMAIN attempts /\ k \in DOMAIN attempts[n].accepted
       \/ /\ r.is = "submit" /\ n = r.n /\ n \in DOMAIN attempts /\ attempts[n].version = r.version
          /\ attempts'[n].accepted[k].id = r.id /\ attempts'[n].accepted[k].hash = Scenario!Hash(r)

\* The row n goes on as the row b, with no step that is not of r.
GoesOn(n, b, r) ==
  /\ attempts[n].position <= b.position /\ attempts[n].version < b.version
  /\ \A k \in DOMAIN attempts[n].accepted :
       k \in DOMAIN b.accepted /\ b.accepted[k] = attempts[n].accepted[k]
  /\ \A k \in DOMAIN b.accepted :
       \/ k \in DOMAIN attempts[n].accepted
       \/ /\ r.is = "submit" /\ n = r.n /\ attempts[n].version = r.version
          /\ b.accepted[k].id = r.id /\ b.accepted[k].hash = Scenario!Hash(r)

LEMMA ReplacedRow ==
  ASSUME ScenarioType, RowsOK, ids' = ids, NEW n \in DOMAIN attempts, NEW a \in Row, RowOK(a, ids),
         attempts' = [attempts EXCEPT ![n] = a], NEW r, GoesOn(n, a, r)
  PROVE  GrowsBy(r) /\ RowsOK' /\ attempts' \in Seq(Row) /\ Len(attempts') = Len(attempts)
<1>1. /\ attempts' \in Seq(Row) /\ Len(attempts') = Len(attempts) /\ DOMAIN attempts' = DOMAIN attempts
      /\ \A i \in DOMAIN attempts : attempts'[i] = IF i = n THEN a ELSE attempts[i]
  <2>1. attempts \in Seq(Row)
    BY DEF ScenarioType
  <2> QED BY <2>1, ReplacedEntry
<1>2. \A i \in DOMAIN attempts : attempts[i].position \in Nat /\ attempts[i].version \in Nat
  BY ScenarioShapes DEF Row
<1>3. a.version \in Nat /\ a.position \in Nat
  BY DEF Row
<1>4. GrowsBy(r)
  BY <1>1, <1>2, <1>3 DEF GrowsBy, GoesOn
<1>5. RowsOK'
  BY <1>1 DEF RowsOK, RowOK
<1> QED BY <1>1, <1>4, <1>5

LEMMA ServedGrows ==
  ASSUME Stepped, ScenarioType, RowsOK, ids' = ids, NEW r \in Asked,
         r.is # "start" => r.n \in DOMAIN attempts, r.is = "submit" => r.id \in 1 .. ids,
         attempts' = Scenario!Served(r).attempts
  PROVE  GrowsBy(r) /\ RowsOK' /\ attempts' \in Seq(Row)
<1> DEFINE n == r.n
           a == attempts[r.n]
<1>1. CASE attempts' = attempts
  <2>1. \A i \in DOMAIN attempts : attempts[i].position \in Nat /\ attempts[i].version \in Nat
    BY ScenarioShapes DEF Row
  <2> QED BY <1>1, <2>1 DEF GrowsBy, RowsOK, ScenarioType
<1>2. ASSUME r.is = "start", attempts' # attempts
      PROVE  GrowsBy(r) /\ RowsOK' /\ attempts' \in Seq(Row)
  <2>1. PICK b : b = [status |-> "active", position |-> 0, version |-> 1, accepted |-> <<>>]
    OBVIOUS
  <2>2. attempts' = Append(attempts, b)
    BY <1>2, <2>1 DEF Scenario!Served, Scenario!Started
  <2>3. b \in Row /\ RowOK(b, ids) /\ DOMAIN b.accepted = {}
    BY <2>1 DEF Row, RowOK, Scenario!Status, Stepped
  <2>4. /\ attempts' \in Seq(Row) /\ DOMAIN attempts' = DOMAIN attempts \cup {Len(attempts) + 1}
        /\ \A i \in DOMAIN attempts : attempts'[i] = attempts[i]
        /\ attempts'[Len(attempts) + 1] = b /\ Len(attempts) + 1 \notin DOMAIN attempts
    BY <2>2, <2>3 DEF ScenarioType
  <2>5. \A i \in DOMAIN attempts : attempts[i].position \in Nat /\ attempts[i].version \in Nat
    BY ScenarioShapes DEF Row
  <2>6. GrowsBy(r)
    BY <2>3, <2>4, <2>5 DEF GrowsBy
  <2>7. RowsOK'
    BY <2>3, <2>4 DEF RowsOK, RowOK
  <2> QED BY <2>4, <2>6, <2>7
<1>3. ASSUME NEW status \in {"paused", "active"}, attempts' = Scenario!SetStatus(r, status).attempts,
             r.is # "start", attempts' # attempts
      PROVE  GrowsBy(r) /\ RowsOK' /\ attempts' \in Seq(Row)
  <2>1. PICK b : b = [a EXCEPT !.status = status, !.version = a.version + 1]
    OBVIOUS
  <2>2. n \in DOMAIN attempts /\ a \in Row /\ RowOK(a, ids) /\ a.status # "completed"
    BY <1>3, ScenarioShapes DEF RowsOK, Scenario!SetStatus, Scenario!IsOpen
  <2>3. attempts' = [attempts EXCEPT ![n] = b]
    BY <1>3, <2>1, <2>2 DEF Scenario!SetStatus, Scenario!IsOpen
  <2>4. /\ b \in Row /\ b.position = a.position /\ b.version = a.version + 1 /\ b.status = status
        /\ b.accepted = a.accepted
    <3>1. a.version + 1 \in Nat /\ status \in Scenario!Status
      BY <2>2 DEF Row, Scenario!Status
    <3>2. a = [status |-> a.status, position |-> a.position, version |-> a.version, accepted |-> a.accepted]
      BY <2>2 DEF Row
    <3>3. b = [status |-> status, position |-> a.position, version |-> a.version + 1, accepted |-> a.accepted]
      BY <2>1, <3>2
    <3>4. a.position \in Nat /\ a.accepted \in Seq(Submission)
      BY <2>2 DEF Row
    <3> QED BY <3>1, <3>3, <3>4 DEF Row
  <2>5. RowOK(b, ids)
    BY <2>2, <2>4 DEF RowOK
  <2>6. a.position \in Nat /\ a.version \in Nat
    BY <2>2 DEF Row
  <2>7. GoesOn(n, b, r)
    BY <2>4, <2>6 DEF GoesOn
  <2> QED BY <2>2, <2>3, <2>4, <2>5, <2>7, ReplacedRow
<1>4. ASSUME r.is = "submit", attempts' # attempts
      PROVE  GrowsBy(r) /\ RowsOK' /\ attempts' \in Seq(Row)
  <2>1. PICK s : s = [id |-> r.id, hash |-> Scenario!Hash(r), draft |-> r.draft]
    OBVIOUS
  <2>2. PICK b : b = [status |-> IF r.position + 1 >= ScenarioSteps THEN "completed" ELSE "active",
                      position |-> r.position + 1, version |-> a.version + 1,
                      accepted |-> Append(a.accepted, s)]
    OBVIOUS
  <2>3. /\ n \in DOMAIN attempts /\ a \in Row /\ RowOK(a, ids)
        /\ a.version = r.version /\ a.status = "active" /\ a.position = r.position
        /\ attempts' = [attempts EXCEPT ![n] = b]
    <3>1. attempts' = Scenario!Accepts(r) /\ a.version = r.version /\ a.status = "active" /\ a.position = r.position
      BY <1>4 DEF Scenario!Served, Scenario!Submitted
    <3>2. n \in DOMAIN attempts /\ a \in Row /\ RowOK(a, ids)
      BY <1>4, ScenarioShapes DEF RowsOK
    <3> QED BY <2>1, <2>2, <3>1, <3>2 DEF Scenario!Accepts
  <2>4. /\ s \in Submission /\ s.id = r.id /\ s.hash = Scenario!Hash(r) /\ s.draft = r.draft
        /\ s.hash = <<r.position, r.version, r.draft>> /\ s.hash[2] = r.version
    BY <2>1 DEF Submission, Asked, Scenario!Hash
  <2>5. /\ a.accepted \in Seq(Submission) /\ Len(a.accepted) = a.position
        /\ a.position \in Nat /\ a.version \in Nat
        /\ a.position < ScenarioSteps
    BY <2>3 DEF Row, RowOK, Stepped
  <2>6. PICK z : z = Append(a.accepted, s)
    OBVIOUS
  <2>7. /\ z \in Seq(Submission) /\ Len(z) = a.position + 1
        /\ DOMAIN z = DOMAIN a.accepted \cup {a.position + 1}
        /\ z[a.position + 1] = s /\ \A k \in DOMAIN a.accepted : z[k] = a.accepted[k]
    <3>1. /\ z \in Seq(Submission) /\ Len(z) = Len(a.accepted) + 1
          /\ DOMAIN z = DOMAIN a.accepted \cup {Len(a.accepted) + 1}
          /\ z[Len(a.accepted) + 1] = s /\ \A k \in DOMAIN a.accepted : z[k] = a.accepted[k]
      <4>1. s \in Submission /\ a.accepted \in Seq(Submission)
        BY <2>4, <2>5
      <4> QED BY <2>6, <4>1, AppendedEntry
    <3> QED BY <2>5, <3>1
  <2>8. /\ b \in Row /\ b.position = a.position + 1 /\ b.version = a.version + 1 /\ b.accepted = z
        /\ b.status = "completed" <=> b.position = ScenarioSteps
    BY <2>2, <2>3, <2>5, <2>6, <2>7 DEF Row, Scenario!Status, Stepped
  <2>9. RowOK(b, ids)
    <3>1. ASSUME NEW k \in DOMAIN z PROVE z[k].id \in 1 .. ids /\ z[k].hash = <<k - 1, z[k].hash[2], z[k].draft>>
      <4>1. CASE k \in DOMAIN a.accepted
        BY <2>3, <2>7, <4>1 DEF RowOK
      <4>2. CASE k = a.position + 1
        <5>1. z[k] = s /\ r.position = k - 1
          BY <2>3, <2>5, <2>7, <4>2
        <5>2. s.id \in 1 .. ids /\ s.hash = <<r.position, s.hash[2], s.draft>>
          BY <1>4, <2>4
        <5> QED BY <5>1, <5>2
      <4> QED BY <2>7, <4>1, <4>2
    <3>2. b.position <= ScenarioSteps /\ Len(b.accepted) = b.position /\ b.accepted = z
      BY <2>5, <2>7, <2>8 DEF Stepped
    <3> QED BY <2>8, <3>1, <3>2 DEF RowOK
  <2>10. a.version < b.version /\ a.position <= b.position
    BY <2>5, <2>8
  <2>11. \A k \in DOMAIN b.accepted : k \in DOMAIN a.accepted
           \/ (b.accepted[k].id = r.id /\ b.accepted[k].hash = Scenario!Hash(r))
    <3>1. \A k \in DOMAIN z : k \in DOMAIN a.accepted \/ z[k] = s
      BY <2>7
    <3>2. b.accepted = z
      BY <2>8
    <3>3. s.id = r.id /\ s.hash = Scenario!Hash(r)
      BY <2>4
    <3> QED BY <3>1, <3>2, <3>3
  <2>12. \A k \in DOMAIN a.accepted : k \in DOMAIN b.accepted /\ b.accepted[k] = a.accepted[k]
    <3>1. \A k \in DOMAIN a.accepted : k \in DOMAIN z /\ z[k] = a.accepted[k]
      BY <2>7
    <3> QED BY <2>8, <3>1
  <2>13. GoesOn(n, b, r)
    BY <1>4, <2>3, <2>10, <2>11, <2>12 DEF GoesOn
  <2> QED BY <2>3, <2>8, <2>9, <2>13, ReplacedRow
<1> QED BY <1>1, <1>2, <1>3, <1>4 DEF Scenario!Served, Asked

\* What the server makes of r leaves the other tabs right.
LEMMA ServerKeepsTab ==
  ASSUME Stepped, ScenarioInv, NEW t \in Tab, NEW r \in Asked, Agrees(t, r), GrowsBy(r),
         attempts' \in Seq(Row), UNCHANGED <<page, saved, typed, ids>>, late' \subseteq late
  PROVE  ShownOK(t)' /\ TypedOK(t)' /\ DraftOK(t)' /\ OwnOK(t)' /\ (call'[t] = call[t] => CallOK(t)')
<1>1. /\ page[t] \in Page /\ call[t] \in Asked \cup {Nothing}
      /\ ShownOK(t) /\ TypedOK(t) /\ DraftOK(t) /\ CallOK(t) /\ OwnOK(t)
  BY ScenarioShapes DEF ScenarioInv, TabOK
<1>2. /\ \A n \in DOMAIN attempts : attempts[n] \in Row /\ attempts[n].position \in Nat /\ attempts[n].version \in Nat
      /\ \A n \in DOMAIN attempts' : attempts'[n] \in Row /\ attempts'[n].position \in Nat /\ attempts'[n].version \in Nat
  <2>1. \A n \in DOMAIN attempts : attempts[n] \in Row
    BY ScenarioShapes DEF ScenarioInv
  <2>2. \A n \in DOMAIN attempts' : attempts'[n] \in Row
    OBVIOUS
  <2> QED BY <2>1, <2>2 DEF Row
<1>3. ASSUME NEW a \in Shot, ReadOK(a) PROVE ReadOK(a)'
  <2>1. a.n \in DOMAIN attempts /\ a.position \in Nat /\ a.version \in Nat
    BY <1>3 DEF Shot, ReadOK
  <2> QED BY <1>2, <1>3, <2>1 DEF ReadOK, GrowsBy
<1>4. ShownOK(t)'
  <2>1. page[t].attempt # Nothing => ReadOK(page[t].attempt)'
    BY <1>1, <1>3 DEF ShownOK, Page
  <2> QED BY <1>1, <2>1 DEF ShownOK, GrowsBy
<1>5. TypedOK(t)'
  <2>1. ASSUME NEW q \in Scenario!Place, q[1] \in DOMAIN attempts, q[2] <= attempts[q[1]].position
        PROVE  q[1] \in DOMAIN attempts' /\ q[2] <= attempts'[q[1]].position
    <3>1. q[2] \in Nat
      BY DEF Scenario!Place, Stepped
    <3> QED BY <1>2, <2>1, <3>1 DEF GrowsBy
  <2> QED BY <1>1, <2>1 DEF TypedOK
<1>6. DraftOK(t)'
  <2>1. ASSUME NEW q \in Scenario!Place, Scenario!Accepted(q) PROVE Scenario!Accepted(q)'
    <3>1. q[2] \in Nat
      BY DEF Scenario!Place, Stepped
    <3> QED BY <1>2, <2>1, <3>1 DEF GrowsBy, Scenario!Accepted
  <2> QED BY <1>1, <2>1 DEF DraftOK
<1>7. OwnOK(t)'
  <2>1. \A x \in late' : Agrees(t, x) => Agrees(t, x)'
    BY DEF Agrees
  <2>2. ASSUME page[t].identity # Nothing, page[t].feedback = Nothing,
               NEW n \in DOMAIN attempts', NEW k \in DOMAIN attempts'[n].accepted,
               attempts'[n].accepted[k].id = page[t].identity.id
        PROVE  /\ n = page[t].attempt.n
               /\ attempts'[n].accepted[k].hash =
                    <<page[t].attempt.position, page[t].attempt.version, page[t].identity.draft>>
    <3>1. CASE n \in DOMAIN attempts /\ k \in DOMAIN attempts[n].accepted
      BY <1>1, <2>2, <3>1 DEF OwnOK, GrowsBy
    <3>2. CASE ~ (n \in DOMAIN attempts /\ k \in DOMAIN attempts[n].accepted)
      <4>1. /\ r.is = "submit" /\ n = r.n /\ n \in DOMAIN attempts /\ attempts[n].version = r.version
            /\ attempts'[n].accepted[k].id = r.id /\ attempts'[n].accepted[k].hash = Scenario!Hash(r)
        BY <3>2 DEF GrowsBy
      <4>2. /\ r.n = page[t].attempt.n /\ r.position = page[t].attempt.position
            /\ r.draft = page[t].identity.draft /\ r.version <= page[t].attempt.version
        BY <2>2, <4>1 DEF Agrees
      <4>3. page[t].attempt # Nothing /\ page[t].attempt \in Shot /\ ReadOK(page[t].attempt)
        BY <1>1, <2>2 DEF OwnOK, ShownOK, Page
      <4>4. r.version = page[t].attempt.version
        BY <1>2, <4>1, <4>2, <4>3 DEF ReadOK, Shot, Asked
      <4> QED BY <4>1, <4>2, <4>4 DEF Scenario!Hash
    <3> QED BY <3>1, <3>2
  <2> QED BY <1>1, <2>1, <2>2 DEF OwnOK
<1>8. ASSUME call'[t] = call[t] PROVE CallOK(t)'
  <2> DEFINE c == call[t]
  <2>1. ASSUME c # Nothing, c.is = "submit", c.answer = "conflict"
        PROVE  c.n \in DOMAIN attempts' /\ c.version < attempts'[c.n].version /\ Scenario!Earlier(c)' = {}
    <3>1. /\ page[t].attempt # Nothing /\ c.n = page[t].attempt.n /\ c.version = page[t].attempt.version
          /\ page[t].identity # Nothing /\ c.id = page[t].identity.id /\ page[t].feedback = Nothing
          /\ c.version < attempts[c.n].version /\ Scenario!Earlier(c) = {}
      BY <1>1, <2>1 DEF CallOK
    <3>2. c \in Asked /\ c.version \in Nat
      BY <1>1, <2>1 DEF Asked
    <3>3. c.n \in DOMAIN attempts
      BY <1>1, <3>1 DEF ShownOK, ReadOK
    <3>4. c.n \in DOMAIN attempts' /\ c.version < attempts'[c.n].version
      BY <1>2, <3>1, <3>2, <3>3 DEF GrowsBy
    <3>5. ASSUME NEW k \in DOMAIN attempts'[c.n].accepted, attempts'[c.n].accepted[k].id = c.id PROVE FALSE
      <4>1. CASE k \in DOMAIN attempts[c.n].accepted
        BY <3>1, <3>3, <3>5, <4>1 DEF GrowsBy, Scenario!Earlier
      <4>2. CASE k \notin DOMAIN attempts[c.n].accepted
        <5>1. r.is = "submit" /\ attempts[c.n].version = r.version /\ r.id = c.id
          BY <3>4, <3>5, <4>2 DEF GrowsBy
        <5>2. r.version <= page[t].attempt.version
          BY <3>1, <5>1 DEF Agrees
        <5>3. r.version \in Nat
          BY DEF Asked
        <5> QED BY <3>1, <3>2, <5>1, <5>2, <5>3
      <4> QED BY <4>1, <4>2
    <3> QED BY <1>8, <3>4, <3>5 DEF Scenario!Earlier
  <2>2. ASSUME c # Nothing, c.answer = "accepted"
        PROVE  /\ c.position + 1 \in DOMAIN attempts'[c.n].accepted
               /\ attempts'[c.n].accepted[c.position + 1].draft = c.draft
    <3>1. /\ page[t].attempt # Nothing /\ c.n = page[t].attempt.n
          /\ c.position + 1 \in DOMAIN attempts[c.n].accepted
          /\ attempts[c.n].accepted[c.position + 1].draft = c.draft
      BY <1>1, <2>2 DEF CallOK
    <3>2. c.n \in DOMAIN attempts
      BY <1>1, <3>1 DEF ShownOK, ReadOK
    <3> QED BY <3>1, <3>2 DEF GrowsBy
  <2>3. c.n \in DOMAIN attempts => c.n \in DOMAIN attempts'
    BY DEF GrowsBy
  <2> QED BY <1>1, <1>8, <2>1, <2>2, <2>3 DEF CallOK
<1> QED BY <1>4, <1>5, <1>6, <1>7, <1>8

\* An answer tells what the server has made of the request.
LEMMA ServeKeepsScenario ==
  ASSUME Stepped, ScenarioInv, NEW t \in Tab, Scenario!Serve(t)
  PROVE  ScenarioInv'
<1> DEFINE c == call[t]
           p == page[t]
<1>1. /\ c \in Asked /\ c # Nothing /\ c.answer = "sent"
      /\ attempts' = Scenario!Served(c).attempts /\ Len(attempts') <= MaxAttempts
      /\ UNCHANGED <<page, saved, typed, late, ids>>
      /\ call' = [call EXCEPT ![t] = [c EXCEPT !.answer = Scenario!Served(c).answer,
                                              !.n = IF c.n = 0 THEN Len(Scenario!Started) ELSE c.n]]
  <2>1. call \in [Tab -> Asked \cup {Nothing}]
    BY DEF ScenarioInv, ScenarioType
  <2> QED BY <2>1 DEF Scenario!Serve
<1>2. /\ ScenarioType /\ RowsOK /\ LateOK /\ DistinctIds
      /\ p \in Page /\ ShownOK(t) /\ CallOK(t) /\ OwnOK(t)
  BY ScenarioShapes DEF ScenarioInv, TabOK
<1>3. /\ c.is # "start" => p.attempt # Nothing /\ c.n \in DOMAIN attempts /\ c.n # 0
      /\ c.is = "submit" => c.id \in 1 .. ids
  <2>1. c.is # "start" => p.attempt # Nothing /\ c.n = p.attempt.n
    BY <1>1, <1>2 DEF CallOK
  <2>2. p.attempt # Nothing => p.attempt.n \in DOMAIN attempts /\ p.attempt.n # 0
    <3>1. p.attempt # Nothing => p.attempt.n \in DOMAIN attempts
      BY <1>2 DEF ShownOK, ReadOK
    <3>2. 0 \notin DOMAIN attempts
      <4>1. attempts \in Seq(Row)
        BY <1>2 DEF ScenarioType
      <4> QED BY <4>1
    <3> QED BY <3>1, <3>2
  <2>3. c.is = "submit" => p.identity # Nothing /\ c.id = p.identity.id
    BY <1>1, <1>2 DEF CallOK
  <2>4. p.identity # Nothing => p.identity.id \in 1 .. ids
    BY <1>2 DEF OwnOK
  <2> QED BY <2>1, <2>2, <2>3, <2>4
<1>4. GrowsBy(c) /\ RowsOK' /\ attempts' \in Seq(Row)
  BY <1>1, <1>2, <1>3, ServedGrows
<1>5. ASSUME NEW u \in Tab PROVE Agrees(u, c)
  <2>1. CASE u = t
    BY <1>1, <1>2, <2>1 DEF CallOK, Agrees, ShownOK, Page, Shot
  <2>2. CASE u # t
    BY <1>1, <1>2, <2>2 DEF CallOK, Agrees, DistinctIds
  <2> QED BY <2>1, <2>2
<1>6. PICK d : d = [c EXCEPT !.answer = Scenario!Served(c).answer,
                            !.n = IF c.n = 0 THEN Len(Scenario!Started) ELSE c.n]
  OBVIOUS
<1>7. /\ call' = [call EXCEPT ![t] = d] /\ call'[t] = d /\ \A u \in Tab \ {t} : call'[u] = call[u]
  BY <1>1, <1>2, <1>6 DEF ScenarioType
<1>8. /\ d.is = c.is /\ d.position = c.position /\ d.version = c.version /\ d.id = c.id /\ d.draft = c.draft
      /\ d.leaves = c.leaves /\ d.answer = Scenario!Served(c).answer
      /\ d.n = IF c.n = 0 THEN Len(Scenario!Started) ELSE c.n
  BY <1>1, <1>6 DEF Asked
<1>9. d \in Asked
  <2>1. Len(Scenario!Started) \in Nat
    <3>1. attempts \in Seq(Row)
      BY <1>2 DEF ScenarioType
    <3>2. PICK b : b = [status |-> "active", position |-> 0, version |-> 1, accepted |-> <<>>]
      OBVIOUS
    <3>3. b \in Row
      BY <3>2 DEF Row, Scenario!Status
    <3>4. Append(attempts, b) \in Seq(Row)
      BY <3>1, <3>3
    <3> QED BY <3>1, <3>2, <3>4 DEF Scenario!Started
  <2>2. Scenario!Served(c).answer \in {"sent", "done", "accepted", "conflict"}
    BY <1>1 DEF Scenario!Served, Scenario!SetStatus, Scenario!Submitted, Asked
  <2>3. c.n \in Nat
    BY <1>1 DEF Asked
  <2>4. (IF c.n = 0 THEN Len(Scenario!Started) ELSE c.n) \in Nat
    BY <2>1, <2>3
  <2> QED BY <1>1, <1>6, <2>2, <2>4 DEF Asked
<1>10. ScenarioType'
  <2>1. call' \in [Tab -> Asked \cup {Nothing}]
    BY <1>2, <1>7, <1>9 DEF ScenarioType
  <2> QED BY <1>1, <1>2, <1>4, <2>1 DEF ScenarioType
<1>11. ASSUME NEW u \in Tab
       PROVE  ShownOK(u)' /\ TypedOK(u)' /\ DraftOK(u)' /\ OwnOK(u)' /\ (call'[u] = call[u] => CallOK(u)')
  BY <1>1, <1>4, <1>5, ServerKeepsTab
<1>12. CallOK(t)'
  <2>1. /\ IF c.is = "start" THEN p.attempt = Nothing /\ c.n = 0
           ELSE p.attempt # Nothing /\ c.n = p.attempt.n /\ c.position = p.attempt.position
                /\ c.version = p.attempt.version
        /\ c.is = "submit" =>
             /\ p.identity # Nothing /\ c.id = p.identity.id /\ c.draft = p.identity.draft
             /\ p.feedback = Nothing /\ p.attempt.status = "active"
    BY <1>1, <1>2 DEF CallOK
  <2>2. ASSUME c.is = "start" PROVE d.answer = "done" /\ d.n \in DOMAIN attempts'
    <3>1. attempts' = Scenario!Started /\ d.answer = "done" /\ d.n = Len(attempts')
      BY <1>1, <1>8, <2>1, <2>2 DEF Scenario!Served
    <3>2. Len(attempts') # 0
      <4>1. attempts \in Seq(Row)
        BY <1>2 DEF ScenarioType
      <4>2. CASE attempts' = attempts
        <5>1. PICK n \in DOMAIN attempts : TRUE
          BY <3>1, <4>2 DEF Scenario!Started
        <5> QED BY <1>2, <4>2, <5>1, ScenarioShapes
      <4>3. CASE attempts' # attempts
        BY <3>1, <4>1, <4>3 DEF Scenario!Started
      <4> QED BY <4>2, <4>3
    <3> QED BY <1>4, <3>1, <3>2
  <2>3. c.is # "start" => d.n = c.n
    BY <1>3, <1>8
  <2>4. ASSUME c.is = "submit"
        PROVE  \/ d.answer = "accepted" /\ c.position + 1 \in DOMAIN attempts'[c.n].accepted
                  /\ attempts'[c.n].accepted[c.position + 1].draft = c.draft
               \/ d.answer = "conflict" /\ c.version < attempts'[c.n].version
                  /\ \A k \in DOMAIN attempts'[c.n].accepted : attempts'[c.n].accepted[k].id # c.id
    <3> DEFINE n == c.n
               a == attempts[c.n]
    <3>1. n \in DOMAIN attempts /\ a \in Row /\ RowOK(a, ids)
      BY <1>2, <1>3, <2>4, ScenarioShapes DEF RowsOK
    <3>2. \A k \in DOMAIN a.accepted : a.accepted[k].id = c.id => a.accepted[k].hash = Scenario!Hash(c)
      <4>1. p.identity # Nothing /\ p.feedback = Nothing /\ c.id = p.identity.id
        BY <2>1, <2>4
      <4>2. Scenario!Hash(c) = <<p.attempt.position, p.attempt.version, p.identity.draft>>
        BY <2>1, <2>4 DEF Scenario!Hash
      <4> QED BY <1>2, <3>1, <4>1, <4>2 DEF OwnOK
    <3>3. CASE Scenario!Earlier(c) # {}
      <4>1. PICK k \in DOMAIN a.accepted : a.accepted[k].id = c.id
        BY <3>3 DEF Scenario!Earlier
      <4>2. a.accepted[k].hash = Scenario!Hash(c)
        BY <3>2, <4>1
      <4>3. attempts' = attempts /\ d.answer = "accepted"
        <5>1. Scenario!Served(c) = [attempts |-> attempts, answer |-> "accepted"]
          BY <2>4, <4>1, <4>2 DEF Scenario!Served, Scenario!Submitted, Scenario!Earlier
        <5> QED BY <1>1, <1>8, <5>1
      <4>4. a.accepted[k].hash = <<k - 1, a.accepted[k].hash[2], a.accepted[k].draft>> /\ k \in Nat
        BY <3>1, <4>1 DEF RowOK, Row
      <4>5. c.position = k - 1 /\ c.draft = a.accepted[k].draft /\ c.position \in Nat
        <5>1. <<k - 1, a.accepted[k].hash[2], a.accepted[k].draft>> = <<c.position, c.version, c.draft>>
          BY <4>2, <4>4 DEF Scenario!Hash
        <5>2. c.position = k - 1 /\ c.draft = a.accepted[k].draft
          BY <5>1
        <5>3. c.position \in Nat
          BY <1>1 DEF Asked
        <5> QED BY <5>2, <5>3
      <4>6. k = c.position + 1
        BY <4>4, <4>5
      <4> QED BY <4>1, <4>3, <4>5, <4>6
    <3>4. CASE Scenario!Earlier(c) = {} /\ a.version = c.version /\ a.status = "active" /\ a.position = c.position
      <4>1. PICK s : s = [id |-> c.id, hash |-> Scenario!Hash(c), draft |-> c.draft]
        OBVIOUS
      <4>2. PICK b : b = [status |-> IF c.position + 1 >= ScenarioSteps THEN "completed" ELSE "active",
                          position |-> c.position + 1, version |-> a.version + 1,
                          accepted |-> Append(a.accepted, s)]
        OBVIOUS
      <4>3. attempts' = Scenario!Accepts(c) /\ d.answer = "accepted"
        <5>1. Scenario!Served(c) = [attempts |-> Scenario!Accepts(c), answer |-> "accepted"]
          BY <2>4, <3>4 DEF Scenario!Served, Scenario!Submitted
        <5> QED BY <1>1, <1>8, <5>1
      <4>4. attempts' = [attempts EXCEPT ![n] = b]
        BY <4>1, <4>2, <4>3 DEF Scenario!Accepts
      <4>5. attempts'[n].accepted = Append(a.accepted, s)
        <5>1. attempts'[n] = b
          BY <3>1, <4>4
        <5> QED BY <4>2, <5>1
      <4>6. a.accepted \in Seq(Submission) /\ Len(a.accepted) = c.position /\ s \in Submission
        <5>1. s \in Submission
          BY <1>1, <4>1 DEF Submission, Asked, Scenario!Hash
        <5>2. a.accepted \in Seq(Submission) /\ Len(a.accepted) = c.position
          BY <3>1, <3>4 DEF Row, RowOK
        <5> QED BY <5>1, <5>2
      <4>7. PICK z : z = Append(a.accepted, s)
        OBVIOUS
      <4>8. c.position + 1 \in DOMAIN z /\ z[c.position + 1] = s
        BY <4>6, <4>7, AppendedEntry
      <4>9. s.draft = c.draft
        BY <4>1
      <4>10. attempts'[n].accepted = z
        BY <4>5, <4>7
      <4> QED BY <4>3, <4>8, <4>9, <4>10
    <3>5. CASE /\ Scenario!Earlier(c) = {}
               /\ ~ (a.version = c.version /\ a.status = "active" /\ a.position = c.position)
      <4>1. attempts' = attempts /\ d.answer = "conflict"
        BY <1>1, <1>8, <2>4, <3>5 DEF Scenario!Served, Scenario!Submitted, Scenario!Earlier
      <4>2. \A k \in DOMAIN a.accepted : a.accepted[k].id # c.id
        BY <3>5 DEF Scenario!Earlier
      <4>3. c.version <= a.version /\ c.version # a.version /\ c.version \in Nat /\ a.version \in Nat
        BY <1>1, <1>2, <2>1, <2>4, <3>1, <3>5 DEF ShownOK, ReadOK, Asked, Row
      <4> QED BY <4>1, <4>2, <4>3
    <3> QED BY <3>3, <3>4, <3>5
  <2>5. c.is \notin {"start", "submit"} => d.answer \in {"done", "conflict"}
    BY <1>1, <1>8 DEF Scenario!Served, Scenario!SetStatus, Asked
  <2>6. d.answer = "conflict" /\ d.is = "submit" => Scenario!Earlier(call[t])' = {}
    BY <1>7, <1>8, <2>3, <2>4 DEF Scenario!Earlier
  <2> QED BY <1>1, <1>7, <1>8, <2>1, <2>2, <2>3, <2>4, <2>5, <2>6 DEF CallOK
<1>13. LateOK' /\ DistinctIds'
  BY <1>1, <1>2, <1>4 DEF LateOK, DistinctIds, GrowsBy
<1> QED BY <1>4, <1>7, <1>10, <1>11, <1>12, <1>13 DEF ScenarioInv, TabOK

LEMMA ServeLateKeepsScenario ==
  ASSUME Stepped, ScenarioInv, NEW r \in late, Scenario!ServeLate(r)
  PROVE  ScenarioInv'
<1>1. /\ ScenarioType /\ RowsOK /\ LateOK /\ DistinctIds /\ r \in Asked
      /\ attempts' = Scenario!Served(r).attempts /\ Len(attempts') <= MaxAttempts
      /\ UNCHANGED <<page, saved, typed, call, ids>> /\ late' \subseteq late
  BY DEF ScenarioInv, ScenarioType, Scenario!ServeLate
<1>2. GrowsBy(r) /\ RowsOK' /\ attempts' \in Seq(Row)
  BY <1>1, ServedGrows DEF LateOK
<1>3. ASSUME NEW t \in Tab PROVE TabOK(t)'
  <2>1. Agrees(t, r)
    <3>1. OwnOK(t)
      BY DEF ScenarioInv, TabOK
    <3> QED BY <3>1 DEF OwnOK, Agrees
  <2>2. call'[t] = call[t]
    BY <1>1
  <2> QED BY <1>1, <1>2, <2>1, <2>2, ServerKeepsTab DEF TabOK
<1>4. ScenarioType' /\ LateOK' /\ DistinctIds'
  BY <1>1, <1>2 DEF ScenarioType, LateOK, DistinctIds, GrowsBy
<1> QED BY <1>2, <1>3, <1>4 DEF ScenarioInv

-----------------------------------------------------------------------------

\* What tab t does on its own: the attempts stay, and so do the other tabs.
Moves(t) ==
  /\ attempts' = attempts
  /\ \A u \in Tab \ {t} : page'[u] = page[u] /\ saved'[u] = saved[u] /\ typed'[u] = typed[u] /\ call'[u] = call[u]
  /\ ids' >= ids
  /\ late' \subseteq late \cup {call[t]}
  /\ page'[t].identity # Nothing => page'[t].identity = page[t].identity \/ page'[t].identity.id > ids

LEMMA OneTabMoves ==
  ASSUME Stepped, ScenarioInv, NEW t \in Tab, ScenarioType', Moves(t), TabOK(t)'
  PROVE  ScenarioInv'
<1>1. /\ ScenarioType /\ RowsOK /\ LateOK /\ DistinctIds /\ Nothing \notin late' /\ ids \in Nat /\ ids' \in Nat
      /\ attempts' = attempts
  BY DEF ScenarioInv, ScenarioType, Stepped, Moves
<1>2. 1 .. ids \subseteq 1 .. ids'
  BY <1>1 DEF Moves
<1>3. RowsOK'
  BY <1>1, <1>2 DEF RowsOK, RowOK
<1>4. call[t] # Nothing =>
        /\ call[t].is # "start" => call[t].n \in DOMAIN attempts
        /\ call[t].is = "submit" => /\ call[t].id \in 1 .. ids
                                    /\ page[t].identity # Nothing /\ call[t].id = page[t].identity.id
  BY DEF ScenarioInv, TabOK, CallOK, ShownOK, ReadOK, OwnOK
<1>5. LateOK'
  BY <1>1, <1>2, <1>4 DEF LateOK, Moves
<1>6. ASSUME NEW u \in Tab \ {t}, page[u].identity # Nothing
      PROVE  page'[u] = page[u] /\ page[u].identity.id \in 1 .. ids
             /\ (page'[t].identity # Nothing => page'[t].identity.id # page[u].identity.id)
  <2>1. page'[u] = page[u] /\ page[u].identity.id \in 1 .. ids
    BY <1>6 DEF ScenarioInv, TabOK, OwnOK, Moves
  <2>2. CASE page'[t].identity # Nothing /\ page'[t].identity = page[t].identity
    BY <1>1, <1>6, <2>1, <2>2 DEF DistinctIds
  <2>3. CASE page'[t].identity # Nothing /\ page'[t].identity.id > ids
    BY <1>1, <2>1, <2>3
  <2> QED BY <2>1, <2>2, <2>3 DEF Moves
<1>7. DistinctIds'
  BY <1>1, <1>6 DEF DistinctIds, Moves
<1>8. ASSUME NEW u \in Tab \ {t} PROVE TabOK(u)'
  <2>1. page'[u] = page[u] /\ saved'[u] = saved[u] /\ typed'[u] = typed[u] /\ call'[u] = call[u]
    BY DEF Moves
  <2>2. ShownOK(u) /\ TypedOK(u) /\ DraftOK(u) /\ CallOK(u) /\ OwnOK(u)
    BY DEF ScenarioInv, TabOK
  <2>3. ShownOK(u)' /\ TypedOK(u)'
    BY <1>1, <2>1, <2>2 DEF ShownOK, TypedOK, ReadOK
  <2>4. DraftOK(u)'
    BY <1>1, <2>1, <2>2 DEF DraftOK, Scenario!Accepted
  <2>5. CallOK(u)'
    <3>1. Scenario!Earlier(call[u])' = Scenario!Earlier(call[u])
      BY <1>1, <2>1 DEF Scenario!Earlier
    <3> QED BY <1>1, <2>1, <2>2, <3>1 DEF CallOK
  <2>6. ASSUME page[u].identity # Nothing, NEW r \in late' PROVE Agrees(u, r)
    <3>1. CASE r \in late
      BY <2>2, <2>6, <3>1 DEF OwnOK
    <3>2. CASE r = call[t]
      BY <1>1, <1>4, <2>6, <3>2 DEF Agrees, DistinctIds
    <3> QED BY <2>6, <3>1, <3>2 DEF Moves
  <2>7. OwnOK(u)'
    BY <1>1, <1>2, <2>1, <2>2, <2>6 DEF OwnOK, Agrees
  <2> QED BY <2>3, <2>4, <2>5, <2>7 DEF TabOK
<1> QED BY <1>3, <1>5, <1>7, <1>8 DEF ScenarioInv

\* The places of the tab t after a move.
LEMMA MovedType ==
  ASSUME ScenarioType, NEW t \in Tab, NEW p \in Page, NEW c \in Asked \cup {Nothing},
         NEW s \in [Scenario!Place -> Scenario!Draft], NEW y \in [Scenario!Place -> Scenario!Draft],
         attempts' = attempts, page' = [page EXCEPT ![t] = p], call' = [call EXCEPT ![t] = c],
         saved' = [saved EXCEPT ![t] = s], typed' = [typed EXCEPT ![t] = y],
         late' \subseteq (late \cup {call[t]}) \ {Nothing}, ids' \in Nat
  PROVE  /\ ScenarioType'
         /\ page'[t] = p /\ call'[t] = c /\ saved'[t] = s /\ typed'[t] = y
         /\ \A u \in Tab \ {t} :
              page'[u] = page[u] /\ saved'[u] = saved[u] /\ typed'[u] = typed[u] /\ call'[u] = call[u]
<1>1. page' \in [Tab -> Page] /\ call' \in [Tab -> Asked \cup {Nothing}]
  BY DEF ScenarioType
<1>2. /\ saved' \in [Tab -> [Scenario!Place -> Scenario!Draft]]
      /\ typed' \in [Tab -> [Scenario!Place -> Scenario!Draft]]
  BY DEF ScenarioType
<1>3. late' \subseteq Asked
  BY DEF ScenarioType
<1> QED BY <1>1, <1>2, <1>3 DEF ScenarioType

\* A draft that is written where it belongs.
LEMMA WrittenDraft ==
  ASSUME Stepped, ScenarioInv, NEW t \in Tab, Scenario!HasStep(page[t].attempt),
         NEW q \in Scenario!Place, typed[t][q] # Empty, ~ Scenario!Accepted(q)
  PROVE  [saved[t] EXCEPT ![Scenario!PlaceOf(page[t].attempt)] = page[t].draft][q] = typed[t][q]
<1> DEFINE p == page[t]
           o == Scenario!PlaceOf(page[t].attempt)
<1>1. /\ p \in Page /\ ShownOK(t) /\ TypedOK(t) /\ DraftOK(t) /\ ScenarioType /\ RowsOK
      /\ saved[t] \in [Scenario!Place -> Scenario!Draft]
  BY ScenarioShapes DEF ScenarioInv, TabOK
<1>2. p.attempt \in Shot /\ ReadOK(p.attempt) /\ p.attempt # Nothing
  BY <1>1 DEF Scenario!HasStep, Page, ShownOK
<1>3. o \in Scenario!Place /\ o[1] = p.attempt.n /\ o[2] = p.attempt.position
  BY <1>1, <1>2, StepPlace DEF Scenario!HasStep
<1>4. saved[t][q] = typed[t][q]
  BY <1>1 DEF DraftOK
<1>5. ASSUME q = o PROVE p.draft = typed[t][q]
  <2>1. p.feedback = Nothing
    <3>1. p.feedback # Nothing => q[2] < p.attempt.position
      BY <1>1, <1>2, <1>3, <1>5 DEF TypedOK
    <3>2. p.attempt.position \in Nat
      BY <1>2 DEF Shot
    <3> QED BY <1>3, <1>5, <3>1, <3>2
  <2>2. p.owner = q
    BY <1>1, <1>5, <2>1 DEF ShownOK
  <2> QED BY <1>1, <2>1, <2>2 DEF DraftOK
<1> QED BY <1>1, <1>4, <1>5

LEMMA SameEntry ==
  ASSUME NEW S, NEW T, NEW f \in [S -> T], NEW t \in S
  PROVE  f = [f EXCEPT ![t] = f[t]]
  OBVIOUS

\* A request that is no submission, as it is sent.
Sent(t, c) ==
  LET a == page[t].attempt IN
  /\ c \in Asked /\ c.answer = "sent"
  /\ \/ c.is = "start" /\ a = Nothing /\ c.n = 0
     \/ c.is \in {"pause", "resume", "resync"} /\ a # Nothing
        /\ c.n = a.n /\ c.position = a.position /\ c.version = a.version

\* What a page shows stays what it was while the attempts do.
LEMMA SameShown ==
  ASSUME NEW t \in Tab, UNCHANGED attempts, typed'[t] = typed[t], page'[t].attempt = page[t].attempt,
         page'[t].owner = page[t].owner, page'[t].feedback = page[t].feedback
  PROVE  (ShownOK(t) => ShownOK(t)') /\ (TypedOK(t) => TypedOK(t)')
<1>1. ASSUME ShownOK(t) PROVE ShownOK(t)'
  BY <1>1 DEF ShownOK, ReadOK
<1>2. ASSUME TypedOK(t) PROVE TypedOK(t)'
  BY <1>2 DEF TypedOK
<1> QED BY <1>1, <1>2

\* The page goes on with the answer it has.
LEMMA SteadyMove ==
  ASSUME Stepped, ScenarioInv, NEW t \in Tab, NEW p \in Page, NEW c \in Asked \cup {Nothing},
         NEW s \in [Scenario!Place -> Scenario!Draft],
         UNCHANGED <<attempts, typed, ids>>, page' = [page EXCEPT ![t] = p],
         call' = [call EXCEPT ![t] = c], saved' = [saved EXCEPT ![t] = s],
         late' \subseteq (late \cup {call[t]}) \ {Nothing},
         p.attempt = page[t].attempt, p.draft = page[t].draft, p.owner = page[t].owner,
         p.identity = page[t].identity, p.feedback = page[t].feedback,
         c = call[t] \/ c = Nothing \/ Sent(t, c),
         \/ s = saved[t]
         \/ /\ Scenario!HasStep(page[t].attempt)
            /\ s = [saved[t] EXCEPT ![Scenario!PlaceOf(page[t].attempt)] = page[t].draft]
  PROVE  ScenarioInv'
<1>1. /\ ScenarioType /\ RowsOK /\ LateOK /\ ids \in Nat
      /\ ShownOK(t) /\ TypedOK(t) /\ DraftOK(t) /\ CallOK(t) /\ OwnOK(t)
      /\ typed[t] \in [Scenario!Place -> Scenario!Draft]
  BY ScenarioShapes DEF ScenarioInv, TabOK, ScenarioType
<1>2. typed' = [typed EXCEPT ![t] = typed[t]]
  <2>1. typed \in [Tab -> [Scenario!Place -> Scenario!Draft]]
    BY <1>1 DEF ScenarioType
  <2> QED BY <2>1, SameEntry
<1>3. /\ ScenarioType'
      /\ page'[t] = p /\ call'[t] = c /\ saved'[t] = s /\ typed'[t] = typed[t]
      /\ \A u \in Tab \ {t} :
           page'[u] = page[u] /\ saved'[u] = saved[u] /\ typed'[u] = typed[u] /\ call'[u] = call[u]
  BY <1>1, <1>2, MovedType
<1>4. Moves(t)
  BY <1>1, <1>3 DEF Moves
<1>5. ShownOK(t)' /\ TypedOK(t)'
  <2>1. /\ attempts' = attempts /\ typed'[t] = typed[t] /\ page'[t].attempt = page[t].attempt
        /\ page'[t].owner = page[t].owner /\ page'[t].feedback = page[t].feedback
    BY <1>3
  <2> QED BY <1>1, <2>1, SameShown
<1>6. DraftOK(t)'
  <2>1. ASSUME NEW q \in Scenario!Place, typed[t][q] # Empty, ~ Scenario!Accepted(q) PROVE s[q] = typed[t][q]
    BY <1>1, <2>1, WrittenDraft DEF DraftOK
  <2>2. \A q \in Scenario!Place : Scenario!Accepted(q)' <=> Scenario!Accepted(q)
    BY DEF Scenario!Accepted
  <2> QED BY <1>1, <1>3, <2>1, <2>2 DEF DraftOK
<1>7. CallOK(t)'
  <2>1. CASE c = call[t]
    <3>1. call'[t] = call[t] /\ attempts' = attempts
      BY <1>3, <2>1
    <3>2. Scenario!Earlier(call[t])' = Scenario!Earlier(call[t])
      BY <3>1 DEF Scenario!Earlier
    <3>3. /\ page'[t].attempt = page[t].attempt /\ page'[t].identity = page[t].identity
          /\ page'[t].feedback = page[t].feedback
      BY <1>3
    <3> QED BY <1>1, <3>1, <3>2, <3>3 DEF CallOK
  <2>2. CASE c = Nothing
    BY <1>3, <2>2 DEF CallOK
  <2>3. CASE Sent(t, c)
    BY <1>3, <2>3 DEF CallOK, Sent
  <2> QED BY <2>1, <2>2, <2>3
<1>8. OwnOK(t)'
  <2>1. ASSUME page[t].identity # Nothing, NEW r \in late' PROVE Agrees(t, r)
    <3>1. CASE r \in late
      BY <1>1, <2>1, <3>1 DEF OwnOK
    <3>2. CASE r = call[t] /\ r # Nothing
      BY <1>1, <2>1, <3>2 DEF Agrees, CallOK, ShownOK, ScenarioType, Page, Shot
    <3> QED BY <3>1, <3>2
  <2> QED BY <1>1, <1>3, <2>1 DEF OwnOK, Agrees
<1>9. TabOK(t)'
  BY <1>5, <1>6, <1>7, <1>8 DEF TabOK
<1> QED BY <1>3, <1>4, <1>9, OneTabMoves

\* The page is closed or loaded again.
LEMMA ClosedPage ==
  ASSUME Stepped, ScenarioInv, NEW t \in Tab, NEW p \in Page,
         NEW s \in [Scenario!Place -> Scenario!Draft],
         UNCHANGED <<attempts, typed, ids>>, page' = [page EXCEPT ![t] = p],
         call' = [call EXCEPT ![t] = Nothing], saved' = [saved EXCEPT ![t] = s],
         late' \subseteq (late \cup {call[t]}) \ {Nothing},
         p.attempt = Nothing, p.owner = Nothing, p.identity = Nothing, p.feedback = Nothing,
         \/ s = saved[t]
         \/ /\ Scenario!HasStep(page[t].attempt)
            /\ s = [saved[t] EXCEPT ![Scenario!PlaceOf(page[t].attempt)] = page[t].draft]
  PROVE  ScenarioInv'
<1>1. /\ ScenarioType /\ ids \in Nat /\ TypedOK(t) /\ DraftOK(t)
      /\ typed[t] \in [Scenario!Place -> Scenario!Draft]
  BY ScenarioShapes DEF ScenarioInv, TabOK, ScenarioType
<1>2. typed' = [typed EXCEPT ![t] = typed[t]]
  <2>1. typed \in [Tab -> [Scenario!Place -> Scenario!Draft]]
    BY <1>1 DEF ScenarioType
  <2> QED BY <2>1, SameEntry
<1>3. /\ ScenarioType'
      /\ page'[t] = p /\ call'[t] = Nothing /\ saved'[t] = s /\ typed'[t] = typed[t]
      /\ \A u \in Tab \ {t} :
           page'[u] = page[u] /\ saved'[u] = saved[u] /\ typed'[u] = typed[u] /\ call'[u] = call[u]
  <2>1. Nothing \in Asked \cup {Nothing}
    OBVIOUS
  <2> QED BY <1>1, <1>2, <2>1, MovedType
<1>4. Moves(t)
  BY <1>1, <1>3 DEF Moves
<1>5. DraftOK(t)'
  <2>1. ASSUME NEW q \in Scenario!Place, typed[t][q] # Empty, ~ Scenario!Accepted(q) PROVE s[q] = typed[t][q]
    BY <1>1, <2>1, WrittenDraft DEF DraftOK
  <2>2. \A q \in Scenario!Place : (Scenario!Accepted(q)' <=> Scenario!Accepted(q)) /\ q # Nothing
    BY DEF Scenario!Accepted, Stepped
  <2> QED BY <1>3, <2>1, <2>2 DEF DraftOK
<1>6. ShownOK(t)' /\ TypedOK(t)' /\ CallOK(t)' /\ OwnOK(t)'
  BY <1>1, <1>3 DEF ShownOK, TypedOK, CallOK, OwnOK, Scenario!HasStep
<1>7. TabOK(t)'
  BY <1>5, <1>6 DEF TabOK
<1> QED BY <1>3, <1>4, <1>7, OneTabMoves

LEMMA SteadyActions ==
  ASSUME Stepped, ScenarioInv, NEW t \in Tab,
         \/ Scenario!DetailLoads(t) \/ Scenario!DetailFails(t) \/ Scenario!DetailAgain(t)
         \/ Scenario!StartAttempt(t) \/ Scenario!ResumeAttempt(t) \/ Scenario!PauseAttempt(t)
         \/ Scenario!OpenDialog(t) \/ Scenario!CloseDialog(t)
         \/ Scenario!Conflict(t) \/ Scenario!CallFails(t)
  PROVE  ScenarioInv'
<1>1. /\ page[t] \in Page /\ call[t] \in Asked \cup {Nothing} /\ saved[t] \in [Scenario!Place -> Scenario!Draft]
      /\ page \in [Tab -> Page] /\ call \in [Tab -> Asked \cup {Nothing}]
      /\ saved \in [Tab -> [Scenario!Place -> Scenario!Draft]] /\ late \subseteq Asked /\ Nothing \notin Asked
      /\ CallOK(t) /\ ShownOK(t) /\ ScenarioType /\ RowsOK
  BY ScenarioShapes DEF ScenarioInv, ScenarioType, TabOK, Stepped
<1>2. /\ page = [page EXCEPT ![t] = page[t]] /\ call = [call EXCEPT ![t] = call[t]]
      /\ saved = [saved EXCEPT ![t] = saved[t]]
  BY <1>1, SameEntry
<1>3. late \subseteq (late \cup {call[t]}) \ {Nothing}
  BY <1>1
<1>4. CASE \/ Scenario!DetailLoads(t) \/ Scenario!DetailFails(t) \/ Scenario!DetailAgain(t)
           \/ Scenario!OpenDialog(t) \/ Scenario!CloseDialog(t)
  <2>1. /\ UNCHANGED <<attempts, typed, ids, saved, call, late>>
        /\ \/ \E at \in {"shown", "failed", "loading"} : page' = [page EXCEPT ![t].at = at]
           \/ \E dialog \in BOOLEAN : page' = [page EXCEPT ![t].dialog = dialog]
    BY <1>4 DEF Scenario!DetailLoads, Scenario!DetailFails, Scenario!DetailAgain, Scenario!OpenDialog,
       Scenario!CloseDialog
  <2>2. PICK p \in Page :
          /\ page' = [page EXCEPT ![t] = p]
          /\ p.attempt = page[t].attempt /\ p.draft = page[t].draft /\ p.owner = page[t].owner
          /\ p.identity = page[t].identity /\ p.feedback = page[t].feedback
    <3>1. ASSUME NEW at \in {"shown", "failed", "loading"}, page' = [page EXCEPT ![t].at = at]
          PROVE  \E p \in Page :
                   /\ page' = [page EXCEPT ![t] = p]
                   /\ p.attempt = page[t].attempt /\ p.draft = page[t].draft /\ p.owner = page[t].owner
                   /\ p.identity = page[t].identity /\ p.feedback = page[t].feedback
      <4>1. PICK p : p = [page[t] EXCEPT !.at = at]
        OBVIOUS
      <4>2. p \in Page
        BY <1>1, <4>1 DEF Page
      <4>3. /\ p.attempt = page[t].attempt /\ p.draft = page[t].draft /\ p.owner = page[t].owner
            /\ p.identity = page[t].identity /\ p.feedback = page[t].feedback
        BY <1>1, <4>1 DEF Page
      <4> QED BY <3>1, <4>1, <4>2, <4>3
    <3>2. ASSUME NEW dialog \in BOOLEAN, page' = [page EXCEPT ![t].dialog = dialog]
          PROVE  \E p \in Page :
                   /\ page' = [page EXCEPT ![t] = p]
                   /\ p.attempt = page[t].attempt /\ p.draft = page[t].draft /\ p.owner = page[t].owner
                   /\ p.identity = page[t].identity /\ p.feedback = page[t].feedback
      <4>1. PICK p : p = [page[t] EXCEPT !.dialog = dialog]
        OBVIOUS
      <4>2. p \in Page
        BY <1>1, <4>1 DEF Page
      <4>3. /\ p.attempt = page[t].attempt /\ p.draft = page[t].draft /\ p.owner = page[t].owner
            /\ p.identity = page[t].identity /\ p.feedback = page[t].feedback
        BY <1>1, <4>1 DEF Page
      <4> QED BY <3>2, <4>1, <4>2, <4>3
    <3> QED BY <2>1, <3>1, <3>2
  <2>3. call' = [call EXCEPT ![t] = call[t]] /\ saved' = [saved EXCEPT ![t] = saved[t]]
        /\ late' \subseteq (late \cup {call[t]}) \ {Nothing}
    BY <1>2, <1>3, <2>1
  <2>4. call[t] \in Asked \cup {Nothing} /\ saved[t] \in [Scenario!Place -> Scenario!Draft]
    BY <1>1
  <2>5. UNCHANGED <<attempts, typed, ids>>
    BY <2>1
  <2> QED BY <2>2, <2>3, <2>4, <2>5, SteadyMove
<1>5. ASSUME NEW c \in Asked \cup {Nothing}, NEW s \in [Scenario!Place -> Scenario!Draft],
             UNCHANGED <<attempts, typed, ids, page>>,
             call' = [call EXCEPT ![t] = c], saved' = [saved EXCEPT ![t] = s],
             late' \subseteq (late \cup {call[t]}) \ {Nothing}, c = Nothing \/ Sent(t, c),
             \/ s = saved[t]
             \/ /\ Scenario!HasStep(page[t].attempt)
                /\ s = [saved[t] EXCEPT ![Scenario!PlaceOf(page[t].attempt)] = page[t].draft]
      PROVE  ScenarioInv'
  BY <1>1, <1>2, <1>5, SteadyMove
<1>6. ASSUME NEW is \in {"pause", "resume", "resync"}, page[t].attempt # Nothing, NEW leaves \in BOOLEAN
      PROVE  Sent(t, [Scenario!Request(is, page[t].attempt) EXCEPT !.leaves = leaves])
             /\ Sent(t, Scenario!Request(is, page[t].attempt))
  <2>1. page[t].attempt \in Shot
    BY <1>1, <1>6 DEF Page
  <2> QED BY <1>6, <2>1 DEF Sent, Scenario!Request, Asked, Shot, Scenario!Draft
<1>7. CASE Scenario!StartAttempt(t)
  <2>1. Sent(t, Scenario!Request("start", [n |-> 0, position |-> 0, version |-> 0]))
    BY <1>7 DEF Scenario!StartAttempt, Sent, Scenario!Request, Asked, Scenario!Draft
  <2> QED BY <1>1, <1>2, <1>3, <1>5, <1>7, <2>1 DEF Scenario!StartAttempt, Scenario!Sends, Sent
<1>8. CASE Scenario!ResumeAttempt(t)
  <2>1. page[t].attempt # Nothing
    BY <1>8 DEF Scenario!ResumeAttempt, Scenario!Is
  <2> QED BY <1>1, <1>2, <1>3, <1>5, <1>6, <1>8, <2>1 DEF Scenario!ResumeAttempt, Scenario!Sends, Sent
<1>9. CASE Scenario!PauseAttempt(t)
  <2>1. page[t].attempt # Nothing /\ Scenario!HasStep(page[t].attempt) /\ page[t].dialog \in BOOLEAN
    BY <1>1, <1>9 DEF Scenario!PauseAttempt, Scenario!Is, Scenario!HasStep, Page
  <2>2. PICK s : s = [saved[t] EXCEPT ![Scenario!PlaceOf(page[t].attempt)] = page[t].draft]
    OBVIOUS
  <2>3. s \in [Scenario!Place -> Scenario!Draft]
    BY <1>1, <2>2 DEF Page
  <2>4. PICK c : c = [Scenario!Request("pause", page[t].attempt) EXCEPT !.leaves = page[t].dialog]
    OBVIOUS
  <2>5. Sent(t, c) /\ c \in Asked
    <3>1. Sent(t, [Scenario!Request("pause", page[t].attempt) EXCEPT !.leaves = page[t].dialog])
      BY <1>6, <2>1
    <3>2. Sent(t, c)
      BY <2>4, <3>1
    <3> QED BY <3>2 DEF Sent
  <2>6. /\ UNCHANGED <<attempts, typed, ids, page, late>> /\ call' = [call EXCEPT ![t] = c]
        /\ saved' = [saved EXCEPT ![t] = s]
    BY <1>9, <2>2, <2>4 DEF Scenario!PauseAttempt, Scenario!Sends
  <2> QED BY <1>3, <1>5, <2>1, <2>2, <2>3, <2>5, <2>6
<1>10. CASE Scenario!Conflict(t)
  <2>1. page[t].attempt # Nothing
    BY <1>1, <1>10 DEF Scenario!Conflict, CallOK
  <2> QED BY <1>1, <1>2, <1>3, <1>5, <1>6, <1>10, <2>1 DEF Scenario!Conflict, Scenario!Sends, Sent
<1>11. CASE Scenario!CallFails(t)
  <2>1. /\ UNCHANGED <<attempts, typed, ids, page, saved>> /\ call' = [call EXCEPT ![t] = Nothing]
        /\ late' \subseteq (late \cup {call[t]}) \ {Nothing}
    BY <1>1, <1>11 DEF Scenario!CallFails, Scenario!Gone
  <2> QED BY <1>1, <1>2, <1>5, <2>1
<1> QED BY <1>4, <1>7, <1>8, <1>9, <1>10, <1>11

LEMMA ClosingActions ==
  ASSUME Stepped, ScenarioInv, NEW t \in Tab, Scenario!Open(t) \/ Scenario!Leave(t)
  PROVE  ScenarioInv'
<1>1. /\ page[t] \in Page /\ saved[t] \in [Scenario!Place -> Scenario!Draft]
      /\ saved \in [Tab -> [Scenario!Place -> Scenario!Draft]] /\ late \subseteq Asked /\ Nothing \notin Asked
  BY ScenarioShapes DEF ScenarioInv, ScenarioType, Stepped
<1>2. saved = [saved EXCEPT ![t] = saved[t]]
  BY <1>1, SameEntry
<1>3. /\ UNCHANGED <<attempts, typed, ids>> /\ call' = [call EXCEPT ![t] = Nothing]
      /\ late' \subseteq (late \cup {call[t]}) \ {Nothing}
  BY <1>1 DEF Scenario!Open, Scenario!Leave, Scenario!Gone
<1>4. PICK p \in Page :
        /\ page' = [page EXCEPT ![t] = p]
        /\ p.attempt = Nothing /\ p.owner = Nothing /\ p.identity = Nothing /\ p.feedback = Nothing
  <2>1. Scenario!Closed \in Page /\ [Scenario!Closed EXCEPT !.at = "loading"] \in Page
    BY DEF Scenario!Closed, Page, Scenario!Draft
  <2> QED BY <2>1 DEF Scenario!Open, Scenario!Leave, Scenario!Closed
<1>5. PICK s \in [Scenario!Place -> Scenario!Draft] :
        /\ saved' = [saved EXCEPT ![t] = s]
        /\ \/ s = saved[t]
           \/ /\ Scenario!HasStep(page[t].attempt)
              /\ s = [saved[t] EXCEPT ![Scenario!PlaceOf(page[t].attempt)] = page[t].draft]
  <2>1. [saved[t] EXCEPT ![Scenario!PlaceOf(page[t].attempt)] = page[t].draft]
          \in [Scenario!Place -> Scenario!Draft]
    BY <1>1 DEF Page
  <2>2. \/ saved' = saved
        \/ /\ Scenario!HasStep(page[t].attempt)
           /\ saved' = [saved EXCEPT ![t][Scenario!PlaceOf(page[t].attempt)] = page[t].draft]
    BY DEF Scenario!Open, Scenario!Leave
  <2> QED BY <1>1, <1>2, <2>1, <2>2
<1> QED BY <1>3, <1>4, <1>5, ClosedPage

\* The attempt as it is read now.
LEMMA ReadNow ==
  ASSUME Stepped, ScenarioInv, NEW n \in DOMAIN attempts
  PROVE  /\ Scenario!Snapshot(n) \in Shot /\ Scenario!Snapshot(n) # Nothing /\ ReadOK(Scenario!Snapshot(n))
         /\ Scenario!Snapshot(n).n = n /\ Scenario!Snapshot(n).position = attempts[n].position
         /\ Scenario!Snapshot(n).version = attempts[n].version
<1>1. attempts[n] \in Row /\ RowOK(attempts[n], ids) /\ n \in Nat
  BY ScenarioShapes DEF ScenarioInv, RowsOK
<1>2. /\ attempts[n].status \in Scenario!Status /\ attempts[n].position \in Nat /\ attempts[n].version \in Nat
      /\ (attempts[n].status = "completed" <=> attempts[n].position = ScenarioSteps)
  BY <1>1 DEF Row, RowOK
<1>3. PICK a : a = Scenario!Snapshot(n)
  OBVIOUS
<1>4. /\ a \in Shot /\ a.n = n /\ a.position = attempts[n].position /\ a.version = attempts[n].version
      /\ a.status = attempts[n].status
  BY <1>1, <1>2, <1>3 DEF Scenario!Snapshot, Shot
<1>5. ReadOK(a)
  BY <1>2, <1>4 DEF ReadOK
<1> QED BY <1>3, <1>4, <1>5 DEF Stepped

\* The places after the tab t was shown the page p.
LEMMA ShownMove ==
  ASSUME ScenarioType, NEW t \in Tab, NEW p \in Page, NEW s \in [Scenario!Place -> Scenario!Draft],
         UNCHANGED <<attempts, typed, ids, late>>, page' = [page EXCEPT ![t] = p],
         call' = [call EXCEPT ![t] = Nothing], saved' = [saved EXCEPT ![t] = s]
  PROVE  /\ ScenarioType'
         /\ page'[t] = p /\ call'[t] = Nothing /\ saved'[t] = s /\ typed'[t] = typed[t]
         /\ \A u \in Tab \ {t} :
              page'[u] = page[u] /\ saved'[u] = saved[u] /\ typed'[u] = typed[u] /\ call'[u] = call[u]
  BY DEF ScenarioType

\* adoptAttempt: the page goes on at the step the attempt has come to, with the draft
\* that was kept for it.
LEMMA AdoptedMove ==
  ASSUME Stepped, ScenarioInv, NEW t \in Tab, NEW a \in Shot, ReadOK(a), NEW preserve \in BOOLEAN,
         NEW p \in Page, NEW q, q = Scenario!Adopted(t, a, preserve),
         p.attempt = q.attempt, p.draft = q.draft, p.owner = q.owner, p.identity = q.identity,
         p.feedback \in {Nothing, page[t].feedback},
         preserve => /\ p.feedback = page[t].feedback
                     /\ page[t].attempt # Nothing /\ page[t].attempt.n = a.n
                     /\ page[t].attempt.version <= a.version /\ a.position = attempts[a.n].position,
         \A x \in Scenario!Place : typed[t][x] # Empty /\ x[1] = a.n =>
           x[2] <= a.position /\ (p.feedback # Nothing => x[2] < a.position),
         UNCHANGED <<attempts, typed, ids, late>>, page' = [page EXCEPT ![t] = p],
         call' = [call EXCEPT ![t] = Nothing], saved' = [saved EXCEPT ![t] = Scenario!Kept(p, saved[t])]
  PROVE  ScenarioInv'
<1> DEFINE o == Scenario!PlaceOf(a)
<1>1. /\ ScenarioType /\ RowsOK /\ ids \in Nat /\ late \subseteq Asked /\ Nothing \notin Asked
      /\ page[t] \in Page /\ ShownOK(t) /\ TypedOK(t) /\ DraftOK(t) /\ OwnOK(t)
      /\ typed[t] \in [Scenario!Place -> Scenario!Draft] /\ saved[t] \in [Scenario!Place -> Scenario!Draft]
  BY ScenarioShapes DEF ScenarioInv, TabOK, ScenarioType, Stepped
<1>2. a # Nothing /\ (Scenario!HasStep(a) <=> a.status # "completed")
  BY DEF Stepped, Scenario!HasStep
<1>3. Scenario!HasStep(a) =>
        o \in Scenario!Place /\ o # Nothing /\ o[1] = a.n /\ o[2] = a.position
  BY <1>1, <1>2, StepPlace
<1>4. /\ p.attempt = a
      /\ \/ ~ Scenario!HasStep(a) /\ p.owner = Nothing /\ p.identity = Nothing
         \/ /\ Scenario!HasStep(a) /\ p.owner = o /\ preserve /\ page[t].owner = o
            /\ p.draft = page[t].draft /\ p.identity = page[t].identity
         \/ /\ Scenario!HasStep(a) /\ p.owner = o /\ p.draft = saved[t][o] /\ p.identity = Nothing
  BY <1>1, <1>2 DEF Scenario!Adopted, Page
<1>5. p.owner = IF Scenario!HasStep(a) THEN o ELSE Nothing
  BY <1>4
<1>6. ASSUME Scenario!HasStep(a), p.feedback = Nothing, typed[t][o] # Empty, ~ Scenario!Accepted(o)
      PROVE  p.draft = typed[t][o]
  <2>1. saved[t][o] = typed[t][o] /\ (page[t].owner = o /\ page[t].feedback = Nothing => page[t].draft = typed[t][o])
    BY <1>1, <1>3, <1>6 DEF DraftOK
  <2> QED BY <1>4, <1>6, <2>1
<1>7. PICK s : s = Scenario!Kept(p, saved[t])
  OBVIOUS
<1>8. s = saved[t] \/ (Scenario!HasStep(a) /\ p.feedback = Nothing /\ s = [saved[t] EXCEPT ![o] = p.draft])
  BY <1>4, <1>5, <1>7 DEF Scenario!Kept
<1>9. s \in [Scenario!Place -> Scenario!Draft]
  BY <1>1, <1>8 DEF Page
<1>10. saved' = [saved EXCEPT ![t] = s] /\ ids' \in Nat
  BY <1>1, <1>7
<1>11. /\ ScenarioType'
       /\ page'[t] = p /\ call'[t] = Nothing /\ saved'[t] = s /\ typed'[t] = typed[t]
       /\ \A u \in Tab \ {t} :
            page'[u] = page[u] /\ saved'[u] = saved[u] /\ typed'[u] = typed[u] /\ call'[u] = call[u]
  BY <1>1, <1>9, <1>10, ShownMove
<1>12. Moves(t)
  BY <1>1, <1>4, <1>11 DEF Moves
<1>13. ShownOK(t)'
  <2>1. p.feedback # Nothing => p.feedback = page[t].feedback
    OBVIOUS
  <2>2. ReadOK(a)' /\ p.attempt = a /\ page'[t] = p /\ a # Nothing /\ attempts' = attempts
    BY <1>2, <1>4, <1>11 DEF ReadOK
  <2>3. p.owner = IF Scenario!HasStep(p.attempt) THEN Scenario!PlaceOf(p.attempt) ELSE Nothing
    BY <1>4, <1>5
  <2>4. p.feedback # Nothing =>
          /\ p.feedback.place[1] \in DOMAIN attempts
          /\ p.feedback.place[2] + 1 \in DOMAIN attempts[p.feedback.place[1]].accepted
          /\ attempts[p.feedback.place[1]].accepted[p.feedback.place[2] + 1].draft = p.feedback.draft
    BY <1>1, <2>1 DEF ShownOK
  <2> QED BY <2>2, <2>3, <2>4 DEF ShownOK
<1>14. TypedOK(t)'
  BY <1>1, <1>4, <1>11 DEF TypedOK
<1>15. DraftOK(t)'
  <2>1. ASSUME NEW x \in Scenario!Place, typed[t][x] # Empty, ~ Scenario!Accepted(x) PROVE s[x] = typed[t][x]
    <3>1. saved[t][x] = typed[t][x]
      BY <1>1, <2>1 DEF DraftOK
    <3> QED BY <1>1, <1>6, <1>8, <2>1, <3>1
  <2>2. \A x \in Scenario!Place : (Scenario!Accepted(x)' <=> Scenario!Accepted(x)) /\ x # Nothing
    BY DEF Scenario!Accepted, Stepped
  <2>3. ASSUME NEW x \in Scenario!Place, typed[t][x] # Empty, ~ Scenario!Accepted(x),
               p.owner = x, p.feedback = Nothing
        PROVE  p.draft = typed[t][x]
    BY <1>5, <1>6, <2>2, <2>3
  <2> QED BY <1>11, <2>1, <2>2, <2>3 DEF DraftOK
<1>16. CallOK(t)'
  BY <1>11 DEF CallOK
<1>17. OwnOK(t)'
  <2>1. ASSUME p.identity # Nothing
        PROVE  /\ p.identity.id \in 1 .. ids
               /\ \A r \in late : Agrees(t, r)'
               /\ p.feedback = Nothing => \A n \in DOMAIN attempts : \A k \in DOMAIN attempts[n].accepted :
                    attempts[n].accepted[k].id # p.identity.id
    <3>1. /\ Scenario!HasStep(a) /\ preserve /\ page[t].owner = o /\ p.identity = page[t].identity
          /\ p.feedback = page[t].feedback /\ page[t].attempt # Nothing
          /\ page[t].attempt.n = a.n /\ page[t].attempt.version <= a.version /\ a.position = attempts[a.n].position
      BY <1>4, <2>1
    <3>2. p.feedback = Nothing => a.position = page[t].attempt.position
      <4>1. p.feedback = Nothing => page[t].owner = Scenario!PlaceOf(page[t].attempt)
        BY <1>1, <1>3, <3>1 DEF ShownOK
      <4> QED BY <3>1, <4>1 DEF Scenario!PlaceOf
    <3>3. ASSUME NEW r \in late PROVE Agrees(t, r)'
      <4>1. Agrees(t, r) /\ r.version \in Nat /\ a.version \in Nat
        BY <1>1, <2>1, <3>1 DEF OwnOK, Asked, Shot
      <4>2. page[t].attempt.version \in Nat
        BY <1>1, <3>1 DEF Page, Shot
      <4>3. page'[t].attempt = a /\ page'[t].identity = page[t].identity /\ page'[t].feedback = page[t].feedback
        BY <1>4, <1>11, <3>1
      <4>4. CASE r.is = "submit" /\ r.id = page[t].identity.id /\ page[t].feedback = Nothing
        <5>1. /\ r.n = page[t].attempt.n /\ r.position = page[t].attempt.position
              /\ r.draft = page[t].identity.draft /\ r.version <= page[t].attempt.version
          BY <2>1, <3>1, <4>1, <4>4 DEF Agrees
        <5>2. a.position = page[t].attempt.position /\ r.version <= a.version
          BY <3>1, <3>2, <4>1, <4>2, <4>4, <5>1
        <5> QED BY <3>1, <4>3, <5>1, <5>2 DEF Agrees
      <4>5. CASE ~ (r.is = "submit" /\ r.id = page[t].identity.id /\ page[t].feedback = Nothing)
        BY <4>3, <4>5 DEF Agrees
      <4> QED BY <4>4, <4>5
    <3>4. ASSUME p.feedback = Nothing, NEW n \in DOMAIN attempts, NEW k \in DOMAIN attempts[n].accepted,
                 attempts[n].accepted[k].id = p.identity.id
          PROVE  FALSE
      <4>1. /\ n = a.n
            /\ attempts[n].accepted[k].hash =
                 <<a.position, page[t].attempt.version, p.identity.draft>>
        <5>1. page[t].identity # Nothing /\ page[t].feedback = Nothing
              /\ attempts[n].accepted[k].id = page[t].identity.id
          BY <2>1, <3>1, <3>4
        <5>2. /\ n = page[t].attempt.n
              /\ attempts[n].accepted[k].hash =
                   <<page[t].attempt.position, page[t].attempt.version, page[t].identity.draft>>
          BY <1>1, <5>1 DEF OwnOK
        <5> QED BY <3>1, <3>2, <3>4, <5>2
      <4>2. /\ attempts[n] \in Row /\ Len(attempts[n].accepted) = a.position /\ a.position \in Nat
            /\ attempts[n].accepted[k].hash = <<k - 1, attempts[n].accepted[k].hash[2], attempts[n].accepted[k].draft>>
        BY <1>1, <3>1, <4>1, ScenarioShapes DEF RowsOK, RowOK, Shot
      <4>3. k \in 1 .. a.position
        BY <4>2 DEF Row
      <4>4. a.position = k - 1
        BY <4>1, <4>2
      <4> QED BY <4>3, <4>4
    <3> QED BY <1>1, <2>1, <3>1, <3>3, <3>4 DEF OwnOK
  <2> QED BY <1>1, <1>2, <1>4, <1>11, <2>1 DEF OwnOK
<1>18. TabOK(t)'
  BY <1>13, <1>14, <1>15, <1>16, <1>17 DEF TabOK
<1> QED BY <1>11, <1>12, <1>18, OneTabMoves

LEMMA ContinueKeepsScenario ==
  ASSUME Stepped, ScenarioInv, NEW t \in Tab, Scenario!Continue(t)
  PROVE  ScenarioInv'
<1> DEFINE a == page[t].attempt
<1>1. /\ ShownOK(t) /\ TypedOK(t) /\ page[t] \in Page /\ saved[t] \in [Scenario!Place -> Scenario!Draft]
      /\ call \in [Tab -> Asked \cup {Nothing}] /\ saved \in [Tab -> [Scenario!Place -> Scenario!Draft]]
      /\ ScenarioType /\ RowsOK
  BY ScenarioShapes DEF ScenarioInv, ScenarioType, TabOK
<1>2. /\ call[t] = Nothing /\ page[t].feedback # Nothing
      /\ UNCHANGED <<attempts, typed, call, late, ids>>
      /\ Scenario!Shows(t, [Scenario!Adopted(t, a, FALSE) EXCEPT !.feedback = Nothing])
  BY DEF Scenario!Continue, Scenario!Idle
<1>3. a \in Shot /\ a # Nothing /\ ReadOK(a)
  BY <1>1, <1>2 DEF ShownOK, Page
<1>4. PICK q : q = Scenario!Adopted(t, a, FALSE)
  OBVIOUS
<1>5. q \in Page
  <2>1. Scenario!HasStep(a) => Scenario!PlaceOf(a) \in Scenario!Place
    BY <1>1, <1>3, StepPlace DEF Scenario!HasStep
  <2> QED BY <1>1, <1>3, <1>4, <2>1 DEF Scenario!Adopted, Page, Scenario!Draft
<1>6. PICK p : p = [q EXCEPT !.feedback = Nothing]
  OBVIOUS
<1>7. /\ p \in Page /\ p.attempt = q.attempt /\ p.draft = q.draft /\ p.owner = q.owner
      /\ p.identity = q.identity /\ p.feedback = Nothing
  BY <1>5, <1>6 DEF Page
<1>8. page' = [page EXCEPT ![t] = p] /\ saved' = [saved EXCEPT ![t] = Scenario!Kept(p, saved[t])]
  BY <1>1, <1>2, <1>4, <1>6 DEF Scenario!Shows
<1>9. call' = [call EXCEPT ![t] = Nothing]
  <2>1. call = [call EXCEPT ![t] = call[t]]
    BY <1>1, SameEntry
  <2> QED BY <1>2, <2>1
<1>10. \A x \in Scenario!Place : typed[t][x] # Empty /\ x[1] = a.n =>
         x[2] <= a.position /\ (p.feedback # Nothing => x[2] < a.position)
  BY <1>1, <1>3, <1>7 DEF TypedOK
<1>11. UNCHANGED <<attempts, typed, ids, late>> /\ p.feedback \in {Nothing, page[t].feedback}
       /\ FALSE \in BOOLEAN
  BY <1>2, <1>7
<1> HIDE DEF a
<1> QED BY <1>3, <1>4, <1>7, <1>8, <1>9, <1>10, <1>11, AdoptedMove

LEMMA AdoptsKeepsScenario ==
  ASSUME Stepped, ScenarioInv, NEW t \in Tab, Scenario!Adopts(t)
  PROVE  ScenarioInv'
<1> DEFINE c == call[t]
           preserve == c.is # "start"
<1>1. /\ ShownOK(t) /\ TypedOK(t) /\ CallOK(t) /\ page[t] \in Page
      /\ saved[t] \in [Scenario!Place -> Scenario!Draft]
      /\ call \in [Tab -> Asked \cup {Nothing}] /\ saved \in [Tab -> [Scenario!Place -> Scenario!Draft]]
      /\ ScenarioType /\ RowsOK /\ late \subseteq Asked /\ Nothing \notin Asked
  BY ScenarioShapes DEF ScenarioInv, ScenarioType, TabOK, Stepped
<1>2. /\ c \in Asked /\ c # Nothing /\ c.answer = "done"
      /\ UNCHANGED <<attempts, typed, late, ids>> /\ call' = [call EXCEPT ![t] = Nothing]
  BY <1>1 DEF Scenario!Adopts, Scenario!Sends
<1>3. PICK a : a = Scenario!Snapshot(c.n)
  OBVIOUS
<1>4. c.n \in DOMAIN attempts
  BY <1>1, <1>2 DEF CallOK, ShownOK, ReadOK
<1>5. /\ a \in Shot /\ a # Nothing /\ ReadOK(a) /\ a.n = c.n
      /\ a.position = attempts[a.n].position /\ a.version = attempts[a.n].version
  BY <1>3, <1>4, ReadNow
<1>6. PICK q : q = Scenario!Adopted(t, a, preserve)
  OBVIOUS
<1>7. q \in Page /\ q.feedback = page[t].feedback
  <2>1. Scenario!HasStep(a) => Scenario!PlaceOf(a) \in Scenario!Place
    BY <1>1, <1>5, StepPlace DEF Scenario!HasStep
  <2> QED BY <1>1, <1>5, <1>6, <2>1 DEF Scenario!Adopted, Page, Scenario!Draft
<1>8. CASE c.leaves
  <2>1. Scenario!Closed \in Page /\ Scenario!Closed.attempt = Nothing /\ Scenario!Closed.owner = Nothing
        /\ Scenario!Closed.identity = Nothing /\ Scenario!Closed.feedback = Nothing
    BY DEF Scenario!Closed, Page, Scenario!Draft
  <2>2. page' = [page EXCEPT ![t] = Scenario!Closed] /\ saved' = saved
    BY <1>8 DEF Scenario!Adopts
  <2>3. saved' = [saved EXCEPT ![t] = saved[t]]
    BY <1>1, <2>2, SameEntry
  <2>4. late' \subseteq (late \cup {call[t]}) \ {Nothing}
    BY <1>1, <1>2
  <2> QED BY <1>1, <1>2, <2>1, <2>2, <2>3, <2>4, ClosedPage
<1>9. CASE ~ c.leaves
  <2>1. PICK p : /\ Scenario!Shows(t, p)
                 /\ p = CASE c.is = "start" -> [q EXCEPT !.feedback = Nothing]
                          [] c.is = "pause" -> [q EXCEPT !.dialog = FALSE]
                          [] OTHER -> q
    BY <1>3, <1>6, <1>9 DEF Scenario!Adopts
  <2>2. /\ p \in Page /\ p.attempt = q.attempt /\ p.draft = q.draft /\ p.owner = q.owner
        /\ p.identity = q.identity
        /\ p.feedback = IF c.is = "start" THEN Nothing ELSE page[t].feedback
    BY <1>7, <2>1 DEF Page
  <2>3. page' = [page EXCEPT ![t] = p] /\ saved' = [saved EXCEPT ![t] = Scenario!Kept(p, saved[t])]
    BY <1>1, <2>1 DEF Scenario!Shows
  <2>4. preserve => /\ page[t].attempt # Nothing /\ page[t].attempt.n = a.n
                    /\ page[t].attempt.version <= a.version /\ page[t].attempt.position <= a.position
    BY <1>1, <1>2, <1>5 DEF CallOK, ShownOK, ReadOK
  <2>5. ASSUME NEW x \in Scenario!Place, typed[t][x] # Empty, x[1] = a.n
        PROVE  x[2] <= a.position /\ (p.feedback # Nothing => x[2] < a.position)
    <3>1. x[2] <= a.position
      BY <1>1, <1>5, <2>5 DEF TypedOK
    <3>2. ASSUME p.feedback # Nothing PROVE x[2] < a.position
      <4>1. preserve /\ page[t].feedback # Nothing
        BY <2>2, <3>2
      <4>2. x[2] < page[t].attempt.position /\ page[t].attempt.position <= a.position
        <5>1. page[t].attempt # Nothing /\ page[t].attempt.n = x[1] /\ page[t].attempt.position <= a.position
          BY <2>4, <2>5, <4>1
        <5> QED BY <1>1, <2>5, <4>1, <5>1 DEF TypedOK
      <4>3. x[2] \in Nat /\ a.position \in Nat /\ page[t].attempt.position \in Nat
        <5>1. x[2] \in Nat
          BY DEF Scenario!Place, Stepped
        <5>2. page[t].attempt \in Shot
          BY <1>1, <2>4, <4>1 DEF Page
        <5> QED BY <1>5, <5>1, <5>2 DEF Shot
      <4> QED BY <4>2, <4>3
    <3> QED BY <3>1, <3>2
  <2>6. preserve \in BOOLEAN /\ p.feedback \in {Nothing, page[t].feedback}
        /\ (preserve => p.feedback = page[t].feedback)
    BY <2>2
  <2>7. /\ preserve => /\ p.feedback = page[t].feedback
                       /\ page[t].attempt # Nothing /\ page[t].attempt.n = a.n
                       /\ page[t].attempt.version <= a.version /\ a.position = attempts[a.n].position
        /\ UNCHANGED <<attempts, typed, ids, late>> /\ call' = [call EXCEPT ![t] = Nothing]
    BY <1>2, <1>5, <2>4, <2>6
  <2>8. a \in Shot /\ ReadOK(a)
    BY <1>5
  <2> HIDE DEF preserve
  <2> QED BY <1>6, <2>2, <2>3, <2>5, <2>6, <2>7, <2>8, AdoptedMove
<1> QED BY <1>8, <1>9

LEMMA EditKeepsScenario ==
  ASSUME Stepped, ScenarioInv, NEW t \in Tab, NEW text \in Scenario!Draft, Scenario!Edit(t, text)
  PROVE  ScenarioInv'
<1> DEFINE o == Scenario!PlaceOf(page[t].attempt)
<1>1. /\ ScenarioType /\ RowsOK /\ ids \in Nat /\ late \subseteq Asked /\ Nothing \notin Asked
      /\ page[t] \in Page /\ ShownOK(t) /\ TypedOK(t) /\ DraftOK(t) /\ OwnOK(t)
      /\ typed[t] \in [Scenario!Place -> Scenario!Draft] /\ saved[t] \in [Scenario!Place -> Scenario!Draft]
      /\ call \in [Tab -> Asked \cup {Nothing}] /\ saved \in [Tab -> [Scenario!Place -> Scenario!Draft]]
      /\ typed \in [Tab -> [Scenario!Place -> Scenario!Draft]]
  BY ScenarioShapes DEF ScenarioInv, TabOK, ScenarioType, Stepped
<1>2. /\ call[t] = Nothing /\ page[t].feedback = Nothing
      /\ page[t].attempt # Nothing /\ page[t].attempt.status = "active"
      /\ UNCHANGED <<attempts, call, late, ids>>
      /\ Scenario!Shows(t, [page[t] EXCEPT !.draft = text])
      /\ typed' = [typed EXCEPT ![t][page[t].owner] = text]
  BY DEF Scenario!Edit, Scenario!Editing, Scenario!Idle, Scenario!Is
<1>3. /\ page[t].attempt \in Shot /\ ReadOK(page[t].attempt) /\ Scenario!HasStep(page[t].attempt)
      /\ page[t].owner = o
  BY <1>1, <1>2 DEF ShownOK, Page, Scenario!HasStep
<1>4. o \in Scenario!Place /\ o # Nothing /\ o[1] = page[t].attempt.n /\ o[2] = page[t].attempt.position
  BY <1>1, <1>2, <1>3, StepPlace
<1>5. PICK p : p = [page[t] EXCEPT !.draft = text]
  OBVIOUS
<1>6. /\ p \in Page /\ p.attempt = page[t].attempt /\ p.owner = o /\ p.identity = page[t].identity
      /\ p.feedback = Nothing /\ p.draft = text
  BY <1>1, <1>2, <1>3, <1>5 DEF Page
<1>7. PICK s : s = [saved[t] EXCEPT ![o] = text]
  OBVIOUS
<1>8. PICK y : y = [typed[t] EXCEPT ![o] = text]
  OBVIOUS
<1>9. s \in [Scenario!Place -> Scenario!Draft] /\ y \in [Scenario!Place -> Scenario!Draft]
  BY <1>1, <1>7, <1>8
<1>10. Scenario!Kept(p, saved[t]) = s
  BY <1>3, <1>6, <1>7 DEF Scenario!Kept
<1>11. /\ page' = [page EXCEPT ![t] = p] /\ saved' = [saved EXCEPT ![t] = s] /\ typed' = [typed EXCEPT ![t] = y]
  BY <1>1, <1>2, <1>3, <1>5, <1>8, <1>10 DEF Scenario!Shows
<1>12. call' = [call EXCEPT ![t] = call[t]]
  BY <1>1, <1>2, SameEntry
<1>13. /\ ScenarioType'
       /\ page'[t] = p /\ call'[t] = Nothing /\ saved'[t] = s /\ typed'[t] = y
       /\ \A u \in Tab \ {t} :
            page'[u] = page[u] /\ saved'[u] = saved[u] /\ typed'[u] = typed[u] /\ call'[u] = call[u]
  <2>1. call[t] \in Asked \cup {Nothing} /\ late' \subseteq (late \cup {call[t]}) \ {Nothing}
        /\ attempts' = attempts /\ ids' \in Nat
    BY <1>1, <1>2
  <2>2. /\ ScenarioType'
        /\ page'[t] = p /\ call'[t] = call[t] /\ saved'[t] = s /\ typed'[t] = y
        /\ \A u \in Tab \ {t} :
             page'[u] = page[u] /\ saved'[u] = saved[u] /\ typed'[u] = typed[u] /\ call'[u] = call[u]
    BY <1>1, <1>6, <1>9, <1>11, <1>12, <2>1, MovedType
  <2> QED BY <1>2, <2>2
<1>14. Moves(t)
  BY <1>1, <1>2, <1>6, <1>13 DEF Moves
<1>15. ShownOK(t)'
  BY <1>1, <1>2, <1>3, <1>6, <1>13 DEF ShownOK, ReadOK
<1>16. TypedOK(t)'
  <2>1. o[1] \in DOMAIN attempts /\ o[2] <= attempts[o[1]].position /\ o[2] <= page[t].attempt.position
    BY <1>3, <1>4 DEF ReadOK, Shot
  <2>2. \A q \in Scenario!Place : q # o => y[q] = typed[t][q]
    BY <1>1, <1>8
  <2> QED BY <1>1, <1>2, <1>6, <1>13, <2>1, <2>2 DEF TypedOK
<1>17. DraftOK(t)'
  <2>1. ASSUME NEW q \in Scenario!Place, y[q] # Empty, ~ Scenario!Accepted(q)
        PROVE  s[q] = y[q] /\ (p.owner = q => p.draft = y[q])
    BY <1>1, <1>4, <1>6, <1>7, <1>8, <2>1 DEF DraftOK
  <2>2. \A q \in Scenario!Place : Scenario!Accepted(q)' <=> Scenario!Accepted(q)
    BY <1>2 DEF Scenario!Accepted
  <2> QED BY <1>13, <2>1, <2>2 DEF DraftOK
<1>18. CallOK(t)' /\ OwnOK(t)'
  <2>1. CallOK(t)'
    BY <1>1, <1>2, <1>6, <1>13 DEF CallOK
  <2>2. OwnOK(t)'
    BY <1>1, <1>2, <1>6, <1>13 DEF OwnOK, Agrees
  <2> QED BY <2>1, <2>2
<1>19. TabOK(t)'
  BY <1>15, <1>16, <1>17, <1>18 DEF TabOK
<1> QED BY <1>13, <1>14, <1>19, OneTabMoves

\* A submission goes under the identity of its answer, or under a new one.
LEMMA SubmitKeepsScenario ==
  ASSUME Stepped, ScenarioInv, NEW t \in Tab, Scenario!SubmitStep(t)
  PROVE  ScenarioInv'
<1> DEFINE a == page[t].attempt
           o == Scenario!PlaceOf(page[t].attempt)
<1>1. /\ ScenarioType /\ RowsOK /\ LateOK /\ ids \in Nat /\ late \subseteq Asked /\ Nothing \notin Asked
      /\ page[t] \in Page /\ ShownOK(t) /\ TypedOK(t) /\ DraftOK(t) /\ OwnOK(t)
      /\ typed[t] \in [Scenario!Place -> Scenario!Draft] /\ saved[t] \in [Scenario!Place -> Scenario!Draft]
      /\ saved \in [Tab -> [Scenario!Place -> Scenario!Draft]] /\ page \in [Tab -> Page]
      /\ typed \in [Tab -> [Scenario!Place -> Scenario!Draft]]
  BY ScenarioShapes DEF ScenarioInv, TabOK, ScenarioType, Stepped
<1>2. /\ page[t].feedback = Nothing /\ a # Nothing /\ a.status = "active"
      /\ UNCHANGED <<attempts, typed, late>>
  BY DEF Scenario!SubmitStep, Scenario!Editing, Scenario!Is
<1>3. a \in Shot /\ ReadOK(a) /\ Scenario!HasStep(a) /\ page[t].draft \in Scenario!Draft
  BY <1>1, <1>2 DEF ShownOK, Page, Scenario!HasStep
<1>4. PICK i : i = Scenario!Identity(t)
  OBVIOUS
<1>5. /\ i \in Identity /\ i # Nothing /\ i.draft = page[t].draft /\ i.id \in Nat
      /\ \/ i = page[t].identity /\ i.id \in 1 .. ids /\ ids' = ids
         \/ i.id = ids + 1 /\ ids' = ids + 1
  <2>1. ids' = IF i.id > ids THEN i.id ELSE ids
    BY <1>4 DEF Scenario!SubmitStep
  <2>2. \/ i = page[t].identity /\ page[t].identity # Nothing /\ page[t].identity.draft = page[t].draft
        \/ i = [draft |-> page[t].draft, id |-> ids + 1]
    BY <1>4 DEF Scenario!Identity
  <2>3. CASE i = page[t].identity /\ page[t].identity # Nothing /\ page[t].identity.draft = page[t].draft
    <3>1. i.id \in 1 .. ids /\ i \in Identity
      BY <1>1, <2>3 DEF OwnOK, Page
    <3> QED BY <1>1, <2>1, <2>3, <3>1
  <2>4. CASE i = [draft |-> page[t].draft, id |-> ids + 1]
    <3>1. i \in Identity /\ i.id = ids + 1 /\ i.draft = page[t].draft
      BY <1>1, <1>3, <2>4 DEF Identity
    <3> QED BY <1>1, <2>1, <3>1 DEF Stepped
  <2> QED BY <2>2, <2>3, <2>4
<1>6. PICK p : p = [page[t] EXCEPT !.identity = i]
  OBVIOUS
<1>7. /\ p \in Page /\ p.attempt = a /\ p.owner = page[t].owner /\ p.identity = i
      /\ p.feedback = Nothing /\ p.draft = page[t].draft
  BY <1>1, <1>2, <1>5, <1>6 DEF Page
<1>8. PICK s : s = [saved[t] EXCEPT ![o] = page[t].draft]
  OBVIOUS
<1>9. s \in [Scenario!Place -> Scenario!Draft]
  BY <1>1, <1>3, <1>8
<1>10. PICK c : c = [Scenario!Request("submit", a) EXCEPT !.id = i.id, !.draft = page[t].draft]
  OBVIOUS
<1>11. /\ c \in Asked /\ c.is = "submit" /\ c.n = a.n /\ c.position = a.position /\ c.version = a.version
       /\ c.id = i.id /\ c.draft = page[t].draft /\ c.answer = "sent"
  BY <1>3, <1>5, <1>10 DEF Scenario!Request, Asked, Shot
<1>12. /\ page' = [page EXCEPT ![t] = p] /\ saved' = [saved EXCEPT ![t] = s] /\ call' = [call EXCEPT ![t] = c]
  BY <1>4, <1>6, <1>8, <1>10 DEF Scenario!SubmitStep, Scenario!Sends
<1>13. typed' = [typed EXCEPT ![t] = typed[t]]
  BY <1>1, <1>2, SameEntry
<1>14. /\ ScenarioType'
       /\ page'[t] = p /\ call'[t] = c /\ saved'[t] = s /\ typed'[t] = typed[t]
       /\ \A u \in Tab \ {t} :
            page'[u] = page[u] /\ saved'[u] = saved[u] /\ typed'[u] = typed[u] /\ call'[u] = call[u]
  <2>1. late' \subseteq (late \cup {call[t]}) \ {Nothing} /\ attempts' = attempts /\ ids' \in Nat
        /\ c \in Asked \cup {Nothing}
    BY <1>1, <1>2, <1>5, <1>11
  <2> QED BY <1>1, <1>7, <1>9, <1>12, <1>13, <2>1, MovedType
<1>15. Moves(t)
  BY <1>1, <1>2, <1>5, <1>7, <1>14 DEF Moves
<1>16. ShownOK(t)' /\ TypedOK(t)'
  <2>1. /\ attempts' = attempts /\ typed'[t] = typed[t] /\ page'[t].attempt = page[t].attempt
        /\ page'[t].owner = page[t].owner /\ page'[t].feedback = page[t].feedback
    BY <1>2, <1>7, <1>14
  <2> QED BY <1>1, <2>1, SameShown
<1>17. DraftOK(t)'
  <2>1. ASSUME NEW q \in Scenario!Place, typed[t][q] # Empty, ~ Scenario!Accepted(q) PROVE s[q] = typed[t][q]
    BY <1>3, <1>8, <2>1, WrittenDraft
  <2>2. \A q \in Scenario!Place : Scenario!Accepted(q)' <=> Scenario!Accepted(q)
    BY <1>2 DEF Scenario!Accepted
  <2> QED BY <1>1, <1>2, <1>7, <1>14, <2>1, <2>2 DEF DraftOK
<1>18. CallOK(t)'
  BY <1>2, <1>5, <1>7, <1>11, <1>14 DEF CallOK
<1>19. OwnOK(t)'
  <2>1. CASE i = page[t].identity /\ ids' = ids
    BY <1>1, <1>2, <1>5, <1>7, <1>14, <2>1 DEF OwnOK, Agrees
  <2>2. CASE i.id = ids + 1 /\ ids' = ids + 1
    <3>1. \A r \in late : r.is = "submit" => r.id # i.id
      BY <1>1, <2>2 DEF LateOK
    <3>2. \A n \in DOMAIN attempts : \A k \in DOMAIN attempts[n].accepted : attempts[n].accepted[k].id # i.id
      BY <1>1, <2>2 DEF RowsOK, RowOK
    <3>3. i.id \in 1 .. ids'
      BY <1>1, <2>2
    <3> QED BY <1>2, <1>7, <1>14, <3>1, <3>2, <3>3 DEF OwnOK, Agrees
  <2> QED BY <1>5, <2>1, <2>2
<1>20. TabOK(t)'
  BY <1>16, <1>17, <1>18, <1>19 DEF TabOK
<1> QED BY <1>14, <1>15, <1>20, OneTabMoves

\* The draft of an accepted step goes, and its feedback is shown.
LEMMA AcceptedKeepsScenario ==
  ASSUME Stepped, ScenarioInv, NEW t \in Tab, Scenario!StepAccepted(t)
  PROVE  ScenarioInv'
<1> DEFINE c == call[t]
           o == Scenario!PlaceOf(call[t])
<1>1. /\ ScenarioType /\ RowsOK /\ ids \in Nat /\ late \subseteq Asked /\ Nothing \notin Asked
      /\ page[t] \in Page /\ ShownOK(t) /\ TypedOK(t) /\ DraftOK(t) /\ OwnOK(t) /\ CallOK(t)
      /\ typed[t] \in [Scenario!Place -> Scenario!Draft] /\ saved[t] \in [Scenario!Place -> Scenario!Draft]
      /\ saved \in [Tab -> [Scenario!Place -> Scenario!Draft]] /\ page \in [Tab -> Page]
      /\ typed \in [Tab -> [Scenario!Place -> Scenario!Draft]] /\ call[t] \in Asked \cup {Nothing}
  BY ScenarioShapes DEF ScenarioInv, TabOK, ScenarioType, Stepped
<1>2. c \in Asked /\ c.answer = "accepted" /\ UNCHANGED <<attempts, typed, late, ids>>
  BY <1>1 DEF Scenario!StepAccepted
<1>3. /\ page[t].attempt # Nothing /\ c.n = page[t].attempt.n /\ c.position = page[t].attempt.position
      /\ c.position + 1 \in DOMAIN attempts[c.n].accepted
      /\ attempts[c.n].accepted[c.position + 1].draft = c.draft
      /\ c.n \in DOMAIN attempts /\ c.n \in Nat /\ c.position \in Nat /\ c.draft \in Scenario!Draft
  BY <1>1, <1>2 DEF CallOK, ShownOK, ReadOK, Asked
<1>4. c.position < attempts[c.n].position /\ attempts[c.n].position \in Nat
  BY <1>1, <1>3, ScenarioShapes DEF RowsOK, RowOK, Row
<1>5. PICK a : a = Scenario!Snapshot(c.n)
  OBVIOUS
<1>6. /\ a \in Shot /\ a # Nothing /\ ReadOK(a) /\ a.n = c.n /\ a.position = attempts[c.n].position
  BY <1>3, <1>5, ReadNow
<1>7. PICK f : f = [place |-> o, draft |-> c.draft]
  OBVIOUS
<1>8. f \in Feedback /\ f # Nothing /\ f.place[1] = c.n /\ f.place[2] = c.position /\ f.draft = c.draft
  <2>1. o = <<c.n, c.position>>
    BY DEF Scenario!PlaceOf
  <2>2. f \in Feedback
    BY <1>3, <1>7, <2>1 DEF Feedback
  <2> QED BY <1>7, <2>1, <2>2 DEF Stepped
<1>9. PICK p : p = [page[t] EXCEPT !.attempt = a, !.feedback = f]
  OBVIOUS
<1>10. p \in Page /\ p.attempt = a /\ p.identity = page[t].identity /\ p.feedback = f
  BY <1>1, <1>6, <1>8, <1>9 DEF Page
<1>11. PICK s : s = [saved[t] EXCEPT ![o] = Empty]
  OBVIOUS
<1>12. s \in [Scenario!Place -> Scenario!Draft]
  BY <1>1, <1>11 DEF Scenario!Draft
<1>13. /\ page' = [page EXCEPT ![t] = p] /\ saved' = [saved EXCEPT ![t] = s] /\ call' = [call EXCEPT ![t] = Nothing]
  BY <1>5, <1>7, <1>9, <1>11 DEF Scenario!StepAccepted, Scenario!Sends
<1>14. typed' = [typed EXCEPT ![t] = typed[t]]
  BY <1>1, <1>2, SameEntry
<1>15. /\ ScenarioType'
       /\ page'[t] = p /\ call'[t] = Nothing /\ saved'[t] = s /\ typed'[t] = typed[t]
       /\ \A u \in Tab \ {t} :
            page'[u] = page[u] /\ saved'[u] = saved[u] /\ typed'[u] = typed[u] /\ call'[u] = call[u]
  <2>1. PICK d : d = Nothing
    OBVIOUS
  <2>2. /\ late' \subseteq (late \cup {call[t]}) \ {Nothing} /\ attempts' = attempts /\ ids' \in Nat
        /\ d \in Asked \cup {Nothing} /\ call' = [call EXCEPT ![t] = d]
    BY <1>1, <1>2, <1>13, <2>1
  <2>3. /\ ScenarioType'
        /\ page'[t] = p /\ call'[t] = d /\ saved'[t] = s /\ typed'[t] = typed[t]
        /\ \A u \in Tab \ {t} :
             page'[u] = page[u] /\ saved'[u] = saved[u] /\ typed'[u] = typed[u] /\ call'[u] = call[u]
    BY <1>1, <1>10, <1>12, <1>13, <1>14, <2>2, MovedType
  <2> QED BY <2>1, <2>3
<1>16. Moves(t)
  BY <1>1, <1>2, <1>10, <1>15 DEF Moves
<1>17. ShownOK(t)'
  BY <1>2, <1>3, <1>6, <1>8, <1>10, <1>15 DEF ShownOK, ReadOK
<1>18. TypedOK(t)'
  <2>1. ASSUME NEW q \in Scenario!Place, typed[t][q] # Empty
        PROVE  /\ q[1] \in DOMAIN attempts /\ q[2] <= attempts[q[1]].position
               /\ q[1] = a.n => q[2] < a.position
    <3>1. q[2] \in Nat
      BY DEF Scenario!Place, Stepped
    <3>2. /\ q[1] \in DOMAIN attempts /\ q[2] <= attempts[q[1]].position
          /\ q[1] = c.n => q[2] <= c.position
      BY <1>1, <1>3, <2>1 DEF TypedOK
    <3> QED BY <1>3, <1>4, <1>6, <3>1, <3>2
  <2>2. ASSUME NEW q \in Scenario!Place PROVE q[2] \in Nat
    BY DEF Scenario!Place, Stepped
  <2> QED BY <1>2, <1>4, <1>6, <1>10, <1>15, <2>1, <2>2 DEF TypedOK
<1>19. DraftOK(t)'
  <2>1. ASSUME NEW q \in Scenario!Place, typed[t][q] # Empty, ~ Scenario!Accepted(q) PROVE s[q] = typed[t][q]
    <3>1. q # o
      BY <1>3, <1>4, <2>1 DEF Scenario!PlaceOf, Scenario!Accepted
    <3>2. saved[t][q] = typed[t][q]
      BY <1>1, <2>1 DEF DraftOK
    <3> QED BY <1>1, <1>11, <3>1, <3>2
  <2>2. \A q \in Scenario!Place : Scenario!Accepted(q)' <=> Scenario!Accepted(q)
    BY <1>2 DEF Scenario!Accepted
  <2> QED BY <1>8, <1>10, <1>15, <2>1, <2>2 DEF DraftOK
<1>20. CallOK(t)' /\ OwnOK(t)'
  BY <1>1, <1>2, <1>8, <1>10, <1>15 DEF CallOK, OwnOK, Agrees
<1>21. TabOK(t)'
  BY <1>17, <1>18, <1>19, <1>20 DEF TabOK
<1> QED BY <1>15, <1>16, <1>21, OneTabMoves

LEMMA ScenarioKept == ASSUME Stepped, ScenarioInv, [Scenario!Next]_(Scenario!vars) PROVE ScenarioInv'
<1>1. CASE Scenario!Next
  BY <1>1, SteadyActions, ClosingActions, EditKeepsScenario, SubmitKeepsScenario, ContinueKeepsScenario,
     ServeKeepsScenario, AdoptsKeepsScenario, AcceptedKeepsScenario, ServeLateKeepsScenario DEF Scenario!Next
<1>2. CASE UNCHANGED Scenario!vars
  <2>1. attempts' = attempts /\ page' = page /\ saved' = saved /\ typed' = typed /\ call' = call
        /\ late' = late /\ ids' = ids
    BY <1>2 DEF Scenario!vars
  <2>2. ScenarioType' /\ RowsOK' /\ LateOK' /\ DistinctIds'
    BY <2>1 DEF ScenarioInv, ScenarioType, RowsOK, LateOK, DistinctIds
  <2>3. ASSUME NEW t \in Tab PROVE TabOK(t)'
    <3>1. ShownOK(t)' /\ TypedOK(t)' /\ DraftOK(t)' /\ OwnOK(t)'
      BY <2>1 DEF ScenarioInv, TabOK, ShownOK, TypedOK, DraftOK, OwnOK, ReadOK, Agrees, Scenario!Accepted
    <3>2. Scenario!Earlier(call[t])' = Scenario!Earlier(call[t])
      BY <2>1 DEF Scenario!Earlier
    <3> QED BY <2>1, <3>1, <3>2 DEF ScenarioInv, TabOK, CallOK
  <2> QED BY <2>2, <2>3 DEF ScenarioInv
<1> QED BY <1>1, <1>2

LEMMA ScenarioInit == ASSUME Stepped, Scenario!Init PROVE ScenarioInv
<1>1. Scenario!Closed \in Page
  BY DEF Scenario!Closed, Page, Scenario!Draft
<1>2. ScenarioType
  BY <1>1 DEF Scenario!Init, ScenarioType, Scenario!Draft, Stepped
<1>3. DOMAIN attempts = {} /\ late = {}
  BY DEF Scenario!Init
<1>4. ASSUME NEW t \in Tab PROVE TabOK(t)
  BY <1>3 DEF Scenario!Init, Scenario!Closed, TabOK, ShownOK, TypedOK, DraftOK, CallOK, OwnOK, Scenario!HasStep
<1> QED BY <1>2, <1>3, <1>4 DEF Scenario!Init, Scenario!Closed, ScenarioInv, RowsOK, LateOK, DistinctIds

\* lexigo-scenario-app.tsx, scenarios.ts and scenarios/repository.go: what was typed for a
\* step stays in its tab until the server has accepted an answer to that step, feedback
\* stands under the very answer the server holds, and nobody is told of a conflict whose
\* submission has been accepted - for any number of tabs, attempts, answers and steps.
THEOREM NoAnswerIsLost == ASSUME Stepped PROVE Spec => []AnswersAreKept
<1> DEFINE I == part = "scenario" => ScenarioInv
<1>1. Init => I
  BY ScenarioInit DEF Init
<1>2. I /\ [Next]_vars => I'
  BY PartSteps, ScenarioKept
<1>3. I => AnswersAreKept
  <2>1. SUFFICES ASSUME part = "scenario", ScenarioInv, NEW t \in Tab
                 PROVE  ShownOK(t) /\ DraftOK(t) /\ CallOK(t)
    BY DEF AnswersAreKept, Scenario!AnswersAreKept, Scenario!TypedIsKept, Scenario!OutcomesAreTrue,
       ShownOK, DraftOK, CallOK
  <2> QED BY <2>1 DEF ScenarioInv, TabOK
<1> QED BY <1>1, <1>2, <1>3, PTL DEF Spec

-----------------------------------------------------------------------------
(* The notices                                                             *)

\* The places of the notices.
banners == s1
toast == s2
queue == s3
paused == s4
held == s5

USE DEF banners, toast, queue, paused, held

\* A notice that was published.
Published == [id : Nat, key : Key \cup {Nothing}]

\* The toast t is shown, the toasts q wait behind it, in the order of their numbers,
\* of which top is the last.
TakesTurns(t, q, top) ==
  /\ t \in Published \cup {Nothing} /\ q \in Seq(Published)
  /\ t = Nothing => q = <<>>
  /\ t # Nothing => t.id <= top
  /\ \A i \in 1 .. Len(q) : t.id < q[i].id /\ q[i].id <= top
  /\ \A i, j \in 1 .. Len(q) : i < j => q[i].id < q[j].id

\* The toast that is not counted down is no toast that waits, and none that nobody
\* is at.
NoticesInv ==
  /\ s7 \in Nat
  /\ TakesTurns(toast, queue, s7)
  /\ paused \in Nat \cup {Nothing}
  /\ paused # Nothing => paused <= s7
  /\ \A i \in 1 .. Len(queue) : queue[i].id # paused
  /\ toast # Nothing /\ held = {} => paused # toast.id

\* A toast and its number are never mistaken for the absence of one.
NoNotice == Nothing \notin Published /\ Nothing \notin Nat

LEMMA NoticesInit == ASSUME NoNotice, Notices!Init PROVE NoticesInv
  BY DEF Notices!Init, NoticesInv, TakesTurns, NoNotice

\* The toasts of the center have numbers, up to the last one given.
LEMMA NumberedToasts ==
  ASSUME NoNotice, NoticesInv
  PROVE  /\ s7 \in Nat /\ TakesTurns(toast, queue, s7)
         /\ queue \in Seq(Published) /\ DOMAIN queue = 1 .. Len(queue)
         /\ toast # Nothing => toast \in Published /\ toast.id \in Nat /\ toast.id # Nothing /\ toast.id <= s7
         /\ \A i \in 1 .. Len(queue) :
              /\ queue[i] \in Published /\ queue[i].id \in Nat /\ queue[i].id # Nothing
              /\ queue[i].id # paused /\ queue[i].id <= s7
              /\ toast.id < queue[i].id
              /\ toast # Nothing => queue[i].id # toast.id
<1>1. /\ s7 \in Nat /\ TakesTurns(toast, queue, s7)
      /\ queue \in Seq(Published) /\ DOMAIN queue = 1 .. Len(queue)
      /\ \A i \in 1 .. Len(queue) : queue[i].id # paused
  BY DEF NoticesInv, TakesTurns
<1>2. \A p \in Published : p.id \in Nat /\ p.id # Nothing
  BY DEF Published, NoNotice
<1>3. toast # Nothing => toast \in Published /\ toast.id <= s7
  BY <1>1 DEF TakesTurns
<1>4. ASSUME NEW i \in 1 .. Len(queue)
      PROVE  queue[i] \in Published /\ queue[i].id <= s7 /\ toast.id < queue[i].id
  BY <1>1 DEF TakesTurns
<1>5. ASSUME NEW i \in 1 .. Len(queue), toast # Nothing PROVE queue[i].id # toast.id
  BY <1>2, <1>3, <1>4, <1>5
<1> QED BY <1>1, <1>2, <1>3, <1>4, <1>5

\* What comes of the toasts t and q is shown in turn: n.
Follows(n, t, q, top) ==
  /\ TakesTurns(n.toast, n.queue, top)
  /\ n.toast # Nothing /\ n.toast # t => \E i \in 1 .. Len(q) : n.toast = q[i]
  /\ \A i \in 1 .. Len(n.queue) : \E j \in 1 .. Len(q) : n.queue[i] = q[j]

\* The next toast is shown when the one before it has gone.
LEMMA NextIsShown ==
  ASSUME NoNotice, NEW t, NEW q, NEW top \in Nat, TakesTurns(t, q, top), t # Nothing
  PROVE  Follows(Notices!Advance(q), t, q, top) /\ Notices!Advance(q).toast # t
<1>1. /\ t \in Published /\ q \in Seq(Published)
      /\ \A i \in 1 .. Len(q) : t.id < q[i].id /\ q[i].id <= top
      /\ \A i, j \in 1 .. Len(q) : i < j => q[i].id < q[j].id
  BY DEF TakesTurns
<1>2. CASE q = <<>>
  <2>1. PICK n : n = [toast |-> Nothing, queue |-> <<>>]
    OBVIOUS
  <2>2. n.toast = Nothing /\ n.queue = <<>> /\ Len(n.queue) = 0 /\ <<>> \in Seq(Published)
    BY <2>1
  <2>3. Notices!Advance(q) = n
    BY <1>2, <2>1 DEF Notices!Advance, Notices!NoToast
  <2>4. \A i \in 1 .. Len(n.queue) : FALSE
    BY <2>2
  <2>5. TakesTurns(n.toast, n.queue, top)
    BY <2>2, <2>4 DEF TakesTurns
  <2> QED BY <1>1, <2>2, <2>3, <2>4, <2>5 DEF Follows, NoNotice
<1>3. CASE q # <<>>
  <2>1. PICK n : n = [toast |-> Head(q), queue |-> Tail(q)]
    OBVIOUS
  <2>2. PICK z : z = Tail(q)
    OBVIOUS
  <2>3. /\ Len(q) \in Nat /\ 1 \in 1 .. Len(q) /\ Len(z) = Len(q) - 1 /\ z \in Seq(Published)
        /\ \A i \in 1 .. Len(z) : z[i] = q[i + 1] /\ i + 1 \in 1 .. Len(q)
    BY <1>1, <1>3, <2>2
  <2>4. n.toast = q[1] /\ n.queue = z /\ q[1] \in Published
    BY <1>1, <1>3, <2>1, <2>2
  <2>5. Notices!Advance(q) = n
    BY <1>3, <2>1 DEF Notices!Advance
  <2>6. \A i \in 1 .. Len(z) : q[1].id < z[i].id /\ z[i].id <= top
    <3>1. ASSUME NEW i \in 1 .. Len(z) PROVE q[1].id < z[i].id /\ z[i].id <= top
      <4>1. i + 1 \in 1 .. Len(q) /\ 1 < i + 1 /\ z[i] = q[i + 1]
        BY <2>3
      <4> QED BY <1>1, <2>3, <4>1
    <3> QED BY <3>1
  <2>7. \A i, j \in 1 .. Len(z) : i < j => z[i].id < z[j].id
    <3>1. ASSUME NEW i \in 1 .. Len(z), NEW j \in 1 .. Len(z), i < j PROVE z[i].id < z[j].id
      <4>1. i + 1 \in 1 .. Len(q) /\ j + 1 \in 1 .. Len(q) /\ i + 1 < j + 1
        BY <2>3, <3>1
      <4> QED BY <1>1, <2>3, <4>1
    <3> QED BY <3>1
  <2>8. TakesTurns(q[1], z, top)
    BY <1>1, <2>3, <2>4, <2>6, <2>7 DEF TakesTurns, NoNotice
  <2>9. q[1] # t
    <3>1. t.id < q[1].id /\ t.id \in Nat
      BY <1>1, <2>3 DEF Published
    <3> QED BY <3>1
  <2>10. \A i \in 1 .. Len(z) : \E j \in 1 .. Len(q) : z[i] = q[j]
    BY <2>3
  <2> QED BY <2>3, <2>4, <2>5, <2>8, <2>9, <2>10 DEF Follows
<1> QED BY <1>2, <1>3

\* The toasts that are left are shown in turn.
LEMMA LeftInTurn ==
  ASSUME NEW t, NEW q, NEW top \in Nat, TakesTurns(t, q, top), NEW left \in SUBSET (1 .. Len(q))
  PROVE  /\ TakesTurns(t, Notices!Kept(q, left), top)
         /\ \A i \in 1 .. Len(Notices!Kept(q, left)) : \E j \in 1 .. Len(q) : Notices!Kept(q, left)[i] = q[j]
<1>1. PICK z : z = Notices!Kept(q, left)
  OBVIOUS
<1>2. /\ t \in Published \cup {Nothing} /\ q \in Seq(Published)
      /\ t = Nothing => q = <<>>
      /\ t # Nothing => t.id <= top
      /\ \A i \in 1 .. Len(q) : t.id < q[i].id /\ q[i].id <= top
      /\ \A i, j \in 1 .. Len(q) : i < j => q[i].id < q[j].id
  BY DEF TakesTurns
<1>3. Notices!Kept(q, left) = Kept(q, left)
  BY DEF Notices!Kept, Kept
<1>4. z \in Seq(Published)
  BY <1>1, <1>2, <1>3, KeptInOrder
<1>5. PICK of \in [1 .. Len(z) -> left] :
        /\ \A k \in 1 .. Len(z) : z[k] = q[of[k]]
        /\ \A j, k \in 1 .. Len(z) : j < k => of[j] < of[k]
  BY <1>1, <1>2, <1>3, KeptInOrder
<1>6. \A k \in 1 .. Len(z) : of[k] \in 1 .. Len(q)
  BY <1>5
<1>7. t = Nothing => z = <<>>
  <2>1. SUFFICES ASSUME t = Nothing PROVE z = <<>>
    OBVIOUS
  <2>2. Len(q) = 0
    BY <1>2, <2>1
  <2>3. ~ \E k : k \in 1 .. Len(z)
    BY <1>6, <2>2
  <2>4. Len(z) \in Nat /\ ~ (1 <= Len(z))
    BY <1>4, <2>3
  <2> QED BY <1>4, <2>4
<1>8. \A i \in 1 .. Len(z) : t.id < z[i].id /\ z[i].id <= top
  BY <1>2, <1>5, <1>6
<1>9. \A i, j \in 1 .. Len(z) : i < j => z[i].id < z[j].id
  BY <1>2, <1>5, <1>6
<1>10. TakesTurns(t, z, top)
  BY <1>2, <1>4, <1>7, <1>8, <1>9 DEF TakesTurns
<1>11. \A i \in 1 .. Len(z) : \E j \in 1 .. Len(q) : z[i] = q[j]
  BY <1>5, <1>6
<1> QED BY <1>1, <1>10, <1>11

\* A toast that goes and those that are left behind it.
LEMMA DismissedInTurn ==
  ASSUME NoNotice, NoticesInv, NEW id \in Nat
  PROVE  Follows(Notices!Without(id), toast, queue, s7)
<1>1. TakesTurns(toast, queue, s7) /\ s7 \in Nat
  BY DEF NoticesInv
<1>2. CASE toast # Nothing /\ toast.id = id
  BY <1>1, <1>2, NextIsShown DEF Notices!Without
<1>3. CASE ~ (toast # Nothing /\ toast.id = id)
  <2>1. PICK left \in SUBSET (1 .. Len(queue)) : left = {i \in DOMAIN queue : queue[i].id # id}
    BY NumberedToasts
  <2>2. Notices!Without(id) = [toast |-> toast, queue |-> Notices!Kept(queue, left)]
    BY <1>3, <2>1 DEF Notices!Without
  <2>3. /\ TakesTurns(toast, Notices!Kept(queue, left), s7)
        /\ \A i \in 1 .. Len(Notices!Kept(queue, left)) : \E j \in 1 .. Len(queue) :
             Notices!Kept(queue, left)[i] = queue[j]
    BY <1>1, LeftInTurn
  <2> QED BY <2>2, <2>3 DEF Follows
<1> QED BY <1>2, <1>3

LEMMA ClearedInTurn ==
  ASSUME NoNotice, NoticesInv, NEW about \in Key
  PROVE  Follows(Notices!Cleared(about), toast, queue, s7)
<1>1. TakesTurns(toast, queue, s7) /\ s7 \in Nat
  BY DEF NoticesInv
<1>2. PICK left \in SUBSET (1 .. Len(queue)) : left = {i \in DOMAIN queue : queue[i].key # about}
  BY NumberedToasts
<1>3. PICK z : z = Notices!Kept(queue, left)
  OBVIOUS
<1>4. TakesTurns(toast, z, s7) /\ \A i \in 1 .. Len(z) : \E j \in 1 .. Len(queue) : z[i] = queue[j]
  BY <1>1, <1>3, LeftInTurn
<1>5. CASE toast # Nothing /\ toast.key = about
  <2>1. PICK n : n = Notices!Advance(z)
    OBVIOUS
  <2>2. Notices!Cleared(about) = n
    <3>1. Notices!Kept(queue, {i \in DOMAIN queue : queue[i].key # about}) = z
      BY <1>2, <1>3
    <3> QED BY <1>5, <2>1, <3>1 DEF Notices!Cleared
  <2>3. Follows(n, toast, z, s7)
    BY <1>1, <1>4, <1>5, <2>1, NextIsShown
  <2>4. TakesTurns(n.toast, n.queue, s7)
    BY <2>3 DEF Follows
  <2>5. n.toast # Nothing /\ n.toast # toast => \E j \in 1 .. Len(queue) : n.toast = queue[j]
    <3> SUFFICES ASSUME n.toast # Nothing, n.toast # toast PROVE \E j \in 1 .. Len(queue) : n.toast = queue[j]
      OBVIOUS
    <3>1. PICK k \in 1 .. Len(z) : n.toast = z[k]
      BY <2>3 DEF Follows
    <3> QED BY <1>4, <3>1
  <2>6. ASSUME NEW i \in 1 .. Len(n.queue) PROVE \E j \in 1 .. Len(queue) : n.queue[i] = queue[j]
    <3>1. PICK k \in 1 .. Len(z) : n.queue[i] = z[k]
      BY <2>3 DEF Follows
    <3> QED BY <1>4, <3>1
  <2>7. Follows(n, toast, queue, s7)
    BY <2>4, <2>5, <2>6 DEF Follows
  <2> QED BY <2>2, <2>7
<1>6. CASE ~ (toast # Nothing /\ toast.key = about)
  <2>1. Notices!Cleared(about) = [toast |-> toast, queue |-> z]
    BY <1>2, <1>3, <1>6 DEF Notices!Cleared
  <2> QED BY <1>4, <2>1 DEF Follows
<1> QED BY <1>5, <1>6

\* What is shown now has been waited for, and nobody is at it.
LEMMA BecomesKeepsNotices ==
  ASSUME NoNotice, NoticesInv, NEW n, Follows(n, toast, queue, s7), Notices!Becomes(n), s7' = s7,
         \/ paused' = Nothing \/ paused' = paused
         \/ toast # Nothing /\ n.toast # toast /\ paused' = toast.id
  PROVE  NoticesInv'
<1>1. toast' = n.toast /\ queue' = n.queue /\ held' = IF n.toast = toast THEN held ELSE {}
  BY DEF Notices!Becomes
<1>2. TakesTurns(toast', queue', s7')
  BY <1>1 DEF Follows
<1>3. paused' \in Nat \cup {Nothing} /\ (paused' # Nothing => paused' <= s7)
  BY DEF NoticesInv, TakesTurns, Published
<1>4. \A i \in 1 .. Len(queue) : queue[i].id # paused'
  BY NumberedToasts
<1>5. \A i \in 1 .. Len(queue') : queue'[i].id # paused'
  BY <1>1, <1>4 DEF Follows
<1>6. ASSUME toast' # Nothing, held' = {} PROVE paused' # toast'.id
  <2>1. CASE n.toast = toast
    <3>1. paused' = Nothing \/ paused' = paused
      BY <2>1
    <3>2. toast # Nothing /\ held = {} /\ toast' = toast /\ toast.id \in Nat
      BY <1>1, <1>6, <2>1 DEF NoticesInv, TakesTurns, Published
    <3> QED BY <3>1, <3>2 DEF NoticesInv, NoNotice
  <2>2. CASE n.toast # toast
    BY <1>1, <1>4, <1>6, <2>2 DEF Follows
  <2> QED BY <2>1, <2>2
<1> QED BY <1>2, <1>3, <1>5, <1>6 DEF NoticesInv

LEMMA PublishKeepsNotices ==
  ASSUME NoNotice, NoticesInv, NEW category \in Notices!Category, NEW about \in Key \cup {Nothing},
         Notices!Publish(category, about)
  PROVE  NoticesInv'
<1>1. PICK item : item = [id |-> s7 + 1, key |-> about]
  OBVIOUS
<1>2. /\ s7 \in Nat /\ TakesTurns(toast, queue, s7) /\ s7' = s7 + 1 /\ paused' = paused
      /\ paused \in Nat \cup {Nothing} /\ (paused # Nothing => paused <= s7)
  BY DEF NoticesInv, Notices!Publish
<1>3. item \in Published /\ item.id = s7 + 1 /\ item # Nothing /\ item.id # paused
  BY <1>1, <1>2 DEF Published, NoNotice
<1>4. CASE UNCHANGED <<toast, queue, held>>
  <2>1. TakesTurns(toast, queue, s7')
    <3>1. toast # Nothing => toast.id <= s7 + 1
      BY <1>2, NumberedToasts
    <3>2. \A i \in 1 .. Len(queue) : queue[i].id <= s7 + 1
      BY <1>2, NumberedToasts
    <3> QED BY <1>2, <3>1, <3>2 DEF TakesTurns
  <2> QED BY <1>2, <1>4, <2>1 DEF NoticesInv
<1>5. CASE Notices!Becomes(Notices!WithToast(item))
  <2>1. CASE toast = Nothing
    <3>1. queue = <<>> /\ Notices!WithToast(item) = [toast |-> item, queue |-> queue]
      BY <1>2, <2>1 DEF TakesTurns, Notices!WithToast
    <3>2. toast' = item /\ queue' = <<>> /\ Len(queue') = 0
      BY <1>5, <3>1 DEF Notices!Becomes
    <3>3. TakesTurns(toast', queue', s7')
      BY <1>2, <1>3, <3>2 DEF TakesTurns
    <3> QED BY <1>2, <1>3, <3>2, <3>3 DEF NoticesInv
  <2>2. CASE toast # Nothing
    <3>1. PICK z : z = Append(queue, item)
      OBVIOUS
    <3>2. Notices!WithToast(item) = [toast |-> toast, queue |-> z]
      BY <2>2, <3>1 DEF Notices!WithToast
    <3>3. toast' = toast /\ queue' = z /\ held' = held
      BY <1>5, <3>2 DEF Notices!Becomes
    <3>4. queue \in Seq(Published) /\ toast \in Published /\ toast.id <= s7
      BY <1>2, <2>2 DEF TakesTurns
    <3>5. /\ z \in Seq(Published) /\ Len(queue) \in Nat /\ Len(z) = Len(queue) + 1 /\ z[Len(z)] = item
          /\ \A i \in 1 .. Len(queue) : z[i] = queue[i] /\ queue[i] \in Published
      BY <1>3, <3>1, <3>4
    <3>6. \A i \in 1 .. Len(z) : i = Len(z) \/ i \in 1 .. Len(queue)
      BY <3>5
    <3>7. \A i \in 1 .. Len(queue) : toast.id < queue[i].id /\ queue[i].id <= s7
      BY <1>2 DEF TakesTurns
    <3>8. \A i \in 1 .. Len(z) : toast.id < z[i].id /\ z[i].id <= s7 + 1
      <4>1. toast.id \in Nat /\ \A i \in 1 .. Len(queue) : queue[i].id \in Nat
        BY <2>2, NumberedToasts
      <4> QED BY <1>2, <1>3, <3>4, <3>5, <3>6, <3>7, <4>1
    <3>9. \A i, j \in 1 .. Len(z) : i < j => z[i].id < z[j].id
      <4>1. SUFFICES ASSUME NEW i \in 1 .. Len(z), NEW j \in 1 .. Len(z), i < j PROVE z[i].id < z[j].id
        OBVIOUS
      <4>2. i \in 1 .. Len(queue) /\ z[i] = queue[i] /\ queue[i].id \in Nat
        BY <3>5, <3>6, <4>1 DEF Published
      <4>3. CASE j = Len(z)
        BY <1>2, <1>3, <3>5, <3>7, <4>2, <4>3
      <4>4. CASE j # Len(z)
        <5>1. j \in 1 .. Len(queue) /\ z[j] = queue[j]
          BY <3>5, <3>6, <4>4
        <5> QED BY <1>2, <4>1, <4>2, <5>1 DEF TakesTurns
      <4> QED BY <4>3, <4>4
    <3>10. TakesTurns(toast, z, s7 + 1)
      <4>1. toast.id <= s7 + 1
        BY <1>2, <3>4 DEF Published
      <4> QED BY <2>2, <3>4, <3>5, <3>8, <3>9, <4>1 DEF TakesTurns
    <3>11. \A i \in 1 .. Len(z) : z[i].id # paused
      BY <1>3, <3>5, <3>6 DEF NoticesInv
    <3>12. paused # Nothing => paused <= s7 + 1
      BY <1>2
    <3> QED BY <1>2, <3>3, <3>10, <3>11, <3>12 DEF NoticesInv
  <2> QED BY <2>1, <2>2
<1> QED BY <1>1, <1>4, <1>5 DEF Notices!Publish

LEMMA NoticesKept ==
  ASSUME NoNotice, NoticesInv, [Notices!Next]_(Notices!vars)
  PROVE  NoticesInv'
<1>1. ASSUME NEW id \in 1 .. s7, Notices!Dismiss(id) PROVE NoticesInv'
  <2>1. id \in Nat /\ s7' = s7 /\ paused' = IF paused = id THEN Nothing ELSE paused
    BY <1>1 DEF Notices!Dismiss, NoticesInv
  <2>2. CASE UNCHANGED <<toast, queue, held>>
    <3>2. paused' = paused \/ paused' = Nothing
      BY <2>1
    <3>3. toast # Nothing => toast.id # Nothing
      BY NumberedToasts
    <3>4. \A i \in 1 .. Len(queue) : queue[i].id # Nothing
      BY NumberedToasts
    <3> QED BY <2>1, <2>2, <3>2, <3>3, <3>4 DEF NoticesInv
  <2>3. CASE Notices!Becomes(Notices!Without(id))
    BY <2>1, <2>3, DismissedInTurn, BecomesKeepsNotices
  <2> QED BY <1>1, <2>2, <2>3 DEF Notices!Dismiss
<1>2. ASSUME NEW about \in Key, Notices!ClearKey(about) PROVE NoticesInv'
  BY <1>2, ClearedInTurn, BecomesKeepsNotices DEF Notices!ClearKey
<1>3. ASSUME Notices!Expire PROVE NoticesInv'
  <2>1. toast # Nothing /\ toast.id \in Nat /\ Notices!Becomes(Notices!Without(toast.id))
    BY <1>3 DEF Notices!Expire, Notices!TimerRuns, NoticesInv, TakesTurns, Published
  <2>2. s7' = s7 /\ paused' = paused
    BY <1>3 DEF Notices!Expire
  <2>3. Follows(Notices!Without(toast.id), toast, queue, s7)
    BY <2>1, DismissedInTurn
  <2> QED BY <2>1, <2>2, <2>3, BecomesKeepsNotices
<1>4. ASSUME NEW way, Notices!Enter(way) PROVE NoticesInv'
  <2>1. toast # Nothing /\ toast \in Published /\ toast.id \in Nat /\ paused' = toast.id /\ s7' = s7
    BY <1>4 DEF Notices!Enter, NoticesInv, TakesTurns, Published
  <2>2. CASE held' = held \cup {way} /\ UNCHANGED <<toast, queue>>
    <3>1. \A i \in 1 .. Len(queue) : queue[i].id # toast.id
      BY <2>1, NumberedToasts
    <3> QED BY <2>1, <2>2, <3>1, NumberedToasts DEF NoticesInv
  <2>3. CASE Notices!TimerRuns /\ Notices!Becomes(Notices!Without(toast.id))
    <3>1. Follows(Notices!Without(toast.id), toast, queue, s7)
      BY <2>1, DismissedInTurn
    <3>2. Notices!Without(toast.id).toast # toast
      <4>1. TakesTurns(toast, queue, s7) /\ s7 \in Nat /\ Notices!Without(toast.id) = Notices!Advance(queue)
        BY <2>1 DEF Notices!Without, NoticesInv
      <4> QED BY <2>1, <4>1, NextIsShown
    <3> QED BY <2>1, <2>3, <3>1, <3>2, BecomesKeepsNotices
  <2> QED BY <1>4, <2>2, <2>3 DEF Notices!Enter
<1>5. ASSUME NEW way, Notices!Leave(way) PROVE NoticesInv'
  BY <1>5, NumberedToasts DEF Notices!Leave, NoticesInv
<1>6. ASSUME UNCHANGED <<toast, queue, paused, held, s7>> PROVE NoticesInv'
  BY <1>6 DEF NoticesInv
<1> QED BY <1>1, <1>2, <1>3, <1>4, <1>5, <1>6, PublishKeepsNotices
        DEF Notices!Next, Notices!vars, Notices!Mount, Notices!Unmount

\* feedback-center.tsx and feedback.ts: however many notices are published and by
\* whichever way they go, no toast waits behind none, they are shown in the order they
\* were published, and the one that is shown is counted down while nobody is at it.
THEOREM NoNoticeWaitsForNothing ==
  ASSUME NoNotice
  PROVE  Spec => []ToastsTakeTurns
<1> DEFINE I == part = "notices" => NoticesInv
<1>1. Init => I
  BY NoticesInit DEF Init
<1>2. I /\ [Next]_vars => I'
  BY PartSteps, NoticesKept
<1>3. I => ToastsTakeTurns
  <2>1. SUFFICES ASSUME NoticesInv PROVE Notices!ToastsTakeTurns
    BY DEF ToastsTakeTurns
  <2>2. /\ toast = Nothing => queue = <<>>
        /\ \A i, j \in 1 .. Len(queue) : i < j => queue[i].id < queue[j].id
    BY <2>1 DEF NoticesInv, TakesTurns
  <2>3. /\ queue \in Seq(Published) /\ DOMAIN queue = 1 .. Len(queue) /\ Len(queue) \in Nat
        /\ \A i \in 1 .. Len(queue) : queue[i].id \in Nat /\ toast.id < queue[i].id
    BY <2>1, NumberedToasts
  <2>4. ASSUME NEW i \in 1 .. Len(queue)
        PROVE  queue[i].id > (IF i = 1 THEN toast.id ELSE queue[i - 1].id)
    <3>1. toast # Nothing
      BY <2>2, <2>3, <2>4
    <3>2. toast.id \in Nat
      BY <2>1, <3>1, NumberedToasts
    <3>3. CASE i = 1
      BY <2>3, <3>2, <3>3
    <3>4. CASE i # 1
      <4>1. i - 1 \in 1 .. Len(queue) /\ i - 1 < i
        BY <2>3, <3>4
      <4>2. queue[i - 1].id < queue[i].id /\ queue[i - 1].id \in Nat /\ queue[i].id \in Nat
        BY <2>2, <2>3, <4>1
      <4> QED BY <3>4, <4>2
    <3> QED BY <3>3, <3>4
  <2> QED BY <2>1, <2>2, <2>3, <2>4 DEF Notices!ToastsTakeTurns, Notices!TimerRuns, NoticesInv
<1> QED BY <1>1, <1>2, <1>3, PTL DEF Spec

-----------------------------------------------------------------------------
(* The answers                                                             *)

\* The places of the answers.
accepted == s1
suggestions == s3
audit == s4
moderator == s5
promised == s6

USE DEF accepted, suggestions, audit, moderator, promised

\* A row of the suggestions, an entry of the audit, and what a moderator asks for.
SuggestedRow == [user : Learner, spelling : Answers!Spelling,
                 status : Answers!Decision \cup {"pending", "gone"}, version : Nat]
AuditEntry == [id : Nat, previous : Seq(Answers!Spelling), resulting : Seq(Answers!Spelling)]
AskedDecision == [at : {"sent", "suggestion", "word"}, id : Nat, version : Nat, form : Form,
                  decision : Answers!Decision, answers : Seq(Answers!Spelling)]

\* The list t begins with the list z.
Begins(z, t) == Len(z) <= Len(t) /\ \A i \in 1 .. Len(z) : z[i] = t[i]

\* No form is listed twice, and those that were promised are listed.
WordsInv(words, told) ==
  /\ words \in Seq(Answers!Spelling)
  /\ \A i, j \in 1 .. Len(words) : words[i].form = words[j].form => i = j
  /\ told \subseteq Answers!Forms(words)

\* The rows that are decided are those of the entries, one each; every entry goes on
\* from those before it, and the word from them all.
AuditInv(entries, rows, words) ==
  /\ entries \in Seq(AuditEntry)
  /\ \A i \in 1 .. Len(entries) :
       /\ entries[i].id \in 1 .. Len(rows) /\ rows[entries[i].id].status \in Answers!Decision
       /\ Begins(entries[i].previous, entries[i].resulting)
       /\ Begins(entries[i].resulting, words)
  /\ \A i, j \in 1 .. Len(entries) : i < j =>
       /\ entries[i].id # entries[j].id
       /\ Begins(entries[i].resulting, entries[j].previous)
  /\ \A id \in 1 .. Len(rows) : rows[id].status \in Answers!Decision =>
       \E i \in 1 .. Len(entries) : entries[i].id = id

Holds(request) == request.at \in {"suggestion", "word"}

\* A request is about the form that was shown; the row it holds is its own and is
\* there, and the one that holds the word has read it as it is.
RequestsInv(requests, rows, words) ==
  /\ requests \in [DOMAIN requests -> AskedDecision]
  /\ \A m \in DOMAIN requests :
       /\ requests[m].id \in 1 .. Len(rows)
       /\ requests[m].form = rows[requests[m].id].spelling.form
       /\ Holds(requests[m]) => rows[requests[m].id].status # "gone"
       /\ requests[m].at = "word" => rows[requests[m].id].status = "pending" /\ requests[m].answers = words
  /\ \A m, n \in DOMAIN requests : m # n =>
       /\ Holds(requests[m]) /\ Holds(requests[n]) => requests[m].id # requests[n].id
       /\ ~ (requests[m].at = "word" /\ requests[n].at = "word")

ModerationInv ==
  /\ suggestions \in Seq(SuggestedRow)
  /\ WordsInv(accepted, promised)
  /\ AuditInv(audit, suggestions, accepted)
  /\ RequestsInv(moderator, suggestions, accepted)

\* A prefix, entry by entry.
LEMMA PrefixBegins ==
  ASSUME NEW S, NEW z \in Seq(S), NEW t \in Seq(S), Begins(z, t)
  PROVE  Answers!IsPrefix(z, t)
<1>1. Len(z) \in Nat /\ Len(t) \in Nat /\ Len(z) <= Len(t)
  BY DEF Begins
<1>2. PICK a : a = SubSeq(z, 1, Len(z))
  OBVIOUS
<1>3. PICK b : b = SubSeq(t, 1, Len(z))
  OBVIOUS
<1>4. a \in Seq(S) /\ Len(a) = Len(z) /\ \A i \in 1 .. Len(z) : a[i] = z[i]
  BY <1>1, <1>2
<1>5. b \in Seq(S) /\ Len(b) = Len(z) /\ \A i \in 1 .. Len(z) : b[i] = t[i]
  BY <1>1, <1>3
<1>6. \A i \in 1 .. Len(z) : a[i] = b[i]
  BY <1>4, <1>5 DEF Begins
<1>7. a = b
  BY <1>4, <1>5, <1>6
<1> QED BY <1>1, <1>2, <1>3, <1>7 DEF Answers!IsPrefix

LEMMA BeginsFurther ==
  ASSUME NEW S, NEW z \in Seq(S), NEW t \in Seq(S), NEW u \in Seq(S), Begins(z, t), Begins(t, u)
  PROVE  Begins(z, u)
<1>1. Len(z) \in Nat /\ Len(t) \in Nat /\ Len(u) \in Nat
  OBVIOUS
<1> QED BY <1>1 DEF Begins

LEMMA BeginsLonger ==
  ASSUME NEW S, NEW t \in Seq(S), NEW e \in S
  PROVE  Begins(t, t) /\ Begins(t, Append(t, e))
<1>1. Len(t) \in Nat /\ Len(Append(t, e)) = Len(t) + 1 /\ \A i \in 1 .. Len(t) : Append(t, e)[i] = t[i]
  OBVIOUS
<1> QED BY <1>1 DEF Begins

LEMMA ModerationInit == ASSUME Answers!Init PROVE ModerationInv
<1>1. /\ accepted = <<>> /\ promised = {} /\ suggestions = <<>> /\ audit = <<>> /\ moderator = <<>>
      /\ Len(<<>>) = 0 /\ 1 .. 0 = {}
  BY DEF Answers!Init
<1>2. WordsInv(accepted, promised)
  BY <1>1 DEF WordsInv
<1>3. AuditInv(audit, suggestions, accepted)
  BY <1>1 DEF AuditInv
<1>4. DOMAIN moderator = {} /\ moderator \in [{} -> AskedDecision]
  BY <1>1
<1>5. RequestsInv(moderator, suggestions, accepted)
  BY <1>4 DEF RequestsInv
<1> QED BY <1>1, <1>2, <1>3, <1>5 DEF ModerationInv

\* What the requests say stands while the rows they hold keep their status, and all
\* rows their form.
LEMMA RequestsStand ==
  ASSUME NEW requests, NEW rows, NEW words, RequestsInv(requests, rows, words),
         NEW next, 1 .. Len(rows) \subseteq 1 .. Len(next),
         \A id \in 1 .. Len(rows) :
           /\ next[id].spelling.form = rows[id].spelling.form
           /\ next[id].status = rows[id].status \/ \A m \in DOMAIN requests : Holds(requests[m]) => requests[m].id # id
  PROVE  RequestsInv(requests, next, words)
<1>1. ASSUME NEW m \in DOMAIN requests
      PROVE  /\ requests[m].id \in 1 .. Len(next)
             /\ requests[m].form = next[requests[m].id].spelling.form
             /\ Holds(requests[m]) => next[requests[m].id].status # "gone"
             /\ requests[m].at = "word" => next[requests[m].id].status = "pending" /\ requests[m].answers = words
  <2>1. PICK id \in 1 .. Len(rows) : id = requests[m].id
    BY DEF RequestsInv
  <2>2. Holds(requests[m]) => next[id].status = rows[id].status
    BY <2>1
  <2>3. requests[m].at = "word" => Holds(requests[m])
    BY DEF Holds
  <2> QED BY <2>1, <2>2, <2>3 DEF RequestsInv
<1> QED BY <1>1 DEF RequestsInv

\* The entries stand while no row is decided and no decided row is lost.
LEMMA AuditStands ==
  ASSUME NEW entries, NEW rows, NEW words, AuditInv(entries, rows, words),
         NEW next, 1 .. Len(rows) \subseteq 1 .. Len(next),
         \A id \in 1 .. Len(rows) : next[id].status \in Answers!Decision <=> rows[id].status \in Answers!Decision,
         \A id \in 1 .. Len(next) : id \notin 1 .. Len(rows) => next[id].status \notin Answers!Decision
  PROVE  AuditInv(entries, next, words)
<1>1. ASSUME NEW i \in 1 .. Len(entries)
      PROVE  entries[i].id \in 1 .. Len(next) /\ next[entries[i].id].status \in Answers!Decision
  <2>1. entries[i].id \in 1 .. Len(rows) /\ rows[entries[i].id].status \in Answers!Decision
    BY DEF AuditInv
  <2> QED BY <2>1
<1>2. ASSUME NEW id \in 1 .. Len(next), next[id].status \in Answers!Decision
      PROVE  \E i \in 1 .. Len(entries) : entries[i].id = id
  <2>1. id \in 1 .. Len(rows) /\ rows[id].status \in Answers!Decision
    BY <1>2
  <2> QED BY <2>1 DEF AuditInv
<1> QED BY <1>1, <1>2 DEF AuditInv

LEMMA SubmitKeepsModeration ==
  ASSUME ModerationInv, NEW u \in Learner, NEW s \in Answers!Spelling, Answers!SubmitAnswerSuggestion(u, s)
  PROVE  ModerationInv'
<1>1. /\ suggestions \in Seq(SuggestedRow) /\ DOMAIN suggestions = 1 .. Len(suggestions) /\ Len(suggestions) \in Nat
      /\ \A id \in 1 .. Len(suggestions) : suggestions[id] \in SuggestedRow
      /\ WordsInv(accepted, promised) /\ AuditInv(audit, suggestions, accepted)
      /\ RequestsInv(moderator, suggestions, accepted)
  BY DEF ModerationInv
<1>2. accepted' = accepted /\ promised' = promised /\ audit' = audit /\ moderator' = moderator
  BY DEF Answers!SubmitAnswerSuggestion
<1>3. PICK rows : rows = suggestions'
  OBVIOUS
<1>4. PICK mine \in SUBSET (1 .. Len(suggestions)) : mine = Answers!PendingOf(u, s.form)
  BY <1>1 DEF Answers!PendingOf
<1>5. CASE mine # {}
  <2>1. rows = [id \in 1 .. Len(suggestions) |->
                  IF id \in mine THEN [suggestions[id] EXCEPT !.spelling = s] ELSE suggestions[id]]
    BY <1>1, <1>3, <1>4, <1>5 DEF Answers!SubmitAnswerSuggestion, Answers!Row
  <2>2. ASSUME NEW id \in 1 .. Len(suggestions)
        PROVE  /\ rows[id] \in SuggestedRow /\ rows[id].status = suggestions[id].status
               /\ rows[id].spelling.form = suggestions[id].spelling.form
    <3>1. suggestions[id] \in SuggestedRow
      BY <1>1
    <3>2. CASE id \in mine
      <4>1. suggestions[id].spelling.form = s.form
        BY <1>4, <3>2 DEF Answers!PendingOf, Answers!Row
      <4>2. rows[id] = [suggestions[id] EXCEPT !.spelling = s]
        BY <2>1, <3>2
      <4> QED BY <3>1, <4>1, <4>2 DEF SuggestedRow
    <3>3. CASE id \notin mine
      BY <2>1, <3>1, <3>3
    <3> QED BY <3>2, <3>3
  <2>3. rows \in Seq(SuggestedRow) /\ Len(rows) = Len(suggestions)
    <3>1. rows = [id \in 1 .. Len(suggestions) |-> rows[id]]
      BY <2>1
    <3>2. rows \in [1 .. Len(suggestions) -> SuggestedRow]
      BY <2>2, <3>1
    <3> QED BY <1>1, <3>2
  <2>4. RequestsInv(moderator, rows, accepted)
    BY <1>1, <2>2, <2>3, RequestsStand
  <2>5. AuditInv(audit, rows, accepted)
    BY <1>1, <2>2, <2>3, AuditStands
  <2> QED BY <1>1, <1>2, <1>3, <2>3, <2>4, <2>5 DEF ModerationInv
<1>6. CASE mine = {}
  <2>1. PICK row : row = [user |-> u, spelling |-> s, status |-> "pending", version |-> 1]
    OBVIOUS
  <2>2. rows = Append(suggestions, row)
    BY <1>3, <1>4, <1>6, <2>1 DEF Answers!SubmitAnswerSuggestion
  <2>3. row \in SuggestedRow /\ row.status \notin Answers!Decision
    BY <2>1 DEF SuggestedRow, Answers!Decision
  <2>4. /\ rows \in Seq(SuggestedRow) /\ Len(rows) = Len(suggestions) + 1 /\ rows[Len(suggestions) + 1] = row
        /\ \A id \in 1 .. Len(suggestions) : rows[id] = suggestions[id]
    BY <1>1, <2>2, <2>3
  <2>5. /\ 1 .. Len(suggestions) \subseteq 1 .. Len(rows)
        /\ \A id \in 1 .. Len(rows) : id \notin 1 .. Len(suggestions) => id = Len(suggestions) + 1
    BY <1>1, <2>4
  <2>6. RequestsInv(moderator, rows, accepted)
    BY <1>1, <2>4, <2>5, RequestsStand
  <2>7. AuditInv(audit, rows, accepted)
    BY <1>1, <2>3, <2>4, <2>5, AuditStands
  <2> QED BY <1>1, <1>2, <1>3, <2>4, <2>6, <2>7 DEF ModerationInv
<1> QED BY <1>5, <1>6

\* The rows that nobody holds go with their entries.
LEMMA DeletionKeepsModeration ==
  ASSUME ModerationInv, NEW gone \in SUBSET (1 .. Len(suggestions)), \A id \in gone : ~ Answers!Locked(id),
         Answers!Without(gone), UNCHANGED <<accepted, moderator, promised>>
  PROVE  ModerationInv'
<1>1. /\ suggestions \in Seq(SuggestedRow) /\ DOMAIN suggestions = 1 .. Len(suggestions) /\ Len(suggestions) \in Nat
      /\ \A id \in 1 .. Len(suggestions) : suggestions[id] \in SuggestedRow
      /\ WordsInv(accepted, promised) /\ AuditInv(audit, suggestions, accepted)
      /\ RequestsInv(moderator, suggestions, accepted)
  BY DEF ModerationInv
<1>2. audit \in Seq(AuditEntry) /\ DOMAIN audit = 1 .. Len(audit)
  BY <1>1 DEF AuditInv
<1>3. PICK rows : rows = suggestions'
  OBVIOUS
<1>4. rows = [id \in 1 .. Len(suggestions) |->
                IF id \in gone THEN [suggestions[id] EXCEPT !.status = "gone"] ELSE suggestions[id]]
  BY <1>1, <1>3 DEF Answers!Without, Answers!Row
<1>5. ASSUME NEW id \in 1 .. Len(suggestions)
      PROVE  /\ rows[id] \in SuggestedRow
             /\ rows[id].spelling.form = suggestions[id].spelling.form
             /\ id \notin gone => rows[id].status = suggestions[id].status
             /\ id \in gone => rows[id].status = "gone"
  <2>1. suggestions[id] \in SuggestedRow
    BY <1>1
  <2>2. CASE id \in gone
    <3>1. rows[id] = [suggestions[id] EXCEPT !.status = "gone"]
      BY <1>4, <2>2
    <3> QED BY <2>1, <2>2, <3>1 DEF SuggestedRow
  <2>3. CASE id \notin gone
    BY <1>4, <2>1, <2>3
  <2> QED BY <2>2, <2>3
<1>6. rows \in Seq(SuggestedRow) /\ Len(rows) = Len(suggestions)
  <2>1. rows = [id \in 1 .. Len(suggestions) |-> rows[id]]
    BY <1>4
  <2>2. rows \in [1 .. Len(suggestions) -> SuggestedRow]
    BY <1>5, <2>1
  <2> QED BY <1>1, <2>2
<1>7. RequestsInv(moderator, rows, accepted)
  <2>1. ASSUME NEW id \in gone, NEW m \in DOMAIN moderator, Holds(moderator[m]) PROVE moderator[m].id # id
    BY <2>1 DEF Answers!Locked, Holds
  <2> QED BY <1>1, <1>5, <1>6, <2>1, RequestsStand
<1>8. PICK left \in SUBSET (1 .. Len(audit)) : left = {i \in 1 .. Len(audit) : audit[i].id \notin gone}
  OBVIOUS
<1>9. PICK entries : entries = Answers!Kept(audit, left)
  OBVIOUS
<1>10. audit' = entries
  BY <1>2, <1>8, <1>9 DEF Answers!Without
<1>11. Answers!Kept(audit, left) = Kept(audit, left)
  BY DEF Answers!Kept, Kept
<1>12. entries \in Seq(AuditEntry)
  <2>1. Kept(audit, left) \in Seq(AuditEntry)
    BY <1>2, KeptInOrder
  <2> QED BY <1>9, <1>11, <2>1
<1>13. PICK of \in [1 .. Len(entries) -> left] :
         /\ \A k \in 1 .. Len(entries) : entries[k] = audit[of[k]]
         /\ \A j, k \in 1 .. Len(entries) : j < k => of[j] < of[k]
         /\ \A i \in left : \E k \in 1 .. Len(entries) : of[k] = i
  <2>1. PICK z : z = Kept(audit, left)
    OBVIOUS
  <2>2. \E of \in [1 .. Len(z) -> left] :
          /\ \A k \in 1 .. Len(z) : z[k] = audit[of[k]]
          /\ \A j, k \in 1 .. Len(z) : j < k => of[j] < of[k]
          /\ \A i \in left : \E k \in 1 .. Len(z) : of[k] = i
    BY <1>2, <2>1, KeptInOrder, SMTT(20)
  <2>3. z = entries
    BY <1>9, <1>11, <2>1
  <2> QED BY <2>2, <2>3
<1>14. ASSUME NEW k \in 1 .. Len(entries)
       PROVE  of[k] \in 1 .. Len(audit) /\ entries[k] = audit[of[k]] /\ entries[k].id \notin gone
  BY <1>8, <1>13
<1>15. ASSUME NEW k \in 1 .. Len(entries)
       PROVE  /\ entries[k].id \in 1 .. Len(rows) /\ rows[entries[k].id].status \in Answers!Decision
              /\ Begins(entries[k].previous, entries[k].resulting)
              /\ Begins(entries[k].resulting, accepted)
  <2>1. /\ entries[k].id \in 1 .. Len(suggestions) /\ suggestions[entries[k].id].status \in Answers!Decision
        /\ Begins(entries[k].previous, entries[k].resulting) /\ Begins(entries[k].resulting, accepted)
    BY <1>1, <1>14 DEF AuditInv
  <2> QED BY <1>5, <1>6, <1>14, <2>1
<1>16. ASSUME NEW j \in 1 .. Len(entries), NEW k \in 1 .. Len(entries), j < k
       PROVE  entries[j].id # entries[k].id /\ Begins(entries[j].resulting, entries[k].previous)
  <2>1. PICK a \in 1 .. Len(audit), b \in 1 .. Len(audit) : a = of[j] /\ b = of[k]
    BY <1>14
  <2>2. a < b
    BY <1>13, <1>16, <2>1
  <2>3. audit[a].id # audit[b].id /\ Begins(audit[a].resulting, audit[b].previous)
    BY <1>1, <2>2 DEF AuditInv
  <2> QED BY <1>14, <2>1, <2>3
<1>17. ASSUME NEW id \in 1 .. Len(rows), rows[id].status \in Answers!Decision
       PROVE  \E k \in 1 .. Len(entries) : entries[k].id = id
  <2>1. id \in 1 .. Len(suggestions) /\ id \notin gone /\ suggestions[id].status \in Answers!Decision
    <3>1. "gone" \notin Answers!Decision
      BY DEF Answers!Decision
    <3> QED BY <1>5, <1>6, <1>17, <3>1
  <2>2. PICK i \in 1 .. Len(audit) : audit[i].id = id
    BY <1>1, <2>1 DEF AuditInv
  <2>3. PICK k \in 1 .. Len(entries) : of[k] = i
    BY <1>8, <1>13, <2>1, <2>2
  <2> QED BY <1>13, <2>2, <2>3
<1>18. AuditInv(entries, rows, accepted)
  BY <1>12, <1>15, <1>16, <1>17 DEF AuditInv
<1> QED BY <1>1, <1>3, <1>6, <1>7, <1>10, <1>18 DEF ModerationInv

\* A moderator who asks about a row that is shown, holds it, or lets go of it.
LEMMA RequestsChange ==
  ASSUME NEW requests, NEW rows, NEW words, RequestsInv(requests, rows, words),
         NEW m, NEW next, DOMAIN next \subseteq DOMAIN requests \cup {m},
         \A n \in DOMAIN next : n # m => next[n] = requests[n],
         next = [n \in DOMAIN next |-> next[n]],
         m \in DOMAIN next =>
           /\ next[m] \in AskedDecision
           /\ next[m].id \in 1 .. Len(rows)
           /\ next[m].form = rows[next[m].id].spelling.form
           /\ Holds(next[m]) =>
                /\ rows[next[m].id].status # "gone"
                /\ \A n \in DOMAIN next : n # m /\ Holds(next[n]) => next[n].id # next[m].id
           /\ next[m].at = "word" =>
                /\ rows[next[m].id].status = "pending" /\ next[m].answers = words
                /\ \A n \in DOMAIN next : n # m => next[n].at # "word"
  PROVE  RequestsInv(next, rows, words)
<1>1. ASSUME NEW n \in DOMAIN next, n # m PROVE n \in DOMAIN requests /\ next[n] = requests[n]
  BY <1>1
<1>2. ASSUME NEW n \in DOMAIN next
      PROVE  /\ next[n] \in AskedDecision
             /\ next[n].id \in 1 .. Len(rows)
             /\ next[n].form = rows[next[n].id].spelling.form
             /\ Holds(next[n]) => rows[next[n].id].status # "gone"
             /\ next[n].at = "word" => rows[next[n].id].status = "pending" /\ next[n].answers = words
  <2>1. CASE n = m
    BY <2>1
  <2>2. CASE n # m
    <3>1. n \in DOMAIN requests /\ next[n] = requests[n]
      BY <1>1, <2>2
    <3> QED BY <3>1 DEF RequestsInv
  <2> QED BY <2>1, <2>2
<1>3. next \in [DOMAIN next -> AskedDecision]
  BY <1>2
<1>4. ASSUME NEW j \in DOMAIN next, NEW n \in DOMAIN next, j # n
      PROVE  /\ Holds(next[j]) /\ Holds(next[n]) => next[j].id # next[n].id
             /\ ~ (next[j].at = "word" /\ next[n].at = "word")
  <2>1. CASE j = m \/ n = m
    BY <1>4, <2>1
  <2>2. CASE j # m /\ n # m
    <3>1. j \in DOMAIN requests /\ n \in DOMAIN requests /\ next[j] = requests[j] /\ next[n] = requests[n]
      BY <1>1, <2>2
    <3> QED BY <1>4, <3>1 DEF RequestsInv
  <2> QED BY <2>1, <2>2
<1> QED BY <1>2, <1>3, <1>4 DEF RequestsInv

LEMMA DismissKeepsRequests ==
  ASSUME RequestsInv(moderator, suggestions, accepted), NEW m
  PROVE  RequestsInv(Answers!Dismissed(m), suggestions, accepted)
<1>1. PICK next : next = [n \in DOMAIN moderator \ {m} |-> moderator[n]]
  OBVIOUS
<1>2. Answers!Dismissed(m) = next
  BY <1>1 DEF Answers!Dismissed
<1>3. /\ DOMAIN next = DOMAIN moderator \ {m} /\ m \notin DOMAIN next
      /\ \A n \in DOMAIN next : next[n] = moderator[n]
  BY <1>1
<1>4. next = [n \in DOMAIN next |-> next[n]]
  BY <1>1
<1>5. RequestsInv(next, suggestions, accepted)
  BY <1>3, <1>4, RequestsChange
<1> QED BY <1>2, <1>5

\* A request that is there goes on to another state.
LEMMA ContinueKeepsRequests ==
  ASSUME RequestsInv(moderator, suggestions, accepted), NEW m \in DOMAIN moderator,
         NEW r \in AskedDecision, r.id = moderator[m].id, r.form = moderator[m].form,
         NEW next, next = [moderator EXCEPT ![m] = r],
         Holds(r) => /\ suggestions[r.id].status # "gone"
                     /\ \A n \in DOMAIN moderator : n # m /\ Holds(moderator[n]) => moderator[n].id # r.id,
         r.at = "word" => /\ suggestions[r.id].status = "pending" /\ r.answers = accepted
                          /\ \A n \in DOMAIN moderator : n # m => moderator[n].at # "word"
  PROVE  RequestsInv(next, suggestions, accepted)
<1>1. moderator \in [DOMAIN moderator -> AskedDecision]
  BY DEF RequestsInv
<1>2. /\ DOMAIN next = DOMAIN moderator /\ next[m] = r
      /\ \A n \in DOMAIN next : n # m => next[n] = moderator[n]
      /\ next = [n \in DOMAIN next |-> next[n]]
  BY <1>1
<1>3. /\ r.id \in 1 .. Len(suggestions)
      /\ r.form = suggestions[r.id].spelling.form
  BY DEF RequestsInv
<1>4. Holds(next[m]) => \A n \in DOMAIN next : n # m /\ Holds(next[n]) => next[n].id # next[m].id
  BY <1>2
<1>5. next[m].at = "word" => \A n \in DOMAIN next : n # m => next[n].at # "word"
  BY <1>2
<1> QED BY <1>2, <1>3, <1>4, <1>5, RequestsChange

LEMMA AskKeepsModeration ==
  ASSUME ModerationInv, NEW m \in Moderator, NEW id \in Answers!Id, NEW decision \in Answers!Decision,
         Answers!Ask(m, id, decision)
  PROVE  ModerationInv'
<1>1. /\ suggestions \in Seq(SuggestedRow) /\ DOMAIN suggestions = 1 .. Len(suggestions)
      /\ WordsInv(accepted, promised) /\ AuditInv(audit, suggestions, accepted)
      /\ RequestsInv(moderator, suggestions, accepted)
  BY DEF ModerationInv
<1>2. /\ m \notin DOMAIN moderator /\ id \in 1 .. Len(suggestions)
      /\ accepted' = accepted /\ promised' = promised /\ audit' = audit /\ suggestions' = suggestions
  BY <1>1 DEF Answers!Ask, Answers!Asks
<1>3. PICK next : next = moderator'
  OBVIOUS
<1>4. PICK r : r = [at |-> "sent", id |-> id, version |-> suggestions[id].version,
                    form |-> suggestions[id].spelling.form, decision |-> decision, answers |-> <<>>]
  OBVIOUS
<1>5. r \in AskedDecision /\ ~ Holds(r) /\ r.at = "sent"
  <2>1. /\ suggestions[id].version \in Nat /\ suggestions[id].spelling.form \in Form
        /\ id \in Nat /\ <<>> \in Seq(Answers!Spelling)
    <3>1. suggestions[id] \in SuggestedRow
      BY <1>1, <1>2
    <3>2. <<>> \in Seq(Answers!Spelling)
      OBVIOUS
    <3> QED BY <1>2, <3>1, <3>2 DEF SuggestedRow, Answers!Spelling, Answers!Id
  <2> QED BY <1>4, <2>1 DEF AskedDecision, Holds
<1>6. next = [n \in DOMAIN moderator \cup {m} |-> IF n = m THEN r ELSE moderator[n]]
  BY <1>3, <1>4 DEF Answers!Ask, Answers!Row
<1>7. /\ DOMAIN next = DOMAIN moderator \cup {m} /\ next[m] = r
      /\ \A n \in DOMAIN next : n # m => next[n] = moderator[n]
      /\ next = [n \in DOMAIN next |-> next[n]]
  BY <1>6
<1>8. r.id \in 1 .. Len(suggestions) /\ r.form = suggestions[r.id].spelling.form
  BY <1>2, <1>4
<1>9. RequestsInv(next, suggestions, accepted)
  BY <1>1, <1>5, <1>7, <1>8, RequestsChange
<1> QED BY <1>1, <1>2, <1>3, <1>9 DEF ModerationInv

LEMMA LocksKeepModeration ==
  ASSUME ModerationInv, NEW m \in Moderator,
         Answers!LockSuggestion(m) \/ Answers!LockWord(m) \/ Answers!RollBack(m)
  PROVE  ModerationInv'
<1>1. /\ suggestions \in Seq(SuggestedRow) /\ accepted \in Seq(Answers!Spelling)
      /\ WordsInv(accepted, promised) /\ AuditInv(audit, suggestions, accepted)
      /\ RequestsInv(moderator, suggestions, accepted)
      /\ moderator \in [DOMAIN moderator -> AskedDecision]
  BY DEF ModerationInv, WordsInv, RequestsInv
<1>2. /\ m \in DOMAIN moderator
      /\ accepted' = accepted /\ promised' = promised /\ audit' = audit /\ suggestions' = suggestions
  BY DEF Answers!LockSuggestion, Answers!LockWord, Answers!RollBack, Answers!At, Answers!Asks
<1>3. PICK asked \in AskedDecision : asked = moderator[m]
  BY <1>1, <1>2
<1>4. PICK next : next = moderator'
  OBVIOUS
<1>5. next = Answers!Dismissed(m) => RequestsInv(next, suggestions, accepted)
  BY <1>1, DismissKeepsRequests
<1>6. CASE Answers!LockSuggestion(m)
  <2>1. PICK r : r = [asked EXCEPT !.at = "suggestion"]
    OBVIOUS
  <2>2. r \in AskedDecision /\ r.id = asked.id /\ r.form = asked.form /\ r.at = "suggestion"
    BY <2>1 DEF AskedDecision
  <2>3. CASE suggestions[asked.id].status = "gone"
    <3>1. next = Answers!Dismissed(m)
      BY <1>3, <1>4, <1>6, <2>3 DEF Answers!LockSuggestion, Answers!Row
    <3> QED BY <1>1, <1>2, <1>4, <1>5, <3>1 DEF ModerationInv
  <2>4. CASE suggestions[asked.id].status # "gone"
    <3>1. next = [moderator EXCEPT ![m] = r]
      BY <1>1, <1>3, <1>4, <1>6, <2>1, <2>4 DEF Answers!LockSuggestion, Answers!Row
    <3>2. \A n \in DOMAIN moderator : Holds(moderator[n]) => moderator[n].id # r.id
      BY <1>3, <1>6, <2>2 DEF Answers!LockSuggestion, Answers!Locked, Holds
    <3>3. RequestsInv(next, suggestions, accepted)
      BY <1>1, <1>2, <1>3, <2>2, <2>4, <3>1, <3>2, ContinueKeepsRequests
    <3> QED BY <1>1, <1>2, <1>4, <3>3 DEF ModerationInv
  <2> QED BY <2>3, <2>4
<1>7. CASE Answers!LockWord(m)
  <2>1. PICK r : r = [asked EXCEPT !.at = "word", !.answers = accepted]
    OBVIOUS
  <2>2. r \in AskedDecision /\ r.id = asked.id /\ r.form = asked.form /\ r.at = "word" /\ r.answers = accepted
    BY <1>1, <2>1 DEF AskedDecision
  <2>3. CASE suggestions[asked.id].status # "pending" \/ suggestions[asked.id].version # asked.version
    <3>1. next = Answers!Dismissed(m)
      BY <1>3, <1>4, <1>7, <2>3 DEF Answers!LockWord, Answers!Row
    <3> QED BY <1>1, <1>2, <1>4, <1>5, <3>1 DEF ModerationInv
  <2>4. CASE ~ (suggestions[asked.id].status # "pending" \/ suggestions[asked.id].version # asked.version)
    <3>1. next = [moderator EXCEPT ![m] = r]
      BY <1>1, <1>3, <1>4, <1>7, <2>1, <2>4 DEF Answers!LockWord, Answers!Row
    <3>2. asked.at = "suggestion" /\ Holds(asked)
      BY <1>3, <1>7 DEF Answers!LockWord, Answers!At, Holds
    <3>3. \A n \in DOMAIN moderator : n # m /\ Holds(moderator[n]) => moderator[n].id # r.id
      BY <1>1, <1>2, <1>3, <2>2, <3>2 DEF RequestsInv
    <3>4. \A n \in DOMAIN moderator : n # m => moderator[n].at # "word"
      BY <1>7 DEF Answers!LockWord, Answers!WordIsFree
    <3>5. RequestsInv(next, suggestions, accepted)
      BY <1>1, <1>2, <1>3, <2>2, <2>4, <3>1, <3>3, <3>4, ContinueKeepsRequests
    <3> QED BY <1>1, <1>2, <1>4, <3>5 DEF ModerationInv
  <2> QED BY <2>3, <2>4
<1>8. CASE Answers!RollBack(m)
  <2>1. PICK r : r = [asked EXCEPT !.at = "sent", !.answers = <<>>]
    OBVIOUS
  <2>2. r \in AskedDecision /\ r.id = asked.id /\ r.form = asked.form /\ r.at = "sent" /\ ~ Holds(r)
    <3>1. PICK none : none = <<>>
      OBVIOUS
    <3>2. none \in Seq(Answers!Spelling)
      BY <3>1
    <3>3. r = [asked EXCEPT !.at = "sent", !.answers = none]
      BY <2>1, <3>1
    <3> QED BY <3>2, <3>3 DEF AskedDecision, Holds
  <2>3. next = [moderator EXCEPT ![m] = r]
    BY <1>1, <1>3, <1>4, <1>8, <2>1 DEF Answers!RollBack
  <2>4. RequestsInv(next, suggestions, accepted)
    BY <1>1, <1>2, <1>3, <2>2, <2>3, ContinueKeepsRequests
  <2> QED BY <1>1, <1>2, <1>4, <2>4 DEF ModerationInv
<1> QED BY <1>6, <1>7, <1>8

\* The answers after a decision: those the word has, and the one that is accepted.
LEMMA DecisionAddsAnswers ==
  ASSUME NEW words, NEW told, WordsInv(words, told), NEW spelling \in Answers!Spelling, NEW more \in BOOLEAN,
         NEW next, next = IF more /\ spelling.form \notin Answers!Forms(words) THEN Append(words, spelling) ELSE words
  PROVE  /\ WordsInv(next, told \cup (IF more THEN {spelling.form} ELSE {}))
         /\ Begins(words, next) /\ next \in Seq(Answers!Spelling)
<1>1. /\ words \in Seq(Answers!Spelling) /\ DOMAIN words = 1 .. Len(words) /\ Len(words) \in Nat
      /\ told \subseteq Answers!Forms(words)
      /\ \A i, j \in 1 .. Len(words) : words[i].form = words[j].form => i = j
      /\ Answers!Forms(words) = {words[i].form : i \in 1 .. Len(words)}
  BY DEF WordsInv, Answers!Forms
<1>2. CASE ~ (more /\ spelling.form \notin Answers!Forms(words))
  <2>1. next = words
    BY <1>2
  <2>2. told \cup (IF more THEN {spelling.form} ELSE {}) \subseteq Answers!Forms(words)
    BY <1>1, <1>2
  <2>3. Begins(words, words)
    BY <1>1 DEF Begins
  <2> QED BY <1>1, <2>1, <2>2, <2>3 DEF WordsInv
<1>3. CASE more /\ spelling.form \notin Answers!Forms(words)
  <2>1. next = Append(words, spelling)
    BY <1>3
  <2>2. /\ next \in Seq(Answers!Spelling) /\ Len(next) = Len(words) + 1 /\ next[Len(words) + 1] = spelling
        /\ DOMAIN next = 1 .. Len(next)
        /\ \A i \in 1 .. Len(words) : next[i] = words[i]
    BY <1>1, <2>1
  <2>3. \A i \in 1 .. Len(next) : i \in 1 .. Len(words) \/ i = Len(words) + 1
    BY <1>1, <2>2
  <2>4. \A i \in 1 .. Len(words) : words[i].form # spelling.form
    BY <1>1, <1>3
  <2>5. ASSUME NEW i \in 1 .. Len(next), NEW j \in 1 .. Len(next), next[i].form = next[j].form PROVE i = j
    BY <1>1, <2>2, <2>3, <2>4, <2>5
  <2>6. Answers!Forms(next) = {next[i].form : i \in 1 .. Len(next)}
    BY <2>2 DEF Answers!Forms
  <2>7. spelling.form \in Answers!Forms(next)
    <3>1. Len(words) + 1 \in 1 .. Len(next)
      BY <1>1, <2>2
    <3> QED BY <2>2, <2>6, <3>1
  <2>8. Answers!Forms(words) \subseteq Answers!Forms(next)
    <3>1. ASSUME NEW i \in 1 .. Len(words) PROVE words[i].form \in Answers!Forms(next)
      <4>1. i \in 1 .. Len(next) /\ next[i] = words[i]
        BY <1>1, <2>2
      <4> QED BY <2>6, <4>1
    <3> QED BY <1>1, <3>1
  <2>9. Begins(words, next)
    BY <1>1, <2>2 DEF Begins
  <2> QED BY <1>1, <2>2, <2>5, <2>7, <2>8, <2>9 DEF WordsInv
<1> QED BY <1>2, <1>3

\* One more entry, of a row that was pending, ends with what the word has now.
LEMMA DecisionIsEntered ==
  ASSUME NEW entries, NEW rows, NEW words \in Seq(Answers!Spelling), AuditInv(entries, rows, words),
         NEW id \in 1 .. Len(rows), id \in Nat, rows[id].status \notin Answers!Decision,
         NEW answers \in Seq(Answers!Spelling), Begins(words, answers),
         NEW next, Len(next) = Len(rows), next[id].status \in Answers!Decision,
         \A o \in 1 .. Len(rows) : o # id => next[o].status = rows[o].status,
         NEW e, e = [id |-> id, previous |-> words, resulting |-> answers]
  PROVE  AuditInv(Append(entries, e), next, answers)
<1>1. PICK all : all = Append(entries, e)
  OBVIOUS
<1>2. e \in AuditEntry /\ e.id = id /\ e.previous = words /\ e.resulting = answers
  BY DEF AuditEntry
<1>3. entries \in Seq(AuditEntry) /\ Len(entries) \in Nat
  BY DEF AuditInv
<1>4. /\ all \in Seq(AuditEntry) /\ Len(all) = Len(entries) + 1 /\ all[Len(entries) + 1] = e
      /\ \A i \in 1 .. Len(entries) : all[i] = entries[i]
  BY <1>1, <1>2, <1>3
<1>5. \A i \in 1 .. Len(all) : i \in 1 .. Len(entries) \/ i = Len(entries) + 1
  BY <1>3, <1>4
<1>6. ASSUME NEW i \in 1 .. Len(entries)
      PROVE  /\ entries[i].id \in 1 .. Len(rows) /\ entries[i].id # id
             /\ rows[entries[i].id].status \in Answers!Decision
             /\ Begins(entries[i].previous, entries[i].resulting)
             /\ Begins(entries[i].resulting, words)
             /\ entries[i].resulting \in Seq(Answers!Spelling)
  <2>1. entries[i] \in AuditEntry
    BY <1>3
  <2>2. entries[i].resulting \in Seq(Answers!Spelling)
    BY <2>1 DEF AuditEntry
  <2> QED BY <2>2 DEF AuditInv
<1>7. Begins(answers, answers)
  BY DEF Begins
<1>8. ASSUME NEW i \in 1 .. Len(all)
      PROVE  /\ all[i].id \in 1 .. Len(next) /\ next[all[i].id].status \in Answers!Decision
             /\ Begins(all[i].previous, all[i].resulting)
             /\ Begins(all[i].resulting, answers)
  <2>1. CASE i \in 1 .. Len(entries)
    <3>1. Begins(entries[i].resulting, answers)
      BY <1>6, <2>1, BeginsFurther
    <3>2. all[i] = entries[i] /\ next[entries[i].id].status = rows[entries[i].id].status
      BY <1>4, <1>6, <2>1
    <3> QED BY <1>6, <2>1, <3>1, <3>2
  <2>2. CASE i = Len(entries) + 1
    BY <1>2, <1>4, <1>7, <2>2
  <2> QED BY <1>5, <2>1, <2>2
<1>9. ASSUME NEW i \in 1 .. Len(all), NEW j \in 1 .. Len(all), i < j
      PROVE  all[i].id # all[j].id /\ Begins(all[i].resulting, all[j].previous)
  <2>1. i \in 1 .. Len(entries) /\ all[i] = entries[i]
    BY <1>3, <1>4, <1>9
  <2>2. CASE j \in 1 .. Len(entries)
    <3>1. all[j] = entries[j]
      BY <1>4, <2>2
    <3> QED BY <1>9, <2>1, <2>2, <3>1 DEF AuditInv
  <2>3. CASE j = Len(entries) + 1
    BY <1>2, <1>4, <1>6, <2>1, <2>3
  <2> QED BY <1>5, <2>2, <2>3
<1>10. ASSUME NEW o \in 1 .. Len(next), next[o].status \in Answers!Decision
       PROVE  \E i \in 1 .. Len(all) : all[i].id = o
  <2>1. CASE o = id
    <3>1. Len(entries) + 1 \in 1 .. Len(all)
      BY <1>3, <1>4
    <3> QED BY <1>2, <1>4, <2>1, <3>1
  <2>2. CASE o # id
    <3>1. PICK i \in 1 .. Len(entries) : entries[i].id = o
      BY <1>10, <2>2 DEF AuditInv
    <3>2. i \in 1 .. Len(all) /\ all[i] = entries[i]
      BY <1>3, <1>4
    <3> QED BY <3>1, <3>2
  <2> QED BY <2>1, <2>2
<1>11. AuditInv(all, next, answers)
  BY <1>4, <1>8, <1>9, <1>10 DEF AuditInv
<1> QED BY <1>1, <1>11

LEMMA DecideKeepsModeration ==
  ASSUME ModerationInv, NEW m \in Moderator, NEW lost \in BOOLEAN, Answers!Decide(m, lost)
  PROVE  ModerationInv'
<1>1. /\ suggestions \in Seq(SuggestedRow) /\ accepted \in Seq(Answers!Spelling) /\ Len(suggestions) \in Nat
      /\ WordsInv(accepted, promised) /\ AuditInv(audit, suggestions, accepted)
      /\ RequestsInv(moderator, suggestions, accepted)
      /\ moderator \in [DOMAIN moderator -> AskedDecision]
  BY DEF ModerationInv, WordsInv, RequestsInv
<1>2. m \in DOMAIN moderator
  BY DEF Answers!Decide, Answers!At, Answers!Asks
<1>3. PICK asked \in AskedDecision : asked = moderator[m]
  BY <1>1, <1>2
<1>4. asked.at = "word" /\ Holds(asked)
  BY <1>3 DEF Answers!Decide, Answers!At, Holds
<1>5. PICK id \in 1 .. Len(suggestions) : id = asked.id
  BY <1>1, <1>2, <1>3 DEF RequestsInv
<1>6. PICK row \in SuggestedRow : row = suggestions[id]
  BY <1>1
<1>7. asked.answers = accepted /\ row.status = "pending" /\ asked.form = row.spelling.form /\ asked.decision \in Answers!Decision
  BY <1>1, <1>2, <1>3, <1>4, <1>5, <1>6 DEF RequestsInv, AskedDecision
<1>8. PICK more \in BOOLEAN : more <=> asked.decision = "accepted"
  OBVIOUS
<1>9. PICK answers : answers = IF more /\ row.spelling.form \notin Answers!Forms(accepted)
                               THEN Append(accepted, row.spelling) ELSE accepted
  OBVIOUS
<1>10. /\ accepted' = answers
       /\ promised' = promised \cup (IF more THEN {row.spelling.form} ELSE {})
       /\ audit' = Append(audit, [id |-> id, previous |-> accepted, resulting |-> answers])
       /\ suggestions' = [suggestions EXCEPT ![id].status = asked.decision, ![id].version = @ + 1]
       /\ moderator' = IF lost THEN [moderator EXCEPT ![m].at = "sent", ![m].answers = <<>>]
                       ELSE Answers!Dismissed(m)
  BY <1>3, <1>5, <1>6, <1>7, <1>8, <1>9 DEF Answers!Decide, Answers!Row
<1>11. row.spelling \in Answers!Spelling
  BY <1>6 DEF SuggestedRow
<1>12. /\ WordsInv(accepted', promised')
       /\ Begins(accepted, answers) /\ answers \in Seq(Answers!Spelling)
  BY <1>1, <1>9, <1>10, <1>11, DecisionAddsAnswers
<1>13. PICK rows : rows = suggestions'
  OBVIOUS
<1>14. PICK next : next = [row EXCEPT !.status = asked.decision, !.version = row.version + 1]
  OBVIOUS
<1>15. next \in SuggestedRow /\ next.status = asked.decision /\ next.spelling = row.spelling
  <2>1. row.version + 1 \in Nat
    BY <1>6 DEF SuggestedRow
  <2>2. PICK later \in Nat : later = row.version + 1
    BY <2>1
  <2>3. next = [row EXCEPT !.status = asked.decision, !.version = later]
    BY <1>14, <2>2
  <2> HIDE <2>2
  <2> QED BY <1>6, <1>7, <2>3 DEF SuggestedRow
<1>16. rows = [suggestions EXCEPT ![id] = next]
  BY <1>1, <1>6, <1>10, <1>13, <1>14
<1>17. /\ rows \in Seq(SuggestedRow) /\ Len(rows) = Len(suggestions) /\ rows[id] = next
       /\ \A o \in 1 .. Len(suggestions) : o # id => rows[o] = suggestions[o]
  BY <1>1, <1>5, <1>15, <1>16
<1>18. AuditInv(audit', rows, answers)
  <2>1. "pending" \notin Answers!Decision /\ id \in Nat
    BY <1>1 DEF Answers!Decision
  <2>2. rows[id].status \in Answers!Decision /\ suggestions[id].status \notin Answers!Decision
    BY <1>6, <1>7, <1>15, <1>17, <2>1
  <2>3. \A o \in 1 .. Len(suggestions) : o # id => rows[o].status = suggestions[o].status
    BY <1>17
  <2>4. PICK e : e = [id |-> id, previous |-> accepted, resulting |-> answers]
    OBVIOUS
  <2>5. AuditInv(Append(audit, e), rows, answers)
    BY <1>1, <1>12, <1>17, <2>1, <2>2, <2>3, <2>4, DecisionIsEntered
  <2> QED BY <1>10, <2>4, <2>5
<1>19. PICK after : after = moderator'
  OBVIOUS
<1>20. /\ DOMAIN after \subseteq DOMAIN moderator
       /\ \A n \in DOMAIN after : n # m => after[n] = moderator[n]
       /\ m \in DOMAIN after => after[m] \in AskedDecision /\ after[m].id = id /\ after[m].form = asked.form /\ after[m].at = "sent"
       /\ after = [n \in DOMAIN after |-> after[n]]
  <2>1. CASE lost
    <3>1. PICK none : none = <<>>
      OBVIOUS
    <3>2. PICK r : r = [asked EXCEPT !.at = "sent", !.answers = none]
      OBVIOUS
    <3>3. r \in AskedDecision /\ r.id = asked.id /\ r.form = asked.form /\ r.at = "sent"
      <4>1. none \in Seq(Answers!Spelling)
        BY <3>1
      <4> QED BY <3>2, <4>1 DEF AskedDecision
    <3>4. after = [moderator EXCEPT ![m] = r]
      BY <1>1, <1>2, <1>3, <1>10, <1>19, <2>1, <3>1, <3>2
    <3> QED BY <1>1, <1>2, <1>5, <3>3, <3>4
  <2>2. CASE ~ lost
    <3>1. after = [n \in DOMAIN moderator \ {m} |-> moderator[n]]
      BY <1>10, <1>19, <2>2 DEF Answers!Dismissed
    <3> QED BY <3>1
  <2> QED BY <2>1, <2>2
<1>21. ASSUME NEW n \in DOMAIN after, n # m
       PROVE  /\ after[n] \in AskedDecision /\ after[n].at # "word"
              /\ after[n].id \in 1 .. Len(rows) /\ after[n].form = rows[after[n].id].spelling.form
              /\ Holds(after[n]) => rows[after[n].id].status # "gone"
  <2>1. n \in DOMAIN moderator /\ after[n] = moderator[n] /\ moderator[n] \in AskedDecision
    BY <1>1, <1>20, <1>21
  <2>2. /\ moderator[n].at # "word" /\ moderator[n].id \in 1 .. Len(suggestions)
        /\ moderator[n].form = suggestions[moderator[n].id].spelling.form
        /\ Holds(moderator[n]) => moderator[n].id # id /\ suggestions[moderator[n].id].status # "gone"
    BY <1>1, <1>2, <1>3, <1>4, <1>5, <1>21, <2>1 DEF RequestsInv
  <2>3. rows[moderator[n].id].spelling = suggestions[moderator[n].id].spelling
    BY <1>6, <1>15, <1>17, <2>2
  <2> QED BY <1>17, <2>1, <2>2, <2>3
<1>22. ASSUME NEW n \in DOMAIN after, n = m
       PROVE  /\ after[n] \in AskedDecision /\ after[n].at = "sent"
              /\ after[n].id \in 1 .. Len(rows) /\ after[n].form = rows[after[n].id].spelling.form
  BY <1>7, <1>15, <1>17, <1>20, <1>22
<1>23. RequestsInv(after, rows, answers)
  <2>1. after \in [DOMAIN after -> AskedDecision]
    BY <1>20, <1>21, <1>22
  <2>2. ASSUME NEW n \in DOMAIN after
        PROVE  /\ after[n].at # "word"
               /\ after[n].id \in 1 .. Len(rows) /\ after[n].form = rows[after[n].id].spelling.form
               /\ Holds(after[n]) => n # m /\ rows[after[n].id].status # "gone"
    BY <1>21, <1>22 DEF Holds
  <2>3. ASSUME NEW j \in DOMAIN after, NEW n \in DOMAIN after, j # n, Holds(after[j]), Holds(after[n])
        PROVE  after[j].id # after[n].id
    <3>1. j # m /\ n # m
      BY <2>2, <2>3
    <3>2. j \in DOMAIN moderator /\ n \in DOMAIN moderator /\ after[j] = moderator[j] /\ after[n] = moderator[n]
      BY <1>20, <3>1
    <3> QED BY <1>1, <2>3, <3>2 DEF RequestsInv
  <2> QED BY <2>1, <2>2, <2>3 DEF RequestsInv
<1> QED BY <1>10, <1>12, <1>13, <1>17, <1>18, <1>19, <1>23 DEF ModerationInv

LEMMA ModerationKept ==
  ASSUME ModerationInv, [Answers!Next]_(Answers!vars)
  PROVE  ModerationInv'
<1>1. ASSUME NEW u \in Learner, Answers!DeleteLearner(u) PROVE ModerationInv'
  <2>1. DOMAIN suggestions = 1 .. Len(suggestions)
    BY DEF ModerationInv
  <2>2. PICK own \in SUBSET (1 .. Len(suggestions)) : own = {id \in DOMAIN suggestions : Answers!Row(id).user = u}
    BY <2>1
  <2>3. /\ \A id \in own : ~ Answers!Locked(id)
        /\ Answers!Without(own) /\ UNCHANGED <<accepted, moderator, promised>>
    BY <1>1, <2>2 DEF Answers!DeleteLearner
  <2> QED BY <2>3, DeletionKeepsModeration
<1>2. CASE Answers!CleanupExpired
  <2>1. DOMAIN suggestions = 1 .. Len(suggestions)
    BY DEF ModerationInv
  <2>2. PICK expired \in SUBSET {id \in DOMAIN suggestions : Answers!Row(id).status # "gone" /\ ~ Answers!Locked(id)} :
          Answers!Without(expired) /\ UNCHANGED <<accepted, moderator, promised>>
    BY <1>2 DEF Answers!CleanupExpired
  <2>3. expired \in SUBSET (1 .. Len(suggestions)) /\ \A id \in expired : ~ Answers!Locked(id)
    BY <2>1, <2>2
  <2> QED BY <2>2, <2>3, DeletionKeepsModeration
<1>3. CASE UNCHANGED <<accepted, suggestions, audit, moderator, promised>>
  BY <1>3 DEF ModerationInv
<1>4. ASSUME NEW u, NEW f, Answers!Rejected(u, f) PROVE ModerationInv'
  BY <1>3, <1>4 DEF Answers!Rejected
<1> QED BY <1>1, <1>2, <1>3, <1>4, SubmitKeepsModeration, AskKeepsModeration, LocksKeepModeration,
           DecideKeepsModeration DEF Answers!Next, Answers!vars

\* A list of different forms has as many forms as entries.
LEMMA FormsAreCounted ==
  ASSUME NEW words, NEW told, WordsInv(words, told)
  PROVE  Cardinality(Answers!Forms(words)) = Len(words)
<1>1. /\ words \in Seq(Answers!Spelling) /\ DOMAIN words = 1 .. Len(words) /\ Len(words) \in Nat
      /\ \A i, j \in 1 .. Len(words) : words[i].form = words[j].form => i = j
  BY DEF WordsInv
<1>2. PICK n \in Nat : n = Len(words)
  BY <1>1
<1>3. PICK f : f = [i \in 1 .. n |-> words[i].form]
  OBVIOUS
<1>4. PICK all : all = Answers!Forms(words)
  OBVIOUS
<1>5. all = {f[i] : i \in 1 .. n}
  BY <1>1, <1>2, <1>3, <1>4 DEF Answers!Forms
<1>6. \A i, j \in 1 .. n : f[i] = f[j] => i = j
  BY <1>1, <1>2, <1>3
<1>7. f \in [1 .. n -> all] /\ \A a \in all : \E i \in 1 .. n : f[i] = a
  BY <1>3, <1>5
<1>8. ExistsBijection(1 .. n, all)
  <2>1. f \in Bijection(1 .. n, all)
    <3>1. DOMAIN f = 1 .. n
      BY <1>7
    <3> QED BY <1>6, <1>7, <3>1 DEF Bijection, Injection, Surjection, IsInjective
  <2> QED BY <2>1 DEF ExistsBijection
<1>9. IsFiniteSet(1 .. n) /\ Cardinality(1 .. n) = n
  <2>1. 1 \in Int /\ n \in Int /\ (IF 1 > n THEN 0 ELSE n - 1 + 1) = n
    OBVIOUS
  <2> QED BY <2>1, FS_Interval
<1>10. Cardinality(all) = n
  BY <1>8, <1>9, FS_Bijection
<1> QED BY <1>2, <1>4, <1>10

\* moderation/repository.go and answer_suggestion.go: however the decisions, the
\* submissions, the retention and the deletions of accounts interleave, and whichever
\* responses are lost, a suggestion is decided once, the audit goes from one list of
\* answers to the next without losing one, and what was promised is accepted.
THEOREM DecisionsAreFinal == Spec => []DecisionsStand
<1> DEFINE I == part = "moderation" => ModerationInv
<1>1. Init => I
  BY ModerationInit DEF Init
<1>2. I /\ [Next]_vars => I'
  BY PartSteps, ModerationKept
<1>3. I => DecisionsStand
  <2>1. SUFFICES ASSUME ModerationInv PROVE Answers!DecisionsStand
    BY DEF DecisionsStand
  <2>2. /\ suggestions \in Seq(SuggestedRow) /\ DOMAIN suggestions = 1 .. Len(suggestions)
        /\ audit \in Seq(AuditEntry) /\ DOMAIN audit = 1 .. Len(audit) /\ Len(audit) \in Nat
        /\ accepted \in Seq(Answers!Spelling)
        /\ WordsInv(accepted, promised) /\ AuditInv(audit, suggestions, accepted)
    BY <2>1 DEF ModerationInv, AuditInv, WordsInv
  <2>3. \A S : Answers!Cardinality(S) = Cardinality(S)
    BY DEF Answers!Cardinality, Cardinality
  <2>4. ASSUME NEW id \in 1 .. Len(suggestions)
        PROVE  Cardinality({i \in 1 .. Len(audit) : audit[i].id = id})
                 = (IF suggestions[id].status \in Answers!Decision THEN 1 ELSE 0)
    <3>1. CASE suggestions[id].status \in Answers!Decision
      <4>1. PICK i \in 1 .. Len(audit) : audit[i].id = id
        BY <2>2, <3>1 DEF AuditInv
      <4>2. ASSUME NEW j \in 1 .. Len(audit), audit[j].id = id PROVE j = i
        <5>1. ~ (i < j) /\ ~ (j < i)
          BY <2>2, <4>1, <4>2 DEF AuditInv
        <5> QED BY <5>1
      <4>3. {j \in 1 .. Len(audit) : audit[j].id = id} = {i}
        BY <4>1, <4>2
      <4> QED BY <3>1, <4>3, FS_Singleton
    <3>2. CASE suggestions[id].status \notin Answers!Decision
      <4>1. {j \in 1 .. Len(audit) : audit[j].id = id} = {}
        BY <2>2, <3>2 DEF AuditInv
      <4> QED BY <3>2, <4>1, FS_EmptySet
    <3> QED BY <3>1, <3>2
  <2>5. ASSUME NEW i \in 1 .. Len(audit)
        PROVE  /\ Answers!IsPrefix(audit[i].previous, audit[i].resulting)
               /\ Answers!IsPrefix(audit[i].resulting, IF i = Len(audit) THEN accepted ELSE audit[i + 1].previous)
    <3>1. audit[i].previous \in Seq(Answers!Spelling) /\ audit[i].resulting \in Seq(Answers!Spelling)
      <4>1. audit[i] \in AuditEntry
        BY <2>2
      <4> QED BY <4>1 DEF AuditEntry
    <3>2. PICK t : t = IF i = Len(audit) THEN accepted ELSE audit[i + 1].previous
      OBVIOUS
    <3>3. t \in Seq(Answers!Spelling) /\ Begins(audit[i].resulting, t)
      <4>1. CASE i = Len(audit)
        BY <2>2, <3>2, <4>1 DEF AuditInv
      <4>2. CASE i # Len(audit)
        <5>1. i + 1 \in 1 .. Len(audit) /\ i < i + 1
          <6>1. Len(audit) \in Nat
            BY <2>2
          <6> QED BY <4>2, <6>1
        <5>2. audit[i + 1] \in AuditEntry /\ t = audit[i + 1].previous
          <6>1. audit[i + 1] \in AuditEntry
            BY <2>2, <5>1
          <6> QED BY <3>2, <4>2, <6>1
        <5> QED BY <2>2, <5>1, <5>2 DEF AuditInv, AuditEntry
      <4> QED BY <4>1, <4>2
    <3>4. Begins(audit[i].previous, audit[i].resulting)
      BY <2>2 DEF AuditInv
    <3>5. Answers!IsPrefix(audit[i].resulting, t)
      BY <3>1, <3>3, PrefixBegins
    <3>6. Answers!IsPrefix(audit[i].previous, audit[i].resulting)
      BY <3>1, <3>4, PrefixBegins
    <3> QED BY <3>2, <3>5, <3>6
  <2>6. Cardinality(Answers!Forms(accepted)) = Len(accepted)
    BY <2>2, FormsAreCounted
  <2>7. promised \subseteq Answers!Forms(accepted)
    BY <2>2 DEF WordsInv
  <2> QED BY <2>2, <2>3, <2>4, <2>5, <2>6, <2>7 DEF Answers!DecisionsStand, Answers!Row
<1> QED BY <1>1, <1>2, <1>3, PTL DEF Spec

=============================================================================
