----------------------------- MODULE PagesProofs -----------------------------
(***************************************************************************)
(* The families of pages that MCPages checks one at a time, for every value   *)
(* of their constants.  A family that is on screen is the only one, so its    *)
(* invariant is proved under the assumption that it is (LEMMA PartSteps).      *)
(***************************************************************************)
EXTENDS MCPages, Totals, Integers, Sequences, FiniteSetTheorems, WellFoundedInduction, TLAPS

\* Every step is one of the family on screen, or leaves it alone.
LEMMA PartSteps ==
  ASSUME [Next]_vars
  PROVE  /\ part' = part
         /\ Study => [S!Next]_(S!vars)
         /\ Catalog => [C!Next]_(C!vars)
         /\ Account => [A!Next]_(A!vars)
         /\ Report => [Progress!Next]_(Progress!vars)
  BY DEF Next, vars, Study, Catalog, Account, Report, S!vars, C!vars, A!vars, Progress!vars

-----------------------------------------------------------------------------
(* The study pages                                                         *)

\* The places of the study pages.
server == s1
session == s2
cache == s3
studied == s4
loads == s5
action == s6
overlap == s7

USE DEF server, session, cache, studied, loads, action, overlap

\* What is kept of the answers.
Kept == {"progress", "lesson"}
Told(w) == IF w = "progress" THEN server.progress ELSE server.lesson

\* A read whose answer may still be stored has the answer the server gives now,
\* or none, unless a change has crossed it.
LoadOK(w, l) ==
  /\ DOMAIN l = DOMAIN S!NoLoad
  /\ l.token \in Nat /\ l.token <= session
  /\ ~ overlap /\ l.at = "served" /\ ~ l.stored /\ l.token = session => l.answer \in {Failed, Told(w)}

LoadsInv ==
  /\ DOMAIN loads = S!Resource
  /\ \A w \in Kept : DOMAIN loads[w] = S!Asker /\ \A b \in S!Asker : LoadOK(w, loads[w][b])

\* While a change is under way nothing is kept and nothing it changes is read.
ChangeInv ==
  ~ overlap /\ action.at = "sent" => cache = S!NoCache /\ ~ S!Reading

StudyInv ==
  /\ session \in Nat
  /\ DOMAIN cache = DOMAIN S!NoCache
  /\ DOMAIN action = DOMAIN S!NoAction
  /\ LoadsInv
  /\ ChangeInv
  /\ S!CacheIsCurrent

LEMMA StudyInit == ASSUME S!Init PROVE StudyInv
<1>1. session = 1 /\ cache = S!NoCache /\ action = S!NoAction /\ overlap = FALSE
  BY DEF S!Init
<1>2. \A w \in S!Resource : loads[w] = [effect |-> loads[w]["effect"], retry |-> S!NoLoad]
  BY DEF S!Init
<1>3. ASSUME NEW w \in Kept, NEW b \in S!Asker PROVE LoadOK(w, loads[w][b])
  <2>1. /\ loads[w]["effect"] = IF w \notin S!Loads(studied.route) THEN S!NoLoad
                               ELSE [S!NoLoad EXCEPT !.at = "sent", !.token = 1, !.wanted = TRUE]
        /\ loads[w]["retry"] = S!NoLoad
    BY DEF S!Init, Kept, S!Resource
  <2>2. LoadOK(w, S!NoLoad)
    BY <1>1 DEF LoadOK, S!NoLoad
  <2>3. LoadOK(w, [S!NoLoad EXCEPT !.at = "sent", !.token = 1, !.wanted = TRUE])
    BY <1>1 DEF LoadOK, S!NoLoad
  <2> QED BY <2>1, <2>2, <2>3 DEF S!Asker
<1>4. LoadsInv
  BY <1>2, <1>3 DEF S!Init, LoadsInv, Kept, S!Resource, S!Asker
<1> QED BY <1>1, <1>4 DEF StudyInv, ChangeInv, S!CacheIsCurrent, S!NoCache, S!NoAction

\* The page asks: a stored answer is never stored again.
LEMMA AskedIsOK ==
  ASSUME session \in Nat, NEW w \in Kept
  PROVE  LoadOK(w, S!Get(w, cache))
  BY DEF LoadOK, S!Get, S!NoLoad, Kept

\* The parts of the invariant that a step keeps when it leaves the server alone.
LEMMA LoadsKept ==
  ASSUME session \in Nat, LoadsInv, UNCHANGED <<server, session>>, overlap => overlap',
         DOMAIN loads' = S!Resource,
         \A w \in Kept : DOMAIN loads'[w] = S!Asker,
         \A w \in Kept, b \in S!Asker :
           \/ loads'[w][b] = loads[w][b]
           \/ loads'[w][b] = S!NoLoad
           \/ LoadOK(w, loads'[w][b])
  PROVE  LoadsInv'
<1>1. ASSUME NEW w \in Kept, NEW b \in S!Asker PROVE LoadOK(w, loads[w][b])'
  <2>1. LoadOK(w, loads[w][b])
    BY DEF LoadsInv
  <2>2. CASE loads'[w][b] = loads[w][b]
    BY <2>1, <2>2 DEF LoadOK, Told
  <2>3. CASE loads'[w][b] = S!NoLoad
    BY <2>1, <2>3 DEF LoadOK, S!NoLoad
  <2>4. CASE LoadOK(w, loads'[w][b])
    BY <2>4 DEF LoadOK, Told
  <2> QED BY <2>2, <2>3, <2>4
<1> QED BY <1>1 DEF LoadsInv

\* The cache is cleared, or keeps what it had.
CacheStands == cache' \in {cache, S!NoCache}

LEMMA CacheStandsOK ==
  ASSUME StudyInv, server' = server, overlap => overlap', CacheStands
  PROVE  DOMAIN cache' = DOMAIN S!NoCache /\ S!CacheIsCurrent'
  BY DEF StudyInv, CacheStands, S!CacheIsCurrent, S!NoCache

\* A read that waits for its answer is one of those that a change has to know of.
LEMMA ReadingIs ==
  ASSUME NEW w \in Kept, NEW b \in S!Asker, loads[w][b].at \in {"sent", "served"}
  PROVE  S!Reading
  BY DEF S!Reading, Kept, S!Asker

\* The server answers a read, or does not.
LEMMA ReadsKeepStudy ==
  ASSUME StudyInv, NEW w \in S!Resource, NEW b \in S!Asker, S!Serve(w, b) \/ S!ReadFails(w, b)
  PROVE  StudyInv'
<1>1. PICK a : /\ loads[w][b].at = "sent"
               /\ loads' = [loads EXCEPT ![w][b].at = "served", ![w][b].answer = a]
               /\ w \in Kept => a \in {Failed, Told(w)}
  BY DEF S!Serve, S!ReadFails, S!Answer, Told, Kept
<1>2. UNCHANGED <<server, session, cache, action, overlap>>
  BY DEF S!Serve, S!ReadFails
<1>3. \A v \in Kept : DOMAIN loads[v] = S!Asker
  BY DEF StudyInv, LoadsInv
<1>4. DOMAIN loads' = S!Resource /\ \A v \in Kept : DOMAIN loads'[v] = S!Asker
  <2>1. \A v \in S!Resource : loads'[v] = IF v = w THEN [loads[w] EXCEPT ![b] = loads'[w][b]] ELSE loads[v]
    BY <1>1 DEF StudyInv, LoadsInv
  <2> QED BY <1>1, <1>3, <2>1 DEF StudyInv, LoadsInv, Kept, S!Resource
<1>5. ASSUME NEW v \in Kept, NEW c \in S!Asker
      PROVE  loads'[v][c] = loads[v][c] \/ LoadOK(v, loads'[v][c])
  <2>1. CASE v = w /\ c = b
    <3>1. LoadOK(w, loads[w][b])
      BY <2>1 DEF StudyInv, LoadsInv
    <3>2. loads'[v][c] = [loads[w][b] EXCEPT !.at = "served", !.answer = a]
      BY <1>1, <1>3, <2>1 DEF StudyInv, LoadsInv, Kept, S!Resource
    <3>3. PICK l : l = loads[w][b]
      OBVIOUS
    <3>4. LoadOK(w, [l EXCEPT !.at = "served", !.answer = a])
      BY <1>1, <2>1, <3>1, <3>3 DEF LoadOK, S!NoLoad
    <3> QED BY <2>1, <3>2, <3>3, <3>4
  <2>2. CASE ~ (v = w /\ c = b)
    BY <1>1, <1>3, <2>2 DEF StudyInv, LoadsInv, Kept, S!Resource
  <2> QED BY <2>1, <2>2
<1>6. LoadsInv'
  BY <1>2, <1>4, <1>5, LoadsKept DEF StudyInv
<1>7. ChangeInv'
  <2>1. ASSUME NEW v \in Kept, NEW c \in S!Asker, loads'[v][c].at \in {"sent", "served"}
        PROVE  S!Reading
    <3>1. loads[v][c].at \in {"sent", "served"}
      BY <1>1, <1>3, <2>1 DEF StudyInv, LoadsInv, Kept, S!Resource
    <3> QED BY <3>1, ReadingIs
  <2>2. S!Reading' => S!Reading
    BY <2>1 DEF S!Reading, Kept, S!Asker
  <2> QED BY <1>2, <2>2 DEF StudyInv, ChangeInv
<1> QED BY <1>2, <1>6, <1>7, CacheStandsOK DEF CacheStands, StudyInv

\* An answer that is stored is the one the server gives now.
LEMMA StoredIsCurrent ==
  ASSUME StudyInv, Failed # S!NoLesson, NEW w \in S!Resource, NEW l,
         w \in Kept => LoadOK(w, l), l.at = "served",
         NEW k, k = S!Stored(w, l, cache)
  PROVE  /\ DOMAIN k = DOMAIN S!NoCache
         /\ ~ overlap => /\ k.noLesson => server.lesson = S!NoLesson
                         /\ k.progress # Nothing => k.progress = server.progress
<1>1. CASE k = cache
  BY <1>1 DEF StudyInv, S!CacheIsCurrent
<1>2. CASE k # cache
  <2>1. ~ l.stored /\ l.token = session /\ w \in Kept
    BY <1>2 DEF S!Stored, Kept
  <2>2. CASE w = "progress" /\ l.answer # Failed /\ k = [cache EXCEPT !.progress = l.answer]
    BY <2>1, <2>2 DEF LoadOK, Told, StudyInv, S!CacheIsCurrent, S!NoCache
  <2>3. CASE w = "lesson" /\ l.answer = S!NoLesson /\ k = [cache EXCEPT !.noLesson = TRUE]
    BY <2>1, <2>3 DEF LoadOK, Told, StudyInv, S!CacheIsCurrent, S!NoCache
  <2> QED BY <1>2, <2>1, <2>2, <2>3 DEF S!Stored
<1> QED BY <1>1, <1>2

LEMMA DeliverKeepsStudy ==
  ASSUME StudyInv, Failed # S!NoLesson, NEW w \in S!Resource, NEW b \in S!Asker, S!Deliver(w, b)
  PROVE  StudyInv'
<1> DEFINE l == loads[w][b]
<1>1. /\ l.at = "served"
      /\ cache' = S!NoCache \/ cache' = S!Stored(w, l, cache)
      /\ \A v \in S!Resource \ {"preview"} : loads'[v] = [loads EXCEPT ![w][b] = S!NoLoad][v]
      /\ DOMAIN loads' = DOMAIN loads
      /\ UNCHANGED <<server, session, action, overlap>>
  BY DEF S!Deliver, StudyInv, LoadsInv, S!Resource
<1>2. \A v \in Kept : DOMAIN loads[v] = S!Asker
  BY DEF StudyInv, LoadsInv
<1>3. ASSUME NEW v \in Kept, NEW c \in S!Asker
      PROVE  /\ DOMAIN loads'[v] = S!Asker
             /\ loads'[v][c] = loads[v][c] \/ loads'[v][c] = S!NoLoad
  BY <1>1, <1>2 DEF StudyInv, LoadsInv, Kept, S!Resource
<1>4. LoadsInv'
  BY <1>1, <1>3, LoadsKept DEF StudyInv, LoadsInv
<1>5. w \in Kept => LoadOK(w, l)
  BY DEF StudyInv, LoadsInv
<1>6. DOMAIN cache' = DOMAIN S!NoCache /\ S!CacheIsCurrent'
  <2>1. CASE cache' = S!NoCache
    BY <1>1, <2>1, CacheStandsOK DEF CacheStands
  <2>2. CASE cache' = S!Stored(w, l, cache)
    BY <1>1, <1>5, <2>2, StoredIsCurrent DEF S!CacheIsCurrent
  <2> QED BY <1>1, <2>1, <2>2
<1>7. ChangeInv'
  <2>1. ASSUME NEW v \in Kept, NEW c \in S!Asker, loads'[v][c].at \in {"sent", "served"}
        PROVE  S!Reading
    BY <1>3, <2>1, ReadingIs DEF S!NoLoad
  <2>2. S!Reading' => S!Reading
    BY <2>1 DEF S!Reading, Kept, S!Asker
  <2>3. cache' # S!NoCache /\ cache # cache' => w \in Kept
    BY <1>1 DEF S!Stored, Kept
  <2>4. w \in Kept => S!Reading
    BY <1>1, ReadingIs
  <2> QED BY <1>1, <2>2, <2>3, <2>4 DEF StudyInv, ChangeInv
<1> QED BY <1>1, <1>4, <1>6, <1>7 DEF StudyInv

\* A page that is left keeps the reads of its buttons and asks for the rest anew.
LEMMA WantedIsOK ==
  ASSUME NEW w, NEW l, LoadOK(w, l), NEW x
  PROVE  LoadOK(w, [l EXCEPT !.wanted = x])
  BY DEF LoadOK, S!NoLoad

LEMMA AskedKeepsLoads ==
  ASSUME StudyInv, NEW r, NEW kept, loads' = S!Asked(r, kept),
         UNCHANGED <<server, session>>, overlap => overlap'
  PROVE  LoadsInv'
<1>1. ASSUME NEW w \in Kept
      PROVE  /\ DOMAIN loads'[w] = S!Asker
             /\ loads'[w]["effect"] \in {S!NoLoad, S!Get(w, cache)}
             /\ loads'[w]["retry"] = [loads[w]["retry"] EXCEPT !.wanted = @ /\ kept]
  BY DEF S!Asked, S!Begun, Kept, S!Resource, S!Asker
<1>2. ASSUME NEW w \in Kept PROVE LoadOK(w, loads'[w]["retry"])
  <2>1. PICK l : l = loads[w]["retry"]
    OBVIOUS
  <2>2. LoadOK(w, l)
    BY <2>1 DEF StudyInv, LoadsInv, S!Asker
  <2>3. LoadOK(w, [l EXCEPT !.wanted = l.wanted /\ kept])
    BY <2>2, WantedIsOK
  <2> QED BY <1>1, <2>1, <2>3
<1>3. ASSUME NEW w \in Kept, NEW b \in S!Asker
      PROVE  loads'[w][b] = S!NoLoad \/ LoadOK(w, loads'[w][b])
  <2>1. session \in Nat
    BY DEF StudyInv
  <2> QED BY <1>1, <1>2, <2>1, AskedIsOK DEF S!Asker
<1>4. DOMAIN loads' = S!Resource
  BY DEF S!Asked
<1> QED BY <1>1, <1>3, <1>4, LoadsKept DEF StudyInv

\* The learner goes to another page.
LEMMA OpenKeepsStudy ==
  ASSUME StudyInv, NEW r, S!Open(r)
  PROVE  StudyInv'
<1>1. /\ loads' = S!Asked(r, FALSE)
      /\ action' = [action EXCEPT !.wanted = FALSE]
      /\ overlap' = (overlap \/ action.at = "sent")
      /\ UNCHANGED <<server, session, cache>>
  BY DEF S!Open, S!Goes
<1>2. LoadsInv'
  BY <1>1, AskedKeepsLoads
<1>3. DOMAIN action' = DOMAIN S!NoAction /\ action'.at = action.at
  BY <1>1 DEF StudyInv, S!NoAction
<1>4. ChangeInv'
  BY <1>1, <1>3 DEF ChangeInv
<1> QED BY <1>1, <1>2, <1>3, <1>4, CacheStandsOK DEF CacheStands, StudyInv

\* With a new session nothing is kept, and no answer to an old one will be.
LEMMA RefreshKeepsStudy ==
  ASSUME StudyInv, S!SessionRefreshed
  PROVE  StudyInv'
<1>1. /\ session' = session + 1 /\ session \in Nat
      /\ cache' = S!NoCache
      /\ overlap' = (overlap \/ action.at = "sent")
      /\ UNCHANGED <<server, action>>
  BY DEF S!SessionRefreshed, StudyInv
<1>2. ASSUME NEW w \in Kept
      PROVE  /\ DOMAIN loads'[w] = S!Asker
             /\ loads'[w]["effect"] \in
                  {S!NoLoad, [S!NoLoad EXCEPT !.at = "sent", !.token = session', !.wanted = TRUE]}
             /\ loads'[w]["retry"] = loads[w]["retry"]
  BY DEF S!SessionRefreshed, Kept, S!Resource, S!Asker
<1>3. ASSUME NEW w \in Kept, NEW b \in S!Asker PROVE LoadOK(w, loads[w][b])'
  <2>1. LoadOK(w, S!NoLoad)'
    BY <1>1 DEF LoadOK, S!NoLoad
  <2>2. LoadOK(w, [S!NoLoad EXCEPT !.at = "sent", !.token = session, !.wanted = TRUE])'
    BY <1>1 DEF LoadOK, S!NoLoad
  <2>3. loads[w]["retry"].token # session + 1 /\ LoadOK(w, loads[w]["retry"])
    BY <1>1 DEF StudyInv, LoadsInv, LoadOK, S!Asker
  <2>4. LoadOK(w, loads[w]["retry"])'
    BY <1>1, <1>2, <2>3 DEF LoadOK, S!NoLoad
  <2> QED BY <1>2, <2>1, <2>2, <2>4 DEF S!Asker
<1>4. LoadsInv'
  BY <1>2, <1>3 DEF S!SessionRefreshed, LoadsInv
<1>5. ChangeInv'
  BY <1>1 DEF ChangeInv
<1>6. session' \in Nat
  BY <1>1
<1> QED BY <1>1, <1>4, <1>5, <1>6, CacheStandsOK DEF CacheStands, StudyInv

\* A button asks again, and a change that is under way is crossed by it.
LEMMA RetryKeepsStudy ==
  ASSUME StudyInv, NEW w \in S!Resource, S!Retry(w)
  PROVE  StudyInv'
<1>1. /\ cache' \in {cache, S!NoCache}
      /\ overlap' = (overlap \/ action.at = "sent")
      /\ UNCHANGED <<server, session, action>>
  BY DEF S!Retry
<1>2. PICK l : /\ loads' = [loads EXCEPT ![w]["retry"] = l]
               /\ w \in Kept => l = S!Get(w, cache)
  <2>1. CASE w = "preview"
    BY <2>1 DEF S!Retry, Kept
  <2>2. CASE w # "preview"
    BY <2>2 DEF S!Retry, Kept
  <2> QED BY <2>1, <2>2
<1>3. ASSUME NEW v \in Kept, NEW b \in S!Asker
      PROVE  /\ DOMAIN loads'[v] = S!Asker
             /\ loads'[v][b] = loads[v][b] \/ LoadOK(v, loads'[v][b])
  <2>1. w \in Kept => LoadOK(w, l)
    BY <1>2, AskedIsOK DEF StudyInv
  <2>2. DOMAIN loads[v] = S!Asker /\ v \in S!Resource
    BY DEF StudyInv, LoadsInv, Kept, S!Resource
  <2> QED BY <1>2, <2>1, <2>2 DEF StudyInv, LoadsInv, S!Asker
<1>4. LoadsInv'
  <2>1. DOMAIN loads' = S!Resource
    BY <1>2 DEF StudyInv, LoadsInv
  <2>2. \A v \in Kept : DOMAIN loads'[v] = S!Asker
    BY <1>3 DEF S!Asker
  <2> QED BY <1>1, <1>3, <2>1, <2>2, LoadsKept DEF StudyInv
<1> QED BY <1>1, <1>4, CacheStandsOK DEF CacheStands, StudyInv, ChangeInv

\* The preview of the composer touches nothing that is kept.
LEMMA PreviewKeepsStudy ==
  ASSUME StudyInv, (\E c \in S!Choice : S!Choose(c)) \/ S!PreviewTimer
  PROVE  StudyInv'
<1>1. /\ cache' \in {cache, S!NoCache}
      /\ DOMAIN loads' = DOMAIN loads
      /\ \A w \in Kept : loads'[w] = loads[w]
      /\ UNCHANGED <<server, session, action, overlap>>
  BY DEF S!Choose, S!PreviewTimer, StudyInv, LoadsInv, Kept, S!Resource
<1>2. LoadsInv'
  BY <1>1, LoadsKept DEF StudyInv, LoadsInv
<1>3. S!Reading' = S!Reading
  BY <1>1 DEF S!Reading, Kept
<1> QED BY <1>1, <1>2, <1>3, CacheStandsOK DEF CacheStands, StudyInv, ChangeInv

LEMMA ExpiryKeepsStudy ==
  ASSUME StudyInv, S!CacheExpires
  PROVE  StudyInv'
<1>1. UNCHANGED <<server, session, loads, action, overlap>> /\ cache # S!NoCache
  BY DEF S!CacheExpires
<1>2. LoadsInv'
  BY <1>1, LoadsKept DEF StudyInv, LoadsInv
<1>3. DOMAIN cache' = DOMAIN S!NoCache /\ S!CacheIsCurrent'
  BY <1>1 DEF S!CacheExpires, StudyInv, S!CacheIsCurrent, S!NoCache
<1>4. ChangeInv'
  BY <1>1 DEF StudyInv, ChangeInv
<1> QED BY <1>1, <1>2, <1>3, <1>4 DEF StudyInv

\* A change is sent: from here on nothing is kept, and a read that is under way
\* crosses it.
LEMMA ChangeKeepsStudy ==
  ASSUME StudyInv,
         \/ \E kind, on : S!Change(kind, on)
         \/ S!DueRead
  PROVE  StudyInv'
<1>1. /\ cache' = S!NoCache
      /\ DOMAIN action' = DOMAIN S!NoAction
      /\ overlap' = (overlap \/ S!Reading)
      /\ UNCHANGED <<server, session, loads>>
  <2>1. CASE \E kind, on : S!Change(kind, on)
    BY <2>1 DEF S!Change, S!NoAction
  <2>2. CASE S!DueRead
    BY <2>2 DEF S!DueRead, StudyInv, S!NoAction
  <2> QED BY <2>1, <2>2
<1>2. LoadsInv'
  BY <1>1, LoadsKept DEF StudyInv, LoadsInv
<1>3. ChangeInv'
  BY <1>1 DEF ChangeInv, S!Reading
<1> QED BY <1>1, <1>2, <1>3, CacheStandsOK DEF CacheStands, StudyInv

\* The change is neither sent nor under way: what is due is read, what it ended
\* with is loaded again.
LEMMA ReloadKeepsStudy ==
  ASSUME StudyInv, UNCHANGED <<server, session, cache, overlap>>,
         DOMAIN action' = DOMAIN S!NoAction, action'.at # "sent",
         LoadsInv'
  PROVE  StudyInv'
<1>1. ChangeInv'
  BY DEF ChangeInv
<1> QED BY <1>1, CacheStandsOK DEF CacheStands, StudyInv

LEMMA ButtonAsks ==
  ASSUME StudyInv, NEW w \in Kept, NEW x, UNCHANGED <<server, session, overlap>>,
         loads' = [loads EXCEPT ![w]["retry"] = [S!Get(w, cache) EXCEPT !.wanted = x]]
  PROVE  LoadsInv'
<1>1. PICK l : l = [S!Get(w, cache) EXCEPT !.wanted = x]
  OBVIOUS
<1>2. LoadOK(w, l)
  BY <1>1, AskedIsOK, WantedIsOK DEF StudyInv
<1>3. ASSUME NEW v \in Kept, NEW b \in S!Asker
      PROVE  /\ DOMAIN loads'[v] = S!Asker
             /\ loads'[v][b] = loads[v][b] \/ LoadOK(v, loads'[v][b])
  <2>1. DOMAIN loads[v] = S!Asker /\ v \in S!Resource
    BY DEF StudyInv, LoadsInv, Kept, S!Resource
  <2>2. loads' = [loads EXCEPT ![w]["retry"] = l]
    BY <1>1
  <2> HIDE <1>1
  <2> QED BY <1>2, <2>1, <2>2 DEF StudyInv, LoadsInv, S!Asker
<1>4. DOMAIN loads' = S!Resource
  BY DEF StudyInv, LoadsInv
<1>5. \A v \in Kept : DOMAIN loads'[v] = S!Asker
  BY <1>3 DEF S!Asker
<1> QED BY <1>3, <1>4, <1>5, LoadsKept DEF StudyInv

LEMMA DueKeepsStudy ==
  ASSUME StudyInv, S!StartDue \/ S!NothingDue \/ S!Reloaded \/ S!ActionFails
  PROVE  StudyInv'
<1>1. /\ UNCHANGED <<server, session, cache, overlap>>
      /\ DOMAIN action' = DOMAIN S!NoAction /\ action'.at # "sent"
  <2>1. CASE S!StartDue
    BY <2>1 DEF S!StartDue, S!NoAction
  <2>2. CASE S!NothingDue
    BY <2>2 DEF S!NothingDue, StudyInv, S!NoAction
  <2>3. CASE S!Reloaded
    BY <2>3 DEF S!Reloaded, S!NoAction
  <2>4. CASE S!ActionFails
    BY <2>4 DEF S!ActionFails, StudyInv, S!NoAction
  <2> QED BY <2>1, <2>2, <2>3, <2>4
<1>2. CASE S!NothingDue
  <2>1. LoadsInv'
    BY <1>1, <1>2, ButtonAsks DEF S!NothingDue, Kept
  <2> QED BY <1>1, <2>1, ReloadKeepsStudy
<1>3. CASE S!StartDue \/ S!Reloaded \/ S!ActionFails
  <2>1. loads' = loads
    BY <1>3 DEF S!StartDue, S!Reloaded, S!ActionFails
  <2>2. LoadsInv'
    BY <1>1, <2>1, LoadsKept DEF StudyInv, LoadsInv
  <2> QED BY <1>1, <2>2, ReloadKeepsStudy
<1> QED BY <1>2, <1>3

\* The server carries a change out: what it made untrue is neither kept nor on
\* its way.
LEMMA ServedKeepsStudy ==
  ASSUME StudyInv, S!ServeAction
  PROVE  StudyInv'
<1>1. /\ action.at = "sent"
      /\ DOMAIN action' = DOMAIN S!NoAction /\ action'.at # "sent"
      /\ UNCHANGED <<session, cache, loads, overlap>>
  BY DEF S!ServeAction, S!ServeCreate, S!ServeOversized, S!ServeDiscard, S!ServeGoal, S!ServeReview,
     S!Carried, StudyInv, S!NoAction
<1>2. ~ overlap => cache = S!NoCache /\ ~ S!Reading
  BY <1>1 DEF StudyInv, ChangeInv
<1>3. ASSUME NEW w \in Kept, NEW b \in S!Asker PROVE LoadOK(w, loads[w][b])'
  <2>1. LoadOK(w, loads[w][b])
    BY DEF StudyInv, LoadsInv
  <2>2. ~ overlap => loads[w][b].at # "served"
    BY <1>2, ReadingIs
  <2> QED BY <1>1, <2>1, <2>2 DEF LoadOK
<1>4. LoadsInv'
  BY <1>1, <1>3 DEF StudyInv, LoadsInv
<1>5. S!CacheIsCurrent'
  BY <1>1, <1>2 DEF S!CacheIsCurrent, S!NoCache
<1> QED BY <1>1, <1>4, <1>5 DEF StudyInv, ChangeInv

LEMMA ReturnKeepsStudy ==
  ASSUME StudyInv, S!ActionReturns
  PROVE  StudyInv'
<1>1. /\ UNCHANGED <<server, session, cache, overlap>>
      /\ DOMAIN action' = DOMAIN S!NoAction /\ action'.at # "sent"
  <2>1. UNCHANGED <<server, session, cache, overlap>>
    BY DEF S!ActionReturns
  <2>2. CASE S!CreateReturns
    BY <2>1, <2>2 DEF S!CreateReturns, S!NoAction
  <2>3. CASE S!ConflictReturns
    BY <2>1, <2>3 DEF S!ConflictReturns, StudyInv, S!NoAction
  <2>4. CASE S!OtherReturns
    BY <2>1, <2>4 DEF S!OtherReturns, S!NoAction
  <2> QED BY <2>2, <2>3, <2>4 DEF S!ActionReturns
<1>2. CASE S!CreateReturns
  <2>1. LoadsInv'
    BY <1>1, <1>2, AskedKeepsLoads DEF S!CreateReturns, S!Goes
  <2> QED BY <1>1, <2>1, ReloadKeepsStudy
<1>3. CASE S!ConflictReturns
  <2>1. LoadsInv'
    BY <1>1, <1>3, ButtonAsks DEF S!ConflictReturns, Kept
  <2> QED BY <1>1, <2>1, ReloadKeepsStudy
<1>4. CASE S!OtherReturns
  <2>1. loads' = loads
    BY <1>4 DEF S!OtherReturns
  <2>2. LoadsInv'
    BY <1>1, <2>1, LoadsKept DEF StudyInv, LoadsInv
  <2> QED BY <1>1, <2>2, ReloadKeepsStudy
<1> QED BY <1>2, <1>3, <1>4 DEF S!ActionReturns

LEMMA OtherDeviceKeepsStudy ==
  ASSUME StudyInv, S!OtherDevice
  PROVE  StudyInv'
<1>1. overlap' = TRUE /\ UNCHANGED <<session, cache, loads, action>>
  BY DEF S!OtherDevice
<1>2. LoadsInv'
  BY <1>1 DEF StudyInv, LoadsInv, LoadOK
<1> QED BY <1>1, <1>2 DEF StudyInv, ChangeInv, S!CacheIsCurrent

LEMMA StudyKept ==
  ASSUME Failed # S!NoLesson, StudyInv, [S!Next]_(S!vars)
  PROVE  StudyInv'
<1>1. CASE \E r \in {"home", "learn", "progress", "profile", "lesson"} : S!Open(r)
  BY <1>1, OpenKeepsStudy
<1>2. CASE \E w \in S!Resource, b \in S!Asker : S!Answers(w, b)
  BY <1>2, ReadsKeepStudy, DeliverKeepsStudy DEF S!Answers
<1>3. CASE \E w \in S!Resource : S!Retry(w)
  BY <1>3, RetryKeepsStudy
<1>4. CASE (\E c \in S!Choice : S!Choose(c)) \/ S!PreviewTimer
  BY <1>4, PreviewKeepsStudy
<1>5. CASE S!StartComposed \/ S!StartRecommended \/ S!Discard \/ S!SetGoal \/ S!Rate \/ S!DueRead
  BY <1>5, ChangeKeepsStudy DEF S!StartComposed, S!StartRecommended, S!Discard, S!SetGoal, S!Rate
<1>6. CASE S!StartDue \/ S!NothingDue \/ S!Reloaded \/ S!ActionFails
  BY <1>6, DueKeepsStudy
<1>7. CASE S!SessionRefreshed \/ S!CacheExpires \/ S!OtherDevice
  BY <1>7, RefreshKeepsStudy, ExpiryKeepsStudy, OtherDeviceKeepsStudy
<1>8. CASE S!ServeAction \/ S!ActionReturns
  BY <1>8, ServedKeepsStudy, ReturnKeepsStudy
<1>9. CASE UNCHANGED S!vars
  <2>1. UNCHANGED <<server, session, cache, loads, action, overlap>>
    BY <1>9 DEF S!vars
  <2> QED BY <2>1 DEF StudyInv, LoadsInv, LoadOK, Told, ChangeInv, S!Reading, S!CacheIsCurrent
<1> QED BY <1>1, <1>2, <1>3, <1>4, <1>5, <1>6, <1>7, <1>8, <1>9 DEF S!Next

\* No answer that lib/request-failure.ts keeps for the next page is older than a
\* change this device has made, however many pages, sessions and changes there
\* are, and whichever requests fail or come late.
THEOREM KeptAnswersAreCurrent ==
  ASSUME Failed # S!NoLesson
  PROVE  Spec => []CacheIsCurrent
<1> DEFINE I == Study => StudyInv
<1>1. Init => I
  BY StudyInit DEF Init, Study
<1>2. I /\ [Next]_vars => I'
  BY PartSteps, StudyKept DEF Study
<1>3. I => CacheIsCurrent
  BY DEF StudyInv, CacheIsCurrent
<1> QED BY <1>1, <1>2, <1>3, PTL DEF Spec

-----------------------------------------------------------------------------
(* The dictionary and the phrases                                          *)

\* The places of these pages.
route == s1
guest == s2
entries == s3
here == s4
shown == s5
snapshot == s6
view == s7
load == s8
late == s9
crossed == s10
practice == s11

USE DEF route, guest, entries, here, shown, snapshot, view, load, late, crossed, practice

Place == C!Place
Where == Place \cup {Elsewhere}
Entry == [url : Where, state : Where \cup {Nothing}]

\* A history whose entry i is place p; the state kept with an entry never leads
\* to another place than its URL.
History(es, i, p) ==
  /\ es \in Seq(Entry) /\ i \in 1 .. Len(es) /\ es[i].url = p
  /\ \A j \in 1 .. Len(es) : C!Target(es[j]) = es[j].url

LEMMA EntryOf ==
  ASSUME NEW es, NEW i, NEW u, History(es, i, u)
  PROVE  /\ u \in Where /\ i \in 1 .. Len(es) /\ DOMAIN es = 1 .. Len(es) /\ es[i].url = u
         /\ \A j \in 1 .. Len(es) : es[j] \in Entry /\ es[j].url \in Where /\ C!Target(es[j]) = es[j].url
<1>1. es \in Seq(Entry) /\ DOMAIN es = 1 .. Len(es)
  BY DEF History
<1>2. \A j \in 1 .. Len(es) : es[j] \in Entry
  BY <1>1
<1> QED BY <1>1, <1>2 DEF History, Entry

\* The state of an entry is its URL, or is not of this page.
LEMMA TargetIs ==
  ASSUME NEW e \in Entry, e.state = e.url \/ e.url = Elsewhere
  PROVE  C!Target(e) = e.url
  BY DEF C!Target, C!SamePath

LEMMA WrittenOK ==
  ASSUME NEW es, NEW i, NEW u, History(es, i, u), NEW k \in 1 .. Len(es),
         NEW p \in Where \cup {Nothing}, p = es[k].url \/ es[k].url = Elsewhere
  PROVE  History(C!Written(es, k, p), i, u)
<1>1. PICK e : e = [es[k] EXCEPT !.state = p]
  OBVIOUS
<1>2. es[k] \in Entry /\ Len(es) \in Nat /\ es \in [1 .. Len(es) -> Entry]
  BY DEF History
<1>3. e \in Entry /\ e.url = es[k].url /\ e.state = p
  BY <1>1, <1>2 DEF Entry
<1>4. C!Target(e) = e.url
  BY <1>3, TargetIs
<1>5. PICK fs : fs = [es EXCEPT ![k] = e]
  OBVIOUS
<1>6. /\ fs \in [1 .. Len(es) -> Entry]
      /\ \A j \in 1 .. Len(es) : fs[j] = IF j = k THEN e ELSE es[j]
  BY <1>2, <1>3, <1>5
<1>7. fs \in Seq(Entry) /\ Len(fs) = Len(es)
  BY <1>2, <1>6
<1>8. \A j \in 1 .. Len(fs) : C!Target(fs[j]) = fs[j].url
  BY <1>4, <1>6, <1>7 DEF History
<1>9. i \in 1 .. Len(fs) /\ fs[i].url = u
  BY <1>3, <1>6, <1>7 DEF History
<1> QED BY <1>1, <1>5, <1>7, <1>8, <1>9 DEF History, C!Written

LEMMA FlushedOK ==
  ASSUME NEW es, NEW i, NEW u, History(es, i, u), NEW p \in Where \cup {Nothing}, p = u \/ u = Elsewhere
  PROVE  History(C!Flushed(es, i, p), i, u)
<1>1. i \in 1 .. Len(es) /\ es[i].url = u
  BY DEF History
<1>2. History(C!Written(es, i, p), i, u)
  BY <1>1, WrittenOK
<1> QED BY <1>2 DEF C!Flushed

LEMMA ReplacedOK ==
  ASSUME NEW es, NEW i, NEW u, History(es, i, u), NEW p \in Where
  PROVE  History([es EXCEPT ![i] = [url |-> p, state |-> p]], i, p)
<1>1. PICK e : e = [url |-> p, state |-> p]
  OBVIOUS
<1>2. e \in Entry /\ e.url = p /\ C!Target(e) = p
  BY <1>1, TargetIs DEF Entry
<1>3. Len(es) \in Nat /\ es \in [1 .. Len(es) -> Entry] /\ i \in 1 .. Len(es)
  BY DEF History
<1>4. PICK fs : fs = [es EXCEPT ![i] = e]
  OBVIOUS
<1>5. /\ fs \in [1 .. Len(es) -> Entry]
      /\ \A j \in 1 .. Len(es) : fs[j] = IF j = i THEN e ELSE es[j]
  BY <1>2, <1>3, <1>4
<1>6. fs \in Seq(Entry) /\ Len(fs) = Len(es)
  BY <1>3, <1>5
<1> QED BY <1>1, <1>2, <1>3, <1>4, <1>5, <1>6 DEF History

\* A new entry stands where those ahead were.
LEMMA PushedOK ==
  ASSUME NEW es, NEW u, History(es, here, u), NEW p \in Where, NEW s \in Where, s = p \/ p = Elsewhere
  PROVE  History(C!Pushed(es, p, s), here + 1, p)
<1>1. PICK e : e = [url |-> p, state |-> s]
  OBVIOUS
<1>2. e \in Entry /\ e.url = p /\ C!Target(e) = p
  BY <1>1, TargetIs DEF Entry
<1>3. es \in Seq(Entry) /\ here \in 1 .. Len(es) /\ here \in Nat
  BY DEF History
<1>4. PICK b : b = SubSeq(es, 1, here)
  OBVIOUS
<1>5. b \in Seq(Entry) /\ Len(b) = here /\ \A j \in 1 .. here : b[j] = es[j]
  BY <1>3, <1>4
<1>6. PICK fs : fs = Append(b, e)
  OBVIOUS
<1>7. /\ fs \in Seq(Entry) /\ Len(fs) = here + 1
      /\ \A j \in 1 .. here + 1 : fs[j] = IF j = here + 1 THEN e ELSE es[j]
  BY <1>2, <1>3, <1>5, <1>6
<1>8. \A j \in 1 .. here + 1 : C!Target(fs[j]) = fs[j].url
  BY <1>2, <1>3, <1>7 DEF History
<1> QED BY <1>1, <1>2, <1>3, <1>4, <1>6, <1>7, <1>8 DEF History, C!Pushed

Thing == Word \cup C!Filter \cup {Nothing}

\* A resource that the page shows at place p: what is under way for it is of that
\* place, what is at rest too, and a retry is of another place only if it was
\* overtaken.
ScreenOK(w, p) ==
  /\ load[w] \in [at : {"idle", "due", "sent"}, of : Thing]
  /\ view[w] \in [is : {"idle", "loading", "ready", "error"}, of : Thing]
  /\ late[w] \in SUBSET Thing
  /\ crossed[w] \in BOOLEAN
  /\ load[w].at # "idle" => load[w].of = C!Wanted(w, p)
  /\ ~ crossed[w] => late[w] \subseteq {C!Wanted(w, p)}
  /\ C!Wanted(w, p) # Nothing /\ load[w].at = "idle" /\ view[w].is = "ready" /\ ~ crossed[w]
       => view[w].of = C!Wanted(w, p)

\* A page that is not there shows nothing and waits for nothing.
AwayOK(w) == load[w].at = "idle" /\ view[w].is # "ready" /\ late[w] = {}

ScreenInv ==
  /\ DOMAIN load = C!Resource /\ DOMAIN view = C!Resource
  /\ DOMAIN late = C!Resource /\ DOMAIN crossed = C!Resource
  /\ \A w \in C!Resource : ScreenOK(w, shown) /\ (shown = Elsewhere => AwayOK(w))

CatalogInv ==
  /\ History(entries, here, shown)
  /\ practice \in Place \cup {Nothing}
  /\ ScreenInv

\* What is wanted is a word or a filter.
LEMMA WantedIsAThing ==
  ASSUME NEW w \in C!Resource, NEW p \in Where
  PROVE  C!Wanted(w, p) \in Thing
  BY DEF C!Wanted, C!Effective, Thing, Where, Place, C!Place, C!Filter, C!Resource

LEMMA WantedStands ==
  ASSUME UNCHANGED <<route, guest>>, NEW w, NEW p
  PROVE  C!Wanted(w, p)' = C!Wanted(w, p)
  BY DEF C!Wanted, C!Effective

\* A page that shows a place shows what it had, or begins.
LEMMA FreshIs ==
  /\ DOMAIN C!Fresh = C!Resource
  /\ \A w \in C!Resource : /\ C!Fresh[w] \in [is : {"idle", "loading", "ready", "error"}, of : Thing]
                           /\ C!Fresh[w].is # "ready"
  BY DEF C!Fresh, Thing

LEMMA CatalogInit == ASSUME Elsewhere \notin Place, C!Init PROVE CatalogInv
<1>1. PICK f \in C!Filter :
        /\ shown = [filter |-> f, word |-> Nothing]
        /\ load = [w \in C!Resource |-> IF w = "list" THEN [at |-> "due", of |-> C!Effective(f)] ELSE C!Idle]
  BY DEF C!Init
<1>2. shown \in Place
  BY <1>1 DEF Place, C!Place
<1>3. History(entries, here, shown)
  <2>1. PICK e : e = [url |-> shown, state |-> shown]
    OBVIOUS
  <2>2. e \in Entry /\ e.url = shown /\ C!Target(e) = shown
    BY <1>2, <2>1, TargetIs DEF Entry, Where
  <2>3. entries = <<e>> /\ here = 1
    BY <2>1 DEF C!Init
  <2> QED BY <2>2, <2>3 DEF History
<1>4. ASSUME NEW w \in C!Resource PROVE ScreenOK(w, shown)
  <2>1. /\ view[w] = C!Fresh[w] /\ late[w] = {} /\ crossed[w] = FALSE
        /\ load[w] = IF w = "list" THEN [at |-> "due", of |-> C!Effective(f)] ELSE C!Idle
    BY <1>1 DEF C!Init
  <2>2. C!Effective(f) \in Thing /\ (w = "list" => C!Effective(f) = C!Wanted(w, shown))
    BY <1>1, <1>2 DEF C!Wanted, C!Effective, Thing, C!Filter
  <2>3. /\ load[w] \in [at : {"idle", "due", "sent"}, of : Thing]
        /\ load[w].at # "idle" => load[w].of = C!Wanted(w, shown)
    BY <2>1, <2>2 DEF C!Idle, Thing
  <2>4. view[w] \in [is : {"idle", "loading", "ready", "error"}, of : Thing] /\ view[w].is # "ready"
    BY <2>1, FreshIs
  <2> QED BY <2>1, <2>3, <2>4 DEF ScreenOK
<1>5. ScreenInv
  BY <1>1, <1>2, <1>4, FreshIs DEF ScreenInv, C!Init
<1> QED BY <1>3, <1>5 DEF CatalogInv, C!Init

-----------------------------------------------------------------------------

\* The page goes to another place of its own.
LEMMA MovesKeepScreen ==
  ASSUME Elsewhere \notin Place, ScreenInv, shown \in Place, NEW p \in Place,
         C!Moves(p), UNCHANGED <<route, guest>>
  PROVE  ScreenInv' /\ shown' = p
<1>1. shown' = p /\ p # Elsewhere /\ shown # Elsewhere
  BY DEF C!Moves
<1>2. ASSUME NEW w \in C!Resource PROVE ScreenOK(w, p)'
  <2>1. /\ load'[w] = IF C!Wanted(w, p) = Nothing THEN C!Idle
                      ELSE IF w = "card" /\ p.word = shown.word THEN load[w]
                      ELSE [at |-> "due", of |-> C!Wanted(w, p)]
        /\ crossed'[w] = (crossed[w] \/ late[w] # {})
        /\ late' = late
    BY DEF C!Moves
  <2>2. view'[w] = view[w] \/ (w = "card" /\ p.word # shown.word /\ view'[w] = C!Fresh[w])
    BY DEF C!Moves, ScreenInv
  <2>3. C!Wanted(w, p)' = C!Wanted(w, p) /\ C!Wanted(w, p) \in Thing
    BY WantedStands, WantedIsAThing DEF Where
  <2>4. ScreenOK(w, shown)
    BY DEF ScreenInv
  <2>5. w = "card" /\ p.word = shown.word => C!Wanted(w, p) = C!Wanted(w, shown)
    BY <1>1 DEF C!Wanted
  <2>6. ~ crossed'[w] => ~ crossed[w] /\ late[w] = {}
    BY <2>1
  <2>7. crossed'[w] \in BOOLEAN /\ late'[w] \in SUBSET Thing
    BY <2>1, <2>4 DEF ScreenOK
  <2>8. view'[w] \in [is : {"idle", "loading", "ready", "error"}, of : Thing]
    BY <2>2, <2>4, FreshIs DEF ScreenOK
  <2>9. CASE load'[w] = C!Idle /\ C!Wanted(w, p) = Nothing
    BY <2>1, <2>3, <2>6, <2>7, <2>8, <2>9 DEF ScreenOK, C!Idle, Thing
  <2>10. CASE load'[w] = load[w] /\ w = "card" /\ p.word = shown.word
    BY <2>1, <2>2, <2>3, <2>4, <2>5, <2>6, <2>7, <2>8, <2>10 DEF ScreenOK
  <2>11. CASE load'[w] = [at |-> "due", of |-> C!Wanted(w, p)]
    BY <2>1, <2>3, <2>6, <2>7, <2>8, <2>11 DEF ScreenOK
  <2> QED BY <2>1, <2>9, <2>10, <2>11
<1>3. /\ DOMAIN load' = C!Resource /\ DOMAIN view' = C!Resource
      /\ DOMAIN late' = C!Resource /\ DOMAIN crossed' = C!Resource
  BY DEF C!Moves, ScreenInv
<1> QED BY <1>1, <1>2, <1>3 DEF ScreenInv

LEMMA UnmountKeepsScreen ==
  ASSUME C!Unmounts, UNCHANGED <<route, guest>>
  PROVE  ScreenInv' /\ shown' = Elsewhere
<1>1. ASSUME NEW w \in C!Resource PROVE ScreenOK(w, Elsewhere)' /\ AwayOK(w)'
  <2>1. load'[w] = C!Idle /\ view'[w] = C!Fresh[w] /\ late'[w] = {} /\ crossed'[w] = FALSE
    BY DEF C!Unmounts
  <2>2. load'[w] \in [at : {"idle", "due", "sent"}, of : Thing] /\ load'[w].at = "idle"
    BY <2>1 DEF C!Idle, Thing
  <2>3. view'[w] \in [is : {"idle", "loading", "ready", "error"}, of : Thing] /\ view'[w].is # "ready"
    BY <2>1, FreshIs
  <2> QED BY <2>1, <2>2, <2>3 DEF ScreenOK, AwayOK
<1> QED BY <1>1, FreshIs DEF C!Unmounts, ScreenInv

LEMMA GoToKeepsCatalog ==
  ASSUME Elsewhere \notin Place, CatalogInv, NEW p \in Place, NEW replace \in BOOLEAN, C!GoTo(p, replace)
  PROVE  CatalogInv'
<1>1. shown # Elsewhere /\ shown \in Where
  BY EntryOf DEF C!GoTo, CatalogInv
<1>2. ScreenInv' /\ shown' = p /\ practice' = practice
  BY <1>1, MovesKeepScreen DEF C!GoTo, CatalogInv, Where
<1>3. PICK es : es = C!Written(entries, here, shown)
  OBVIOUS
<1>4. History(es, here, shown)
  <2>1. here \in 1 .. Len(entries) /\ entries[here].url = shown
    BY DEF CatalogInv, History
  <2> QED BY <1>1, <1>3, <2>1, WrittenOK DEF CatalogInv
<1>5. History(entries', here', p)
  <2>1. CASE replace
    BY <1>3, <1>4, <2>1, ReplacedOK DEF C!GoTo, Where
  <2>2. CASE ~ replace
    BY <1>3, <1>4, <2>2, PushedOK DEF C!GoTo, Where
  <2> QED BY <2>1, <2>2
<1> QED BY <1>2, <1>5 DEF CatalogInv, History, C!Target, C!SamePath

\* The learner moves within the pages.
LEMMA MovesKeepCatalog ==
  ASSUME Elsewhere \notin Place, CatalogInv,
         \/ \E f \in C!Filter : C!SetFilter(f)
         \/ \E n \in Word : C!OpenCard(n)
         \/ C!BackToResults \/ C!CleanStatus
  PROVE  CatalogInv'
<1>1. shown # Elsewhere => shown \in Place
  BY EntryOf DEF CatalogInv, Where
<1>2. ASSUME NEW f \in C!Filter, C!SetFilter(f) PROVE CatalogInv'
  <2>1. [shown EXCEPT !.filter = f] \in Place
    BY <1>1, <1>2 DEF C!SetFilter, Place, C!Place
  <2> QED BY <1>2, <2>1, GoToKeepsCatalog DEF C!SetFilter
<1>3. ASSUME NEW n \in Word, C!OpenCard(n) PROVE CatalogInv'
  <2>1. [filter |-> C!Effective(shown.filter), word |-> n] \in Place
    BY <1>1, <1>3 DEF C!OpenCard, Place, C!Place, C!Effective, C!Filter
  <2> QED BY <1>3, <2>1, GoToKeepsCatalog DEF C!OpenCard
<1>4. CASE C!BackToResults
  <2>1. [shown EXCEPT !.word = Nothing] \in Place
    BY <1>1, <1>4 DEF C!BackToResults, Place, C!Place
  <2> QED BY <1>4, <2>1, GoToKeepsCatalog DEF C!BackToResults
<1>5. CASE C!CleanStatus
  <2>1. [shown EXCEPT !.filter = C!Effective(shown.filter)] \in Place
    BY <1>1, <1>5 DEF C!CleanStatus, Place, C!Place, C!Effective, C!Filter
  <2> QED BY <1>5, <2>1, GoToKeepsCatalog DEF C!CleanStatus
<1> QED BY <1>2, <1>3, <1>4, <1>5

\* The browser goes back or forward: whatever state an entry has, its URL is
\* where the page goes.
LEMMA TraverseKeepsCatalog ==
  ASSUME Elsewhere \notin Place, CatalogInv, NEW i, C!Traverse(i)
  PROVE  CatalogInv'
<1>1. /\ here' = i /\ i \in 1 .. Len(entries)
      /\ UNCHANGED <<route, guest, practice>>
  BY EntryOf DEF C!Traverse, CatalogInv
<1>p. PICK p : p = entries[i].url
  OBVIOUS
<1>2. History(entries, i, p) /\ p \in Where /\ C!Target(entries[i]) = p
  <2>1. p \in Where /\ C!Target(entries[i]) = p
    BY <1>1, <1>p, EntryOf DEF CatalogInv
  <2> QED BY <1>1, <1>p, <2>1 DEF CatalogInv, History
<1>3. CASE p = Elsewhere
  <2>1. History(C!Flushed(entries, i, Elsewhere), i, p)
    BY <1>2, <1>3, FlushedOK DEF Where
  <2>2. ScreenInv' /\ shown' = Elsewhere
    BY <1>1, <1>3, <1>p, UnmountKeepsScreen DEF C!Traverse
  <2> QED BY <1>1, <1>3, <1>p, <2>1, <2>2 DEF CatalogInv, C!Traverse, History, C!Target, C!SamePath
<1>4. CASE p # Elsewhere /\ shown = Elsewhere
  <2>1. History(C!Written(entries, i, p), i, p)
    BY <1>1, <1>2, <1>p, WrittenOK
  <2>2. /\ shown' = p
        /\ load' = [w \in C!Resource |-> IF C!Wanted(w, p) = Nothing THEN C!Idle
                                         ELSE [at |-> "due", of |-> C!Wanted(w, p)]]
        /\ UNCHANGED <<view, late, crossed>>
        /\ entries' = C!Written(entries, i, p)
    BY <1>4, <1>p DEF C!Traverse
  <2>3. ASSUME NEW w \in C!Resource PROVE ScreenOK(w, p)'
    <3>1. ScreenOK(w, shown) /\ AwayOK(w)
      BY <1>4 DEF CatalogInv, ScreenInv
    <3>2. C!Wanted(w, p)' = C!Wanted(w, p) /\ C!Wanted(w, p) \in Thing
      BY <1>1, <1>2, WantedStands, WantedIsAThing
    <3>3. load'[w] \in [at : {"idle", "due", "sent"}, of : Thing]
          /\ (load'[w].at # "idle" => load'[w].of = C!Wanted(w, p))
      BY <2>2, <3>2 DEF C!Idle, Thing
    <3> QED BY <2>2, <3>1, <3>2, <3>3 DEF ScreenOK, AwayOK
  <2>4. ScreenInv'
    BY <1>4, <2>2, <2>3 DEF CatalogInv, ScreenInv
  <2> QED BY <1>1, <2>1, <2>2, <2>4 DEF CatalogInv, History, C!Target, C!SamePath
<1>5. CASE p # Elsewhere /\ shown # Elsewhere
  <2>1. entries' = C!Flushed(entries, i, p) /\ C!Moves(p)
    BY <1>2, <1>5, <1>p DEF C!Traverse
  <2>2. shown \in Place /\ p \in Place
    BY <1>2, <1>5, EntryOf DEF CatalogInv, Where
  <2>3. ScreenInv' /\ shown' = p
    BY <1>1, <2>1, <2>2, MovesKeepScreen DEF CatalogInv
  <2>4. History(C!Flushed(entries, i, p), i, p)
    BY <1>2, FlushedOK
  <2> QED BY <1>1, <2>1, <2>3, <2>4 DEF CatalogInv, History, C!Target, C!SamePath
<1> QED BY <1>3, <1>4, <1>5

\* The page is left, for another or for the lesson of a practice.
LEMMA LeaveKeepsCatalog ==
  ASSUME Elsewhere \notin Place, CatalogInv, C!Leave \/ C!PracticeReturns
  PROVE  CatalogInv'
<1>1. PICK from : /\ from = IF shown = Elsewhere THEN practice ELSE shown
                  /\ shown = Elsewhere => practice # Nothing
                  /\ entries' = C!Flushed(C!Pushed(C!Written(entries, here, from), Elsewhere, Elsewhere),
                                          here + 1, from)
                  /\ here' = here + 1 /\ practice' \in {practice, Nothing}
                  /\ C!Unmounts /\ UNCHANGED <<route, guest>>
  BY DEF C!Leave, C!PracticeReturns
<1>2. shown \in Where /\ here \in 1 .. Len(entries) /\ entries[here].url = shown
  BY EntryOf DEF CatalogInv
<1>3. from \in Where
  BY <1>1, <1>2 DEF CatalogInv, Where
<1>4. PICK es : es = C!Written(entries, here, from)
  OBVIOUS
<1>5. History(es, here, shown)
  BY <1>1, <1>2, <1>3, <1>4, WrittenOK DEF CatalogInv
<1>6. PICK fs : fs = C!Pushed(es, Elsewhere, Elsewhere)
  OBVIOUS
<1>7. History(fs, here + 1, Elsewhere)
  BY <1>5, <1>6, PushedOK DEF Where
<1>8. History(C!Flushed(fs, here + 1, from), here + 1, Elsewhere)
  BY <1>3, <1>7, FlushedOK
<1>9. ScreenInv' /\ shown' = Elsewhere
  BY <1>1, UnmountKeepsScreen
<1>10. practice' \in Place \cup {Nothing}
  BY <1>1 DEF CatalogInv
<1> QED BY <1>1, <1>4, <1>6, <1>8, <1>9, <1>10 DEF CatalogInv, History, C!Target, C!SamePath

\* A scroll is written to the entry of the place that is shown; a practice is
\* asked for from it.
LEMMA SnapshotsKeepCatalog ==
  ASSUME CatalogInv, C!Scroll \/ C!SnapshotTimer \/ C!StartPractice \/ C!PracticeFails
  PROVE  CatalogInv'
<1>1. UNCHANGED <<route, guest, here, shown, view, load, late, crossed>>
  BY DEF C!Scroll, C!SnapshotTimer, C!StartPractice, C!PracticeFails
<1>2. shown \in Where /\ here \in 1 .. Len(entries) /\ entries[here].url = shown
  BY EntryOf DEF CatalogInv
<1>3. entries' = entries \/ entries' = C!Written(entries, here, shown)
  BY DEF C!Scroll, C!SnapshotTimer, C!StartPractice, C!PracticeFails
<1>4. History(entries', here, shown)
  BY <1>2, <1>3, WrittenOK DEF CatalogInv
<1>5. practice' \in {practice, Nothing} \/ (practice' = shown /\ shown # Elsewhere)
  BY DEF C!Scroll, C!SnapshotTimer, C!StartPractice, C!PracticeFails
<1>6. practice' \in Place \cup {Nothing}
  BY <1>2, <1>5 DEF CatalogInv, Where
<1>7. ScreenInv'
  BY <1>1 DEF CatalogInv, ScreenInv, ScreenOK, AwayOK, C!Wanted, C!Effective
<1> QED BY <1>1, <1>4, <1>6, <1>7 DEF CatalogInv, History, C!Target, C!SamePath

\* What happens to a resource while the place stays.
LEMMA ResourceKept ==
  ASSUME CatalogInv, NEW w \in C!Resource, shown # Elsewhere,
         UNCHANGED <<route, guest, entries, here, shown, crossed, practice>>,
         DOMAIN load' = C!Resource, DOMAIN view' = C!Resource, DOMAIN late' = C!Resource,
         \A v \in C!Resource \ {w} : load'[v] = load[v] /\ view'[v] = view[v] /\ late'[v] = late[v],
         ScreenOK(w, shown) => ScreenOK(w, shown)'
  PROVE  CatalogInv'
<1>1. ASSUME NEW v \in C!Resource PROVE ScreenOK(v, shown)'
  <2>1. ScreenOK(v, shown)
    BY DEF CatalogInv, ScreenInv
  <2>2. CASE v = w
    BY <2>1, <2>2
  <2>3. CASE v # w
    BY <2>1, <2>3 DEF ScreenOK, C!Wanted, C!Effective
  <2> QED BY <2>2, <2>3
<1>2. ScreenInv'
  BY <1>1 DEF CatalogInv, ScreenInv
<1> QED BY <1>2 DEF CatalogInv, History, C!Target, C!SamePath

\* The effects and the buttons of what is shown.
LEMMA RequestsKeepCatalog ==
  ASSUME CatalogInv, NEW w \in C!Resource, C!Ask(w) \/ C!Answer(w) \/ C!Retry(w) \/ C!LateAnswer(w)
  PROVE  CatalogInv'
<1>1. UNCHANGED <<route, guest, entries, here, shown, crossed, practice>>
  BY DEF C!Ask, C!Answer, C!Retry, C!LateAnswer, C!shownVars
<1>2. ScreenOK(w, shown) /\ (shown = Elsewhere => AwayOK(w)) /\ C!Wanted(w, shown) \in Thing
  BY WantedIsAThing, EntryOf DEF CatalogInv, ScreenInv
<1>3. shown # Elsewhere
  BY <1>2 DEF AwayOK, C!Ask, C!Answer, C!Retry, C!LateAnswer, C!Wanted
<1>4. C!Wanted(w, shown)' = C!Wanted(w, shown)
  BY <1>1 DEF C!Wanted, C!Effective
<1>5. /\ DOMAIN load = C!Resource /\ DOMAIN view = C!Resource /\ DOMAIN late = C!Resource
      /\ Nothing \in Thing
  BY DEF CatalogInv, ScreenInv, Thing
<1>6. CASE C!Ask(w)
  <2>1. PICK l, v : l = load[w] /\ v = view[w]
    OBVIOUS
  <2>2. PICK o \in {Nothing, v.of} :
          /\ load' = [load EXCEPT ![w] = [l EXCEPT !.at = "sent"]]
          /\ view' = [view EXCEPT ![w] = [v EXCEPT !.is = "loading", !.of = o]]
          /\ late' = late /\ l.at = "due"
    BY <1>5, <1>6, <2>1 DEF C!Ask
  <2>3. ScreenOK(w, shown)'
    BY <1>1, <1>2, <1>4, <1>5, <2>1, <2>2 DEF ScreenOK
  <2> QED BY <1>1, <1>3, <1>5, <2>2, <2>3, ResourceKept
<1>7. CASE C!Answer(w)
  <2>1. PICK ok \in BOOLEAN :
          /\ load' = [load EXCEPT ![w] = C!Idle]
          /\ view' = C!Show(w, load[w].of, ok)
          /\ late' = late /\ load[w].at = "sent"
    BY <1>7 DEF C!Answer, C!shownVars
  <2>2. view' = [view EXCEPT ![w] = [is |-> IF ok THEN "ready" ELSE "error",
                                     of |-> IF ok THEN C!Wanted(w, shown) ELSE Nothing]]
    BY <1>2, <2>1 DEF ScreenOK, C!Show
  <2>3. ScreenOK(w, shown)'
    BY <1>1, <1>2, <1>4, <1>5, <2>1, <2>2 DEF ScreenOK, C!Idle
  <2> QED BY <1>1, <1>3, <1>5, <2>1, <2>2, <2>3, ResourceKept
<1>8. CASE C!Retry(w)
  <2>1. CASE load' = [load EXCEPT ![w] = [at |-> "due", of |-> C!Wanted(w, shown)]]
             /\ UNCHANGED <<view, late>>
    <3>1. ScreenOK(w, shown)'
      BY <1>1, <1>2, <1>4, <1>5, <2>1 DEF ScreenOK
    <3> QED BY <1>1, <1>3, <1>5, <2>1, <3>1, ResourceKept
  <2>2. CASE /\ late' = [late EXCEPT ![w] = late[w] \cup {C!Wanted(w, shown)}]
             /\ view' = [view EXCEPT ![w] = [is |-> "loading", of |-> Nothing]]
             /\ load' = load
    <3>1. ScreenOK(w, shown)'
      BY <1>1, <1>2, <1>4, <1>5, <2>2 DEF ScreenOK
    <3> QED BY <1>1, <1>3, <1>5, <2>2, <3>1, ResourceKept
  <2> QED BY <1>8, <2>1, <2>2 DEF C!Retry
<1>9. CASE C!LateAnswer(w)
  <2>1. PICK o \in late[w], ok \in BOOLEAN :
          /\ late' = [late EXCEPT ![w] = late[w] \ {o}]
          /\ view' = C!Show(w, o, ok)
          /\ load' = load
    BY <1>9 DEF C!LateAnswer, C!shownVars
  <2>2. view' = [view EXCEPT ![w] = [is |-> IF ok THEN "ready" ELSE "error",
                                     of |-> IF ok THEN o ELSE Nothing]]
    BY <2>1 DEF C!Show
  <2>3. o \in Thing /\ (~ crossed[w] => o = C!Wanted(w, shown))
    BY <1>2, <2>1 DEF ScreenOK
  <2>4. ScreenOK(w, shown)'
    BY <1>1, <1>2, <1>4, <1>5, <2>1, <2>2, <2>3 DEF ScreenOK
  <2> QED BY <1>1, <1>3, <1>5, <2>1, <2>2, <2>4, ResourceKept
<1> QED BY <1>6, <1>7, <1>8, <1>9

\* Everything that is shown is asked for again.
LEMMA SessionKeepsCatalog ==
  ASSUME CatalogInv, C!SessionRefreshed
  PROVE  CatalogInv'
<1>1. /\ UNCHANGED <<route, guest, entries, here, shown, crossed, practice, view, late>>
      /\ shown # Elsewhere
      /\ load' = [w \in C!Resource |-> IF C!Wanted(w, shown) = Nothing THEN C!Idle
                                       ELSE [at |-> "due", of |-> C!Wanted(w, shown)]]
  BY DEF C!SessionRefreshed, C!shownVars
<1>2. ASSUME NEW w \in C!Resource PROVE ScreenOK(w, shown)'
  <2>1. ScreenOK(w, shown) /\ C!Wanted(w, shown) \in Thing
    BY WantedIsAThing, EntryOf DEF CatalogInv, ScreenInv
  <2>2. C!Wanted(w, shown)' = C!Wanted(w, shown)
    BY <1>1 DEF C!Wanted, C!Effective
  <2>3. /\ load'[w] \in [at : {"idle", "due", "sent"}, of : Thing]
        /\ load'[w].at # "idle" => load'[w].of = C!Wanted(w, shown)
        /\ load'[w].at = "idle" => C!Wanted(w, shown) = Nothing
    BY <1>1, <2>1 DEF C!Idle, Thing
  <2> QED BY <1>1, <2>1, <2>2, <2>3 DEF ScreenOK
<1>3. ScreenInv'
  BY <1>1, <1>2 DEF CatalogInv, ScreenInv
<1> QED BY <1>1, <1>3 DEF CatalogInv, History, C!Target, C!SamePath

LEMMA CatalogKept ==
  ASSUME Elsewhere \notin Place, CatalogInv, [C!Next]_(C!vars)
  PROVE  CatalogInv'
<1>1. CASE C!Next
  BY <1>1, MovesKeepCatalog, TraverseKeepsCatalog, LeaveKeepsCatalog, SnapshotsKeepCatalog,
     RequestsKeepCatalog, SessionKeepsCatalog DEF C!Next
<1>2. CASE UNCHANGED C!vars
  BY <1>2 DEF C!vars, CatalogInv, History, C!Target, C!SamePath, ScreenInv, ScreenOK, AwayOK,
     C!Wanted, C!Effective
<1> QED BY <1>1, <1>2

\* The page shows the place of the URL and, at rest, the list or the card of that
\* place, for any words, any length of the history, and any order of traversals,
\* writes of the history, refreshes of the session and answers.
THEOREM ShownIsOfThePlace ==
  ASSUME Elsewhere \notin Place
  PROVE  Spec => []ResultsAreOfPlace
<1> DEFINE I == Catalog => CatalogInv
<1>1. Init => I
  BY CatalogInit DEF Init, Catalog
<1>2. I /\ [Next]_vars => I'
  BY PartSteps, CatalogKept DEF Catalog
<1>3. I => ResultsAreOfPlace
  <2>1. CatalogInv => C!ResultsAreOfPlace
    BY DEF CatalogInv, History, ScreenInv, ScreenOK, C!ResultsAreOfPlace
  <2> QED BY <2>1 DEF ResultsAreOfPlace
<1> QED BY <1>1, <1>2, <1>3, PTL DEF Spec

-----------------------------------------------------------------------------
(* The panels of the account                                               *)

\* The places of the panels that the families before do not share.
cookie == s2
document == s3
panels == s4
calls == s5
replaced == s6

USE DEF cookie, document, panels, calls, replaced

Here == A!Here

AccountState == [open : BOOLEAN, live : SUBSET A!Device, since : SUBSET Other, version : Nat, current : Nat]
Document == [is : {"live", "restoring", "guest"}, version : Nat, path : {"profile", "away"}, wants : BOOLEAN]
Panels == [busy : SUBSET A!Panel, notice : [A!Panel -> A!Form \cup {"none"}], error : SUBSET A!Panel,
           list : SUBSET A!Device, loading : BOOLEAN]
Call == [kind : A!Form \cup {"load", "none"}, version : Nat, token : Nat,
         at : {"none", "sent", "admitted", "answered"},
         answer : {"none", "ok", "unauthorized", "over", "refused", "failed"},
         mine : BOOLEAN, ends : BOOLEAN, list : SUBSET A!Device]

\* Whoever has a session besides this one has signed in since the others ended.
OthersOver == server.live \subseteq server.since \cup {Here}

\* An answer on its way stays true: a session that is over does not come back, an
\* account that is gone neither, and no session of before is alive again.
CallOK(c) ==
  /\ c \in Call
  /\ c.answer = "over" /\ ~ replaced => Here \notin server.live
  /\ c.kind = "delete" /\ c.answer = "ok" => ~ server.open
  /\ c.kind \in A!Change /\ c.answer = "ok" => OthersOver

ServerInv ==
  /\ server \in AccountState
  /\ server.open <=> server.live # {}

\* The browser has the token of its session as long as that is alive.
CookieInv ==
  /\ cookie \in Nat /\ replaced \in BOOLEAN
  /\ ~ replaced /\ Here \in server.live => cookie = server.current

DocumentInv ==
  /\ document \in Document
  /\ ~ replaced /\ document.is = "guest" => Here \notin server.live

PanelsInv ==
  /\ panels \in Panels
  /\ panels.notice["security"] # "none" => OthersOver

CallsInv ==
  /\ DOMAIN calls = Slot
  /\ \A s \in Slot : CallOK(calls[s])

AccountInv == ServerInv /\ CookieInv /\ DocumentInv /\ PanelsInv /\ CallsInv

\* What the server does to this session is for good.
ServerMoves ==
  /\ Here \notin server.live => Here \notin server'.live
  /\ ~ server.open => ~ server'.open
  /\ OthersOver => OthersOver'
  /\ replaced => replaced'

LEMMA NoCallIsOK == CallOK(A!NoCall)
  BY DEF CallOK, Call, A!NoCall, A!Form, A!Change

LEMMA MountedIs == A!Mounted \in Panels /\ A!Mounted.notice["security"] = "none"
  BY DEF A!Mounted, Panels, A!Panel

LEMMA AccountInit == ASSUME Here \notin Other, A!Init PROVE AccountInv
<1>1. ServerInv /\ CookieInv /\ DocumentInv
  BY DEF A!Init, ServerInv, CookieInv, DocumentInv, AccountState, Document, A!Device, Here
<1>2. PanelsInv
  BY MountedIs DEF A!Init, PanelsInv
<1>3. CallsInv
  BY NoCallIsOK DEF A!Init, CallsInv
<1> QED BY <1>1, <1>2, <1>3 DEF AccountInv

LEMMA CallStands ==
  ASSUME ServerMoves, NEW c, CallOK(c)
  PROVE  CallOK(c)'
  BY DEF ServerMoves, CallOK

LEMMA CallsStand ==
  ASSUME CallsInv, ServerMoves, DOMAIN calls' = Slot,
         \A s \in Slot : calls'[s] = calls[s] \/ CallOK(calls'[s]) \/ CallOK(calls[s])'
  PROVE  CallsInv'
<1>1. ASSUME NEW s \in Slot PROVE CallOK(calls[s])'
  <2>1. PICK c : c = calls'[s]
    OBVIOUS
  <2>2. CallOK(c) => CallOK(c)'
    BY CallStands
  <2>3. CASE CallOK(calls[s])'
    BY <2>3
  <2>4. CASE CallOK(calls'[s]) \/ calls'[s] = calls[s]
    <3>1. CallOK(c)
      BY <2>1, <2>4 DEF CallsInv
    <3> QED BY <2>1, <2>2, <3>1 DEF CallOK
  <2> QED BY <2>3, <2>4
<1> QED BY <1>1 DEF CallsInv

\* Panels that are gone leave their answers to nobody.
LEMMA OrphanedIsOK ==
  ASSUME CallsInv, NEW s \in Slot
  PROVE  CallOK(A!Orphaned(calls)[s])
<1>1. PICK c : c = calls[s]
  OBVIOUS
<1>2. CallOK([c EXCEPT !.mine = FALSE])
  BY <1>1 DEF CallsInv, CallOK, Call
<1> QED BY <1>1, <1>2 DEF A!Orphaned

LEMMA SentIsOK ==
  ASSUME cookie \in Nat, NEW kind \in A!Form \cup {"load"}, NEW v \in Nat
  PROVE  CallOK(A!Request(kind, v))
  BY DEF CallOK, Call, A!Request, A!NoCall, A!Form, A!Change

\* A step that leaves the server alone.
LEMMA ServerStands ==
  ASSUME server' = server, replaced => replaced'
  PROVE  ServerMoves /\ (ServerInv => ServerInv') /\ (OthersOver => OthersOver')
  BY DEF ServerMoves, ServerInv, OthersOver

-----------------------------------------------------------------------------

\* The session of the document is refreshed, or found to be over.
LEMMA RefreshedKeepsAccount ==
  ASSUME AccountInv, A!Refreshed, replaced' = replaced
  PROVE  AccountInv'
<1>1. server \in AccountState /\ cookie \in Nat /\ document \in Document
  BY DEF AccountInv, ServerInv, CookieInv, DocumentInv
<1>2. panels' \in {panels, A!Mounted}
  BY DEF A!Refreshed, A!PanelsOf, A!Closes
<1>3. CASE cookie = server.current /\ Here \in server.live
  <2>1. /\ server' = [server EXCEPT !.current = server.current + 1]
        /\ cookie' = server.current + 1
        /\ document' = A!Adopted(document, server.version)
        /\ calls' = calls
    BY <1>3 DEF A!Refreshed, Here
  <2>2. /\ server' \in AccountState /\ server'.live = server.live /\ server'.open = server.open
        /\ server'.since = server.since /\ server'.current = cookie' /\ cookie' \in Nat
    BY <1>1, <2>1 DEF AccountState
  <2>3. ServerMoves /\ ServerInv' /\ CookieInv' /\ (OthersOver => OthersOver')
    BY <2>2 DEF ServerMoves, OthersOver, AccountInv, ServerInv, CookieInv
  <2>4. document' \in Document /\ document'.is = "live"
    BY <1>1, <2>1 DEF A!Adopted, Document, AccountState
  <2>5. CallsInv'
    BY <2>1, <2>3, CallsStand DEF AccountInv, CallsInv
  <2>6. PanelsInv'
    BY <1>2, <2>3, MountedIs DEF AccountInv, PanelsInv
  <2> QED BY <2>3, <2>4, <2>5, <2>6 DEF AccountInv, DocumentInv
<1>4. CASE ~ (cookie = server.current /\ Here \in server.live)
  <2>1. /\ server' = server /\ cookie' = 0 /\ calls' = A!Orphaned(calls)
        /\ document' = [is |-> "guest", version |-> 0, path |-> "profile", wants |-> FALSE]
    BY <1>4 DEF A!Refreshed, A!Closes, Here
  <2>2. ServerMoves /\ ServerInv' /\ (OthersOver => OthersOver')
    BY <2>1, ServerStands DEF AccountInv
  <2>3. ~ replaced => Here \notin server.live
    BY <1>4 DEF AccountInv, CookieInv
  <2>4. CookieInv' /\ DocumentInv'
    BY <2>1, <2>3 DEF AccountInv, CookieInv, DocumentInv, Document
  <2>5. CallsInv'
    BY <2>1, <2>2, OrphanedIsOK, CallsStand DEF AccountInv, A!Orphaned
  <2>6. PanelsInv'
    BY <1>2, <2>2, MountedIs DEF AccountInv, PanelsInv
  <2> QED BY <2>2, <2>4, <2>5, <2>6 DEF AccountInv
<1> QED BY <1>3, <1>4

\* The document by itself.
LEMMA DocumentKeepsAccount ==
  ASSUME AccountInv, A!AccessExpires \/ A!Navigate
  PROVE  AccountInv'
<1>1. /\ UNCHANGED <<server, cookie, panels, calls, replaced>>
      /\ document' \in Document /\ document'.is = document.is
  <2>1. UNCHANGED <<server, cookie, panels, calls, replaced>> /\ document \in Document
    BY DEF A!AccessExpires, A!Navigate, AccountInv, DocumentInv
  <2>2. CASE A!AccessExpires
    BY <2>1, <2>2 DEF A!AccessExpires, Document
  <2>3. CASE A!Navigate
    <3>1. PICK b \in BOOLEAN, path \in {"profile", "away"} :
            document' = [document EXCEPT !.path = path, !.wants = b]
      <4>1. PICK b \in BOOLEAN : b = (document.path = "away")
        OBVIOUS
      <4> QED BY <2>3, <4>1 DEF A!Navigate
    <3> QED BY <2>1, <3>1 DEF Document
  <2> QED BY <2>1, <2>2, <2>3
<1> QED BY <1>1, ServerStands, CallsStand DEF AccountInv, ServerInv, CookieInv, DocumentInv, PanelsInv,
        CallsInv, OthersOver, CallOK

\* A step that changes one request, and of the panels at most what they show
\* besides the notice of the security panel.
LEMMA OneCallKept ==
  ASSUME AccountInv, UNCHANGED <<server, cookie>>, replaced => replaced', replaced' \in BOOLEAN,
         document' \in Document, document'.is = "guest" => document.is = "guest",
         panels' \in Panels,
         panels'.notice["security"] # "none" => panels.notice["security"] # "none" \/ OthersOver,
         NEW s \in Slot, NEW c, CallOK(c), calls' = [calls EXCEPT ![s] = c]
  PROVE  AccountInv'
<1>1. ServerMoves /\ ServerInv' /\ (OthersOver => OthersOver')
  BY ServerStands DEF AccountInv
<1>2. CookieInv' /\ DocumentInv' /\ PanelsInv'
  BY <1>1 DEF AccountInv, CookieInv, DocumentInv, PanelsInv
<1>3. CallsInv'
  <2>1. DOMAIN calls' = Slot /\ \A r \in Slot : calls'[r] = IF r = s THEN c ELSE calls[r]
    BY DEF AccountInv, CallsInv
  <2> QED BY <1>1, <2>1, CallsStand DEF AccountInv
<1> QED BY <1>1, <1>2, <1>3 DEF AccountInv

LEMMA SendsKeepAccount ==
  ASSUME AccountInv, NEW s \in Slot,
         A!LoadSecurityData(s) \/ (\E form \in A!Form : A!Submit(s, form))
  PROVE  AccountInv'
<1>1. /\ document \in Document /\ panels \in Panels /\ cookie \in Nat /\ replaced \in BOOLEAN
      /\ document.version \in Nat
  BY DEF AccountInv, DocumentInv, PanelsInv, CookieInv, Document
<1>2. CASE A!LoadSecurityData(s)
  <2>1. PICK c : c = A!Request("load", document.version)
    OBVIOUS
  <2>2. CallOK(c) /\ calls' = [calls EXCEPT ![s] = c] /\ UNCHANGED <<server, cookie, replaced>>
    BY <1>1, <1>2, <2>1, SentIsOK DEF A!LoadSecurityData, A!Sends
  <2>3. document' \in Document /\ document'.is = document.is
    BY <1>1, <1>2 DEF A!LoadSecurityData, Document
  <2>4. panels' \in Panels /\ panels'.notice = panels.notice
    BY <1>1, <1>2 DEF A!LoadSecurityData, Panels
  <2> QED BY <1>1, <2>2, <2>3, <2>4, OneCallKept
<1>3. ASSUME NEW form \in A!Form, A!Submit(s, form) PROVE AccountInv'
  <2>1. PICK c : c = A!Request(form, document.version)
    OBVIOUS
  <2>2. CallOK(c) /\ calls' = [calls EXCEPT ![s] = c] /\ UNCHANGED <<server, cookie, document, replaced>>
    BY <1>1, <1>3, <2>1, SentIsOK DEF A!Submit, A!Sends
  <2>3. PICK p \in A!Panel :
          panels' = [panels EXCEPT !.busy = panels.busy \cup {p}, !.notice[p] = "none",
                                   !.error = panels.error \ {p}]
    BY <1>3 DEF A!Submit, A!PanelOf, A!Panel
  <2>4. PICK n : n = [panels.notice EXCEPT ![p] = "none"]
    OBVIOUS
  <2>5. /\ n \in [A!Panel -> A!Form \cup {"none"}]
        /\ n["security"] # "none" => panels.notice["security"] # "none"
    BY <1>1, <2>4 DEF Panels, A!Panel
  <2>6. panels' \in Panels /\ panels'.notice = n
    BY <1>1, <2>3, <2>4, <2>5 DEF Panels
  <2> QED BY <1>1, <2>2, <2>5, <2>6, OneCallKept
<1> QED BY <1>2, <1>3

\* The server lets a request in or not; the network loses it or its answer.
LEMMA AdmitsKeepAccount ==
  ASSUME AccountInv, NEW s \in Slot, A!Admit(s) \/ A!Lose(s)
  PROVE  AccountInv'
<1>1. PICK k : k = calls[s]
  OBVIOUS
<1>2. CallOK(k)
  BY <1>1 DEF AccountInv, CallsInv
<1>3. PICK c : /\ calls' = [calls EXCEPT ![s] = c]
               /\ \/ c = [k EXCEPT !.at = "admitted"]
                  \/ \E a \in {"unauthorized", "failed"} : c = [k EXCEPT !.at = "answered", !.answer = a]
  <2>1. CASE calls' = [calls EXCEPT ![s].at = "admitted"]
    BY <1>1, <2>1
  <2>2. ASSUME NEW a \in {"unauthorized", "failed"}, A!Answers(s, a)
        PROVE  calls' = [calls EXCEPT ![s] = [k EXCEPT !.at = "answered", !.answer = a]]
    BY <1>1, <2>2 DEF A!Answers, AccountInv, CallsInv
  <2> QED BY <2>1, <2>2 DEF A!Admit, A!Lose
<1>4. CallOK(c)
  BY <1>2, <1>3 DEF CallOK, Call
<1>5. UNCHANGED <<server, cookie, document, panels, replaced>>
  BY DEF A!Admit, A!Lose
<1>6. replaced \in BOOLEAN /\ document \in Document /\ panels \in Panels
  BY DEF AccountInv, CookieInv, DocumentInv, PanelsInv
<1> QED BY <1>3, <1>4, <1>5, <1>6, OneCallKept

LEMMA ServedKeepsAccount ==
  ASSUME AccountInv, ServerMoves, ServerInv', OthersOver => OthersOver',
         server'.current = server.current \/ Here \notin server'.live, replaced' \in BOOLEAN,
         UNCHANGED <<cookie, document, panels>>,
         NEW s \in Slot, NEW c, CallOK(c)', calls' = [calls EXCEPT ![s] = c]
  PROVE  AccountInv'
<1>1. CookieInv' /\ DocumentInv' /\ PanelsInv'
  BY DEF AccountInv, ServerMoves, CookieInv, DocumentInv, PanelsInv
<1>2. ASSUME NEW r \in Slot PROVE CallOK(calls[r])'
  <2>1. DOMAIN calls' = Slot /\ calls'[r] = IF r = s THEN c ELSE calls[r]
    BY DEF AccountInv, CallsInv
  <2>2. PICK d : d = calls[r]
    OBVIOUS
  <2>3. CallOK(d)'
    BY <2>2, CallStands DEF AccountInv, CallsInv
  <2> QED BY <2>1, <2>2, <2>3 DEF CallOK
<1>3. CallsInv'
  BY <1>2 DEF AccountInv, CallsInv
<1> QED BY <1>1, <1>3 DEF AccountInv

\* What the server does when a request is served.
LEMMA ServeKeepsAccount ==
  ASSUME Here \notin Other, AccountInv, NEW s \in Slot, A!Serve(s)
  PROVE  AccountInv'
<1>1. PICK k : k = calls[s]
  OBVIOUS
<1>2. CallOK(k) /\ server \in AccountState /\ (server.open <=> server.live # {})
  BY <1>1 DEF AccountInv, CallsInv, ServerInv
<1>3. UNCHANGED <<cookie, document, panels>>
  BY DEF A!Serve
<1>4. PICK b \in BOOLEAN : b <=> (replaced \/ (k.kind \in A!Change \cup {"load"} /\ Here \in server.live
                                             /\ k.token # server.current))
  BY <1>1
<1>5. replaced' = b
  BY <1>1, <1>4 DEF A!Serve, Here, AccountInv, CookieInv
<1>6. A!EndsOthers # server
  <2>1. server.version + 1 # server.version
    BY <1>2 DEF AccountState
  <2>2. A!EndsOthers.version = server.version + 1
    BY <1>2 DEF A!EndsOthers, AccountState
  <2> QED BY <2>1, <2>2
<1>7. CASE server' = server
  <2>1. PICK c : /\ calls' = [calls EXCEPT ![s] = c]
                 /\ \/ c = [k EXCEPT !.at = "answered", !.answer = "over"]
                       /\ (~ b => Here \notin server.live)
                    \/ c = [k EXCEPT !.at = "answered", !.answer = "ok", !.list = server.live]
                       /\ k.kind = "load"
                    \/ c = [k EXCEPT !.at = "answered", !.answer = "ok"]
                       /\ k.kind \in {"email", "export"}
                    \/ c = [k EXCEPT !.at = "answered", !.answer = "refused"]
    <3>1. CASE /\ k.kind \in A!Change \cup {"load"} /\ server.open /\ ~ A!Current(k)
               /\ A!Answers(s, "over")
      <4>1. ~ b => Here \notin server.live
        BY <1>4, <3>1 DEF A!Current, Here
      <4> QED BY <1>1, <3>1, <4>1 DEF A!Answers
    <3>2. CASE /\ k.kind = "load"
               /\ calls' = [calls EXCEPT ![s].at = "answered", ![s].answer = "ok", ![s].list = server.live]
      BY <1>1, <3>2
    <3>3. CASE k.kind = "load" /\ ~ server.open /\ A!Answers(s, "over")
      BY <1>1, <1>2, <3>3 DEF A!Answers
    <3>4. CASE k.kind \in {"email", "export"} /\ A!Answers(s, "ok")
      BY <1>1, <3>4 DEF A!Answers
    <3>5. CASE A!Answers(s, "refused")
      BY <1>1, <3>5 DEF A!Answers
    <3>6. server.open => server' # [server EXCEPT !.open = FALSE, !.live = {}, !.since = {}]
      BY <1>2, <1>7 DEF AccountState
    <3> QED BY <1>1, <1>6, <1>7, <3>1, <3>2, <3>3, <3>4, <3>5, <3>6 DEF A!Serve
  <2>2. /\ c \in Call
        /\ c.answer = "over" => (~ b => Here \notin server.live)
        /\ c.answer = "ok" => c.kind \in {"load", "email", "export"}
    <3>1. k \in Call /\ server.live \in SUBSET A!Device
      BY <1>2 DEF CallOK, AccountState
    <3>2. CASE c = [k EXCEPT !.at = "answered", !.answer = "over"] /\ (~ b => Here \notin server.live)
      BY <3>1, <3>2 DEF Call
    <3>3. CASE c = [k EXCEPT !.at = "answered", !.answer = "ok", !.list = server.live] /\ k.kind = "load"
      BY <3>1, <3>3 DEF Call
    <3>4. CASE c = [k EXCEPT !.at = "answered", !.answer = "ok"] /\ k.kind \in {"email", "export"}
      BY <3>1, <3>4 DEF Call
    <3>5. CASE c = [k EXCEPT !.at = "answered", !.answer = "refused"]
      BY <3>1, <3>5 DEF Call
    <3> QED BY <2>1, <3>2, <3>3, <3>4, <3>5
  <2>3. CallOK(c)'
    BY <1>5, <1>7, <2>2 DEF CallOK, A!Change
  <2>4. ServerMoves /\ ServerInv' /\ (OthersOver => OthersOver')
    BY <1>4, <1>5, <1>7, ServerStands DEF AccountInv
  <2> QED BY <1>2, <1>3, <1>4, <1>5, <1>7, <2>1, <2>3, <2>4, ServedKeepsAccount
<1>8. CASE server' = A!EndsOthers /\ A!Current(k) /\ k.kind \in A!Change
  <2>1. /\ server' = [server EXCEPT !.live = {Here}, !.since = {}, !.version = server.version + 1]
        /\ Here \in server.live
    BY <1>8 DEF A!EndsOthers, A!Current, Here
  <2>2. /\ server' \in AccountState /\ server'.live = {Here} /\ server'.open = server.open
        /\ server'.current = server.current
    <3>1. server.version + 1 \in Nat /\ {Here} \in SUBSET A!Device
      BY <1>2 DEF AccountState, A!Device, Here
    <3>2. PICK v, d : v = server.version + 1 /\ d = {Here}
      OBVIOUS
    <3> QED BY <1>2, <2>1, <3>1, <3>2 DEF AccountState
  <2>3. OthersOver'
    BY <2>2 DEF OthersOver
  <2>4. ServerMoves /\ ServerInv'
    BY <1>2, <1>4, <1>5, <2>1, <2>2, <2>3 DEF ServerMoves, ServerInv
  <2>5. PICK c : /\ calls' = [calls EXCEPT ![s] = c]
                 /\ c = [k EXCEPT !.at = "answered", !.answer = "ok", !.version = server.version + 1]
    BY <1>1, <1>8, <1>6 DEF A!Serve, A!Change
  <2>6. CallOK(c)'
    <3>1. server.version + 1 \in Nat /\ k \in Call
      BY <1>2 DEF AccountState, CallOK
    <3>2. PICK v \in Nat : v = server.version + 1
      BY <3>1
    <3>3. c = [k EXCEPT !.at = "answered", !.answer = "ok", !.version = v]
      BY <2>5, <3>2
    <3>4. c \in Call /\ c.kind = k.kind /\ c.answer = "ok"
      BY <3>1, <3>2, <3>3 DEF Call
    <3> QED BY <1>8, <2>3, <3>4 DEF CallOK, A!Change
  <2> QED BY <1>2, <1>3, <1>4, <1>5, <2>2, <2>3, <2>4, <2>5, <2>6, ServedKeepsAccount
<1>9. CASE k.kind = "delete" /\ server.open /\ A!Answers(s, "ok")
           /\ server' = [server EXCEPT !.open = FALSE, !.live = {}, !.since = {}]
  <2>1. server' \in AccountState /\ server'.live = {} /\ server'.open = FALSE
    BY <1>2, <1>9 DEF AccountState
  <2>2. OthersOver'
    BY <2>1 DEF OthersOver
  <2>3. ServerMoves /\ ServerInv' /\ (OthersOver => OthersOver')
    BY <1>4, <1>5, <2>1, <2>2 DEF ServerMoves, ServerInv
  <2>4. PICK c : /\ calls' = [calls EXCEPT ![s] = c]
                 /\ c = [k EXCEPT !.at = "answered", !.answer = "ok"]
    BY <1>1, <1>9 DEF A!Answers
  <2>5. CallOK(c)'
    BY <1>2, <1>9, <2>1, <2>4 DEF CallOK, Call, A!Change
  <2> QED BY <1>4, <1>5, <1>3, <2>1, <2>3, <2>4, <2>5, ServedKeepsAccount
<1> QED BY <1>1, <1>7, <1>8, <1>9 DEF A!Serve

\* An answer that says that the session or the account is over ends the document's.
LEMMA ExpireKeepsAccount ==
  ASSUME AccountInv, NEW s \in Slot, A!Expire(s) \/ A!Deleted(s)
  PROVE  AccountInv'
<1>1. CallOK(calls[s]) /\ server \in AccountState /\ (server.open <=> server.live # {})
  BY DEF AccountInv, CallsInv, ServerInv
<1>2. /\ UNCHANGED <<server, replaced>> /\ panels' = A!Mounted
      /\ calls' = [A!Orphaned(calls) EXCEPT ![s] = A!NoCall]
  BY DEF A!Expire, A!Deleted, A!Closes
<1>3. /\ cookie' \in {0, cookie}
      /\ cookie' # cookie \/ document'.is = "guest" => (~ replaced => Here \notin server.live)
      /\ document' \in Document
  <2>1. CASE A!Expire(s)
    BY <1>1, <2>1 DEF A!Expire, A!Closes, CallOK, Document, AccountInv, DocumentInv
  <2>2. CASE A!Deleted(s)
    BY <1>1, <2>2 DEF A!Deleted, A!Closes, A!Answered, CallOK, Document
  <2> QED BY <2>1, <2>2
<1>4. ServerMoves /\ ServerInv'
  BY <1>2, ServerStands DEF AccountInv
<1>5. CookieInv' /\ DocumentInv' /\ PanelsInv'
  BY <1>2, <1>3, MountedIs DEF AccountInv, CookieInv, DocumentInv, PanelsInv
<1>6. CallsInv'
  <2>1. DOMAIN calls' = Slot
    BY <1>2 DEF A!Orphaned
  <2>2. ASSUME NEW r \in Slot PROVE CallOK(calls'[r])
    <3>1. calls'[r] = IF r = s THEN A!NoCall ELSE A!Orphaned(calls)[r]
      BY <1>2 DEF A!Orphaned
    <3> QED BY <3>1, NoCallIsOK, OrphanedIsOK DEF AccountInv
  <2> QED BY <1>4, <2>1, <2>2, CallsStand DEF AccountInv
<1> QED BY <1>4, <1>5, <1>6 DEF AccountInv

\* The other answers are shown where they were asked for.
LEMMA AnswersKeepAccount ==
  ASSUME AccountInv, NEW s \in Slot, A!Listed(s) \/ A!Done(s) \/ A!Fails(s)
  PROVE  AccountInv'
<1>1. PICK k : k = calls[s]
  OBVIOUS
<1>2. CallOK(k) /\ k \in Call /\ panels \in Panels /\ document \in Document /\ replaced \in BOOLEAN
  BY <1>1 DEF AccountInv, CallsInv, PanelsInv, DocumentInv, CookieInv, CallOK
<1>3. calls' = [calls EXCEPT ![s] = A!NoCall] /\ UNCHANGED <<server, cookie, document, replaced>>
  BY DEF A!Listed, A!Done, A!Fails, A!Ended
<1>4. panels' \in Panels /\ panels'.notice["security"] = panels.notice["security"]
  <2>1. CASE A!Listed(s)
    BY <1>1, <1>2, <2>1 DEF A!Listed, Panels, Call
  <2>2. CASE A!Done(s)
    <3>1. PICK p \in {"email", "data"} :
            panels' = panels \/ panels' = [panels EXCEPT !.busy = panels.busy \ {p}, !.notice[p] = k.kind]
      BY <1>1, <2>2 DEF A!Done, A!PanelOf, A!Change
    <3>2. PICK n : n = [panels.notice EXCEPT ![p] = k.kind]
      OBVIOUS
    <3>3. k.kind \in A!Form
      BY <1>1, <2>2 DEF A!Done, A!Form
    <3>4. n \in [A!Panel -> A!Form \cup {"none"}] /\ n["security"] = panels.notice["security"]
      BY <1>2, <3>2, <3>3 DEF Panels, A!Panel
    <3>5. PICK b \in SUBSET A!Panel : b = panels.busy \ {p}
      BY <1>2 DEF Panels
    <3>6. panels' = panels \/ panels' = [panels EXCEPT !.busy = b, !.notice = n]
      BY <1>2, <3>1, <3>2, <3>5 DEF Panels
    <3>7. CASE panels' = [panels EXCEPT !.busy = b, !.notice = n]
      <4>1. panels' \in Panels
        BY <1>2, <3>4, <3>7 DEF Panels
      <4>2. panels'.notice = n
        BY <1>2, <3>7 DEF Panels
      <4> QED BY <3>4, <4>1, <4>2
    <3> QED BY <1>2, <3>6, <3>7
  <2>3. CASE A!Fails(s)
    <3>1. PICK p \in A!Panel, l \in BOOLEAN, b \in SUBSET A!Panel :
            \/ panels' = panels
            \/ panels' = [panels EXCEPT !.error = panels.error \cup {p}, !.loading = l, !.busy = b]
      <4>1. PICK p \in A!Panel : p = IF k.kind = "load" THEN "security" ELSE A!PanelOf(k.kind)
        BY DEF A!PanelOf, A!Panel
      <4>2. PICK l \in BOOLEAN : l = IF k.kind = "load" THEN FALSE ELSE panels.loading
        BY <1>2 DEF Panels
      <4>3. PICK b \in SUBSET A!Panel :
              b = IF k.kind # "load" \/ k.ends THEN panels.busy \ {p} ELSE panels.busy
        BY <1>2 DEF Panels
      <4> QED BY <1>1, <2>3, <4>1, <4>2, <4>3 DEF A!Fails
    <3>2. PICK e \in SUBSET A!Panel : e = panels.error \cup {p}
      BY <1>2 DEF Panels
    <3>3. panels' = panels \/ panels' = [panels EXCEPT !.error = e, !.loading = l, !.busy = b]
      BY <3>1, <3>2
    <3> QED BY <1>2, <3>3 DEF Panels
  <2> QED BY <2>1, <2>2, <2>3
<1> QED BY <1>2, <1>3, <1>4, NoCallIsOK, OneCallKept

\* A change that was made gives the document a new session and is told.
LEMMA ChangedKeepsAccount ==
  ASSUME AccountInv, NEW s \in Slot, A!Changed(s)
  PROVE  AccountInv'
<1>1. PICK k : k = calls[s]
  OBVIOUS
<1>2. /\ CallOK(k) /\ k \in Call /\ panels \in Panels /\ document \in Document /\ replaced \in BOOLEAN
      /\ cookie \in Nat
  BY <1>1 DEF AccountInv, CallsInv, PanelsInv, DocumentInv, CookieInv, CallOK
<1>3. k.kind \in A!Change /\ OthersOver
  BY <1>1, <1>2 DEF A!Changed, A!Answered, CallOK
<1>4. document' \in Document /\ document'.is = "live"
  <2>1. document' = A!Adopted(document, k.version) /\ k.version \in Nat
    BY <1>1, <1>2 DEF A!Changed, Call
  <2>2. PICK w \in BOOLEAN : w = (document.path = "profile")
    OBVIOUS
  <2>3. document' = [document EXCEPT !.is = "live", !.version = k.version, !.wants = w]
    BY <2>1, <2>2 DEF A!Adopted
  <2> QED BY <1>2, <2>1, <2>3 DEF Document
<1>5. panels' \in Panels
  <2>1. PICK n : n = [panels.notice EXCEPT !["security"] = k.kind]
    OBVIOUS
  <2>2. n \in [A!Panel -> A!Form \cup {"none"}]
    BY <1>2, <1>3, <2>1 DEF Panels, A!Panel, A!Form
  <2>3. CASE panels' = [panels EXCEPT !.notice["security"] = k.kind, !.loading = TRUE,
                                      !.error = panels.error \ {"security"}]
    BY <1>2, <2>1, <2>2, <2>3 DEF Panels
  <2>4. CASE panels' \in {panels, A!Mounted}
    BY <1>2, <2>4, MountedIs
  <2> QED BY <1>1, <2>3, <2>4 DEF A!Changed, A!PanelsOf
<1>6. PICK c : c = [A!Request("load", k.version) EXCEPT !.mine = k.mine, !.ends = TRUE]
  OBVIOUS
<1>7. CallOK(c)
  <2>1. PICK d : d = A!Request("load", k.version)
    OBVIOUS
  <2>2. CallOK(d) /\ d.answer = "none" /\ k.mine \in BOOLEAN
    BY <1>2, <2>1, SentIsOK DEF Call, A!Request, A!NoCall
  <2> QED BY <1>6, <2>1, <2>2 DEF CallOK, Call
<1>8. calls' = [calls EXCEPT ![s] = c] /\ UNCHANGED <<server, cookie, replaced>>
  BY <1>1, <1>6 DEF A!Changed
<1> QED BY <1>2, <1>3, <1>4, <1>5, <1>7, <1>8, OneCallKept

\* What other tabs and devices do.
LEMMA ElsewhereKeepsAccount ==
  ASSUME Here \notin Other, AccountInv,
         A!RefreshElsewhere \/ (\E d \in Other : A!SignIn(d) \/ A!CutOff(d))
  PROVE  AccountInv'
<1>1. /\ server \in AccountState /\ cookie \in Nat /\ (server.open <=> server.live # {})
      /\ UNCHANGED <<document, panels, calls, replaced>>
  BY DEF AccountInv, ServerInv, CookieInv, A!RefreshElsewhere, A!SignIn, A!CutOff
<1>2. ServerMoves /\ ServerInv' /\ CookieInv' /\ (OthersOver => OthersOver')
  <2>1. CASE A!RefreshElsewhere
    <3>1. /\ server' \in AccountState /\ server'.live = server.live /\ server'.open = server.open
          /\ server'.since = server.since /\ server'.current = cookie' /\ cookie' \in Nat
      BY <1>1, <2>1 DEF A!RefreshElsewhere, AccountState
    <3> QED BY <1>1, <3>1 DEF ServerMoves, OthersOver, AccountInv, ServerInv, CookieInv
  <2>2. ASSUME NEW d \in Other, A!SignIn(d)
        PROVE  ServerMoves /\ ServerInv' /\ CookieInv' /\ (OthersOver => OthersOver')
    <3>1. /\ server' \in AccountState /\ server'.live = server.live \cup {d} /\ server'.open = server.open
          /\ server'.since = server.since \cup {d} /\ server'.current = server.current
          /\ server.open /\ cookie' = cookie /\ d # Here
      BY <1>1, <2>2 DEF A!SignIn, AccountState, A!Device
    <3> QED BY <1>1, <3>1 DEF ServerMoves, OthersOver, AccountInv, ServerInv, CookieInv
  <2>3. ASSUME NEW d \in Other, A!CutOff(d)
        PROVE  ServerMoves /\ ServerInv' /\ CookieInv' /\ (OthersOver => OthersOver')
    <3>1. PICK v \in Nat : v = server.version + 1
      BY <1>1 DEF AccountState
    <3>2. /\ server' \in AccountState /\ server'.live = {d} /\ server'.open = server.open
          /\ server'.since = server.since \cap {d} /\ server'.current = server.current
          /\ d \in server.live /\ cookie' = cookie /\ d # Here
      BY <1>1, <2>3, <3>1 DEF A!CutOff, AccountState, A!Device
    <3> QED BY <1>1, <3>2 DEF ServerMoves, OthersOver, AccountInv, ServerInv, CookieInv
  <2> QED BY <2>1, <2>2, <2>3
<1>3. DocumentInv' /\ PanelsInv'
  BY <1>1, <1>2 DEF AccountInv, DocumentInv, PanelsInv, ServerMoves
<1>4. CallsInv'
  BY <1>1, <1>2, CallsStand DEF AccountInv, CallsInv
<1> QED BY <1>2, <1>3, <1>4 DEF AccountInv

LEMMA AccountKept ==
  ASSUME Here \notin Other, AccountInv, [A!Next]_(A!vars)
  PROVE  AccountInv'
<1>1. CASE A!Restored \/ A!PageRefreshes
  BY <1>1, RefreshedKeepsAccount DEF A!Restored, A!PageRefreshes
<1>2. CASE A!AccessExpires \/ A!Navigate
  BY <1>2, DocumentKeepsAccount
<1>3. ASSUME NEW s \in Slot,
             \/ A!LoadSecurityData(s)
             \/ \E form \in A!Form : A!Submit(s, form)
      PROVE  AccountInv'
  BY <1>3, SendsKeepAccount
<1>4. ASSUME NEW s \in Slot, A!Admit(s) \/ A!Lose(s) \/ A!Serve(s) PROVE AccountInv'
  BY <1>4, AdmitsKeepAccount, ServeKeepsAccount
<1>5. ASSUME NEW s \in Slot,
             A!Expire(s) \/ A!Deleted(s) \/ A!Listed(s) \/ A!Done(s) \/ A!Fails(s) \/ A!Changed(s)
      PROVE  AccountInv'
  BY <1>5, ExpireKeepsAccount, AnswersKeepAccount, ChangedKeepsAccount
<1>6. CASE A!RefreshElsewhere \/ (\E d \in Other : A!SignIn(d) \/ A!CutOff(d))
  BY <1>6, ElsewhereKeepsAccount
<1>7. CASE UNCHANGED A!vars
  <2>1. UNCHANGED <<server, cookie, document, panels, calls, replaced>>
    BY <1>7 DEF A!vars
  <2>2. ServerMoves /\ ServerInv' /\ (OthersOver => OthersOver')
    BY <2>1, ServerStands DEF AccountInv
  <2>3. CallsInv'
    BY <2>1, <2>2, CallsStand DEF AccountInv, CallsInv
  <2> QED BY <2>1, <2>2, <2>3 DEF AccountInv, CookieInv, DocumentInv, PanelsInv
<1> QED BY <1>1, <1>2, <1>3, <1>4, <1>5, <1>6, <1>7 DEF A!Next, A!Handler

\* Whatever answers are lost, late or overtaken, and however many requests and
\* devices there are, a change made on this page ends the sessions of the others
\* and not its own; Here is no other device.
THEOREM OwnSessionOutlivesChanges ==
  ASSUME Here \notin Other
  PROVE  Spec => []ChangesKeepThisSession
<1> DEFINE I == Account => AccountInv
<1>1. Init => I
  BY AccountInit DEF Init, Account
<1>2. I /\ [Next]_vars => I'
  BY PartSteps, AccountKept DEF Account
<1>3. I => ChangesKeepThisSession
  <2>1. ASSUME AccountInv, document.is = "guest", ~ replaced
        PROVE  Here \notin server.live /\ (server.open => \E d \in Other : d \in server.live)
    BY <2>1 DEF AccountInv, ServerInv, DocumentInv, AccountState, A!Device, Here
  <2>2. AccountInv => A!ChangesKeepThisSession
    BY <2>1 DEF A!ChangesKeepThisSession, AccountInv, PanelsInv, OthersOver, Here
  <2> QED BY <2>2 DEF ChangesKeepThisSession
<1> QED BY <1>1, <1>2, <1>3, PTL DEF Spec

-----------------------------------------------------------------------------
(* Sums                                                                    *)

\* The least of a set of numbers.
LEMMA LeastOne ==
  ASSUME NEW Base \in SUBSET Nat, Base # {}
  PROVE  \E m \in Base : \A n \in Base : m <= n
<1>1. IsWellFoundedOn(OpToRel(<, Nat), Nat)
  BY NatLessThanWellFounded
<1>2. PICK m \in Base : \A n \in Base : ~ (<<n, m>> \in OpToRel(<, Nat))
  BY <1>1, WFMin
<1>3. \A n \in Base : m <= n
  <2> SUFFICES ASSUME NEW n \in Base, n < m
               PROVE  FALSE
    BY SMT
  <2>1. <<n, m>> \in {ss \in Nat \X Nat : ss[1] < ss[2]}
    BY SMT
  <2> QED BY <1>2, <2>1 DEF OpToRel
<1> QED BY <1>3

\* Piece function is there that begins with base and goes on with step.
LEMMA Iteration ==
  ASSUME NEW T, NEW base \in T, NEW n \in Nat, NEW step \in [1 .. n -> [T -> T]]
  PROVE  \E F \in [0 .. n -> T] : F[0] = base /\ \A k \in 1 .. n : F[k] = step[k][F[k - 1]]
<1> DEFINE Goes(F, k) == F[0] = base /\ \A j \in 1 .. k : F[j] = step[j][F[j - 1]]
           lacking == {k \in 0 .. n : ~ \E F \in [0 .. k -> T] : Goes(F, k)}
<1>1. ASSUME lacking # {} PROVE FALSE
  <2>1. lacking \in SUBSET Nat
    OBVIOUS
  <2>2. PICK k \in lacking : \A j \in lacking : k <= j
    <3> HIDE DEF lacking
    <3> QED BY <1>1, <2>1, LeastOne
  <2>3. k \in 0 .. n /\ ~ \E F \in [0 .. k -> T] : Goes(F, k)
    BY <2>2
  <2>4. CASE k = 0
    <3>1. PICK F : F = [i \in 0 .. 0 |-> base]
      OBVIOUS
    <3>2. F \in [0 .. k -> T] /\ Goes(F, k)
      BY <2>4, <3>1
    <3> QED BY <2>3, <3>2
  <2>5. CASE k # 0
    <3>1. k - 1 \in 0 .. n /\ k - 1 \notin lacking
      BY <2>2, <2>3, <2>5
    <3>2. PICK F \in [0 .. k - 1 -> T] : Goes(F, k - 1)
      BY <3>1
    <3>3. step[k][F[k - 1]] \in T
      <4>1. k \in 1 .. n /\ F[k - 1] \in T
        BY <2>3, <2>5, <3>2
      <4> QED BY <4>1
    <3>4. PICK G : G = [i \in 0 .. k |-> IF i = k THEN step[k][F[k - 1]] ELSE F[i]]
      OBVIOUS
    <3>5. G \in [0 .. k -> T]
      BY <2>3, <3>3, <3>4
    <3>6. ASSUME NEW j \in 1 .. k PROVE G[j] = step[j][G[j - 1]]
      <4>1. j - 1 \in 0 .. k /\ j - 1 # k /\ G[j - 1] = F[j - 1]
        BY <2>3, <3>4
      <4>2. CASE j = k
        BY <3>4, <4>1, <4>2
      <4>3. CASE j # k
        BY <2>3, <3>2, <3>4, <4>1, <4>3
      <4> QED BY <4>2, <4>3
    <3>7. G[0] = base
      BY <2>3, <2>5, <3>2, <3>4
    <3> QED BY <2>3, <3>5, <3>6, <3>7
  <2> QED BY <2>4, <2>5
<1>2. n \in 0 .. n /\ n \notin lacking
  BY <1>1
<1> QED BY <1>2

\* What holds of a set when it holds of all with one element less holds of every
\* finite set.
LEMMA SetInduction ==
  ASSUME NEW Base, IsFiniteSet(Base), NEW Q,
         \A Piece \in SUBSET Base : (\A x \in Piece : Piece \ {x} \in Q) => Piece \in Q
  PROVE  Base \in Q
<1> DEFINE wrong == {Piece \in SUBSET Base : Piece \notin Q}
           sizes == {Cardinality(Piece) : Piece \in wrong}
<1>1. \A Piece \in SUBSET Base : IsFiniteSet(Piece) /\ Cardinality(Piece) \in Nat
  BY FS_Subset, FS_CardinalityType
<1>2. ASSUME wrong # {} PROVE FALSE
  <2>1. sizes \in SUBSET Nat /\ sizes # {}
    BY <1>1, <1>2
  <2>2. PICK m \in sizes : \A n \in sizes : m <= n
    <3> HIDE DEF sizes
    <3> QED BY <2>1, LeastOne
  <2>3. PICK Piece \in wrong : Cardinality(Piece) = m
    BY <2>2
  <2>4. ASSUME NEW x \in Piece PROVE Piece \ {x} \in Q
    <3>1. Cardinality(Piece \ {x}) = Cardinality(Piece) - 1
      BY <1>1, <2>3, FS_RemoveElement
    <3>2. Piece \ {x} \in SUBSET Base /\ Cardinality(Piece) \in Nat
      BY <1>1, <2>3
    <3>3. ~ (Cardinality(Piece) <= Cardinality(Piece) - 1)
      BY <3>2
    <3>4. Cardinality(Piece \ {x}) \notin sizes
      BY <2>2, <2>3, <3>1, <3>3
    <3> QED BY <3>2, <3>4
  <2> QED BY <2>3, <2>4
<1> QED BY <1>2

\* The sums of the subsets of Base.
Tallies(s, f, Base) ==
  /\ s \in [SUBSET Base -> Nat] /\ s[{}] = 0
  /\ \A Piece \in SUBSET Base : \A x \in Piece : s[Piece] = f[x] + s[Piece \ {x}]

\* Piece sum can be taken in any order.
LEMMA SumTally ==
  ASSUME NEW Base, IsFiniteSet(Base), NEW f \in [Base -> Nat]
  PROVE  \E s : Tallies(s, f, Base) /\ SumOf(f) = s[Base]
<1> DEFINE One(Piece) == CHOOSE x \in Piece : TRUE
           Rec(F) == [Piece \in SUBSET Base |-> IF Piece = {} THEN 0
                                         ELSE LET x == CHOOSE x \in Piece : TRUE IN f[x] + F[Piece \ {x}]]
<1>1. PICK T : T = [SUBSET Base -> Nat]
  OBVIOUS
<1>2. PICK n \in Nat : n = Cardinality(Base) + 1
  BY FS_CardinalityType
<1>3. \A Piece \in SUBSET Base : Piece # {} => One(Piece) \in Piece /\ f[One(Piece)] \in Nat /\ Piece \ {One(Piece)} \in SUBSET Base
  OBVIOUS
<1>4. \A Piece \in SUBSET Base : Cardinality(Piece) \in Nat /\ Cardinality(Piece) < n /\ IsFiniteSet(Piece)
  BY <1>2, FS_Subset, FS_CardinalityType
<1>5. PICK step : step = [k \in 1 .. n |-> [F \in T |-> Rec(F)]]
  OBVIOUS
<1>6. \A F \in T : Rec(F) \in T
  BY <1>1, <1>3
<1>7. PICK none : none = [Piece \in SUBSET Base |-> 0]
  OBVIOUS
<1>8. none \in T
  BY <1>1, <1>7
<1>9. PICK F \in [0 .. n -> T] : F[0] = none /\ \A k \in 1 .. n : F[k] = step[k][F[k - 1]]
  <2>1. step \in [1 .. n -> [T -> T]]
    <3> HIDE DEF Rec
    <3> QED BY <1>5, <1>6
  <2> HIDE DEF Rec
  <2>2. n \in Nat
    BY <1>2
  <2>3. \E G \in [0 .. n -> T] : G[0] = none /\ \A k \in 1 .. n : G[k] = step[k][G[k - 1]]
    BY <1>8, <2>1, <2>2, Iteration, Z3
  <2> QED BY <2>3
<1>10. ASSUME NEW k \in 1 .. n PROVE F[k] = Rec(F[k - 1]) /\ F[k] \in T /\ F[k - 1] \in T
  <2> HIDE DEF Rec
  <2>1. F[k - 1] \in T
    BY <1>9
  <2> QED BY <1>5, <1>9, <2>1
<1>11. \A k \in 1 .. n : \A Piece \in SUBSET Base :
         F[k][Piece] = IF Piece = {} THEN 0 ELSE f[One(Piece)] + F[k - 1][Piece \ {One(Piece)}]
  <2> SUFFICES ASSUME NEW k \in 1 .. n, NEW Piece \in SUBSET Base
               PROVE  F[k][Piece] = IF Piece = {} THEN 0 ELSE f[One(Piece)] + F[k - 1][Piece \ {One(Piece)}]
    OBVIOUS
  <2>1. F[k] = Rec(F[k - 1])
    BY <1>10
  <2>2. PICK G : G = F[k - 1]
    OBVIOUS
  <2>3. Rec(G)[Piece] = IF Piece = {} THEN 0 ELSE f[One(Piece)] + G[Piece \ {One(Piece)}]
    OBVIOUS
  <2> HIDE DEF Rec, One
  <2> QED BY <2>1, <2>2, <2>3
<1> DEFINE settled == {Piece \in SUBSET Base : \A k \in 1 .. n : Cardinality(Piece) < k => F[k][Piece] = F[k - 1][Piece]}
<1>12. ASSUME NEW Piece \in SUBSET Base, \A x \in Piece : Piece \ {x} \in settled PROVE Piece \in settled
  <2>1. SUFFICES ASSUME NEW k \in 1 .. n, Cardinality(Piece) < k PROVE F[k][Piece] = F[k - 1][Piece]
    OBVIOUS
  <2>2. CASE Piece = {}
    <3>1. F[k][Piece] = 0
      BY <1>11, <2>2
    <3>2. k - 1 \in 1 .. n \/ k = 1
      BY <1>2
    <3>3. CASE k = 1
      BY <1>7, <1>9, <3>1, <3>3
    <3>4. CASE k - 1 \in 1 .. n
      BY <1>11, <2>2, <3>1, <3>4
    <3> QED BY <3>2, <3>3, <3>4
  <2>3. CASE Piece # {}
    <3>1. PICK x \in Piece : x = One(Piece)
      BY <2>3
    <3>2. Cardinality(Piece \ {x}) = Cardinality(Piece) - 1 /\ Cardinality(Piece) \in Nat /\ Cardinality(Piece) # 0
      BY <1>4, <3>1, FS_RemoveElement, FS_EmptySet
    <3>3. k - 1 \in 1 .. n /\ Cardinality(Piece \ {x}) < k - 1
      BY <1>2, <1>4, <2>1, <3>2
    <3>4. F[k - 1][Piece \ {x}] = F[k - 2][Piece \ {x}]
      <4>1. Piece \ {x} \in settled
        BY <1>12, <3>1
      <4>2. F[k - 1][Piece \ {x}] = F[(k - 1) - 1][Piece \ {x}]
        BY <3>3, <4>1
      <4>3. (k - 1) - 1 = k - 2
        BY <3>3
      <4> QED BY <4>2, <4>3
    <3>5. F[k][Piece] = f[x] + F[k - 1][Piece \ {x}]
      <4> HIDE DEF One
      <4> QED BY <1>11, <2>3, <3>1
    <3>6. F[k - 1][Piece] = f[x] + F[k - 2][Piece \ {x}]
      <4>1. (k - 1) - 1 = k - 2
        BY <3>3
      <4> HIDE DEF One
      <4> QED BY <1>11, <2>3, <3>1, <3>3, <4>1
    <3> QED BY <3>4, <3>5, <3>6
  <2> QED BY <2>2, <2>3
<1>13. \A Piece \in SUBSET Base : Piece \in settled
  <2> SUFFICES ASSUME NEW Piece \in SUBSET Base PROVE Piece \in settled
    OBVIOUS
  <2>1. \A B \in SUBSET Piece : (\A x \in B : B \ {x} \in settled) => B \in settled
    <3> HIDE DEF settled
    <3> QED BY <1>12
  <2>2. IsFiniteSet(Piece)
    BY <1>4
  <2> HIDE DEF settled
  <2> QED BY <2>1, <2>2, SetInduction
<1>14. PICK s0 \in T : s0 = F[n]
  BY <1>2, <1>9
<1>15. s0 = Rec(s0)
  <2>1. n \in 1 .. n
    BY <1>2, FS_CardinalityType
  <2>2. ASSUME NEW Piece \in SUBSET Base PROVE F[n][Piece] = F[n - 1][Piece]
    <3>1. Piece \in settled /\ Cardinality(Piece) < n
      BY <1>4, <1>13
    <3> QED BY <2>1, <3>1
  <2>3. PICK sums \in T : sums = F[n - 1]
    BY <1>10, <2>1
  <2>4. s0 = sums
    BY <1>1, <1>14, <2>2, <2>3
  <2>5. s0 = Rec(sums)
    <3> HIDE DEF Rec
    <3> QED BY <1>10, <1>14, <2>1, <2>3
  <2> HIDE DEF Rec
  <2> QED BY <2>4, <2>5
<1>16. PICK s : s = CHOOSE F1 : F1 = Rec(F1)
  OBVIOUS
<1>17. s = Rec(s)
  <2> HIDE DEF Rec
  <2> QED BY <1>15, <1>16
<1>18. SumOf(f) = s[Base]
  <2>1. DOMAIN f = Base
    OBVIOUS
  <2> QED BY <1>16, <2>1 DEF SumOf
<1>19. \A Piece \in SUBSET Base : s[Piece] = IF Piece = {} THEN 0 ELSE f[One(Piece)] + s[Piece \ {One(Piece)}]
  <2>1. \A G : \A Piece \in SUBSET Base : Rec(G)[Piece] = IF Piece = {} THEN 0 ELSE f[One(Piece)] + G[Piece \ {One(Piece)}]
    OBVIOUS
  <2> HIDE DEF Rec, One
  <2> QED BY <1>17, <2>1
<1>20. DOMAIN s = SUBSET Base /\ s = [Piece \in SUBSET Base |-> s[Piece]]
  <2>1. \A G : DOMAIN Rec(G) = SUBSET Base /\ Rec(G) = [Piece \in SUBSET Base |-> Rec(G)[Piece]]
    OBVIOUS
  <2> HIDE DEF Rec
  <2> QED BY <1>17, <2>1
<1> HIDE DEF Rec
<1> DEFINE natural == {Piece \in SUBSET Base : s[Piece] \in Nat}
           ordered == {Piece \in SUBSET Base : \A x \in Piece : s[Piece] = f[x] + s[Piece \ {x}]}
<1>21. ASSUME NEW Piece \in SUBSET Base, \A x \in Piece : Piece \ {x} \in natural PROVE Piece \in natural
  <2>1. CASE Piece = {}
    <3> HIDE DEF One
    <3>1. s[Piece] = 0
      BY <1>19, <2>1
    <3> QED BY <3>1
  <2>2. CASE Piece # {}
    <3>1. PICK x \in Piece : x = One(Piece)
      BY <2>2
    <3>2. s[Piece \ {x}] \in Nat /\ f[x] \in Nat
      BY <1>21, <3>1
    <3>3. s[Piece] = f[x] + s[Piece \ {x}]
      <4> HIDE DEF One
      <4> QED BY <1>19, <2>2, <3>1
    <3> QED BY <3>2, <3>3
  <2> QED BY <2>1, <2>2
<1>22. ASSUME NEW Piece \in SUBSET Base, \A x \in Piece : Piece \ {x} \in ordered PROVE Piece \in ordered
  <2>1. SUFFICES ASSUME NEW x \in Piece PROVE s[Piece] = f[x] + s[Piece \ {x}]
    OBVIOUS
  <2>2. PICK y \in Piece : y = One(Piece)
    BY <2>1
  <2>3. s[Piece] = f[y] + s[Piece \ {y}]
    <3> HIDE DEF One
    <3> QED BY <1>19, <2>2
  <2>4. CASE x = y
    BY <2>3, <2>4
  <2>5. CASE x # y
    <3>1. s[Piece \ {y}] = f[x] + s[(Piece \ {y}) \ {x}]
      BY <1>22, <2>2, <2>5
    <3>2. s[Piece \ {x}] = f[y] + s[(Piece \ {x}) \ {y}]
      BY <1>22, <2>2, <2>5
    <3>3. (Piece \ {x}) \ {y} = (Piece \ {y}) \ {x}
      OBVIOUS
    <3>4. PICK B \in SUBSET Base : B = (Piece \ {y}) \ {x}
      OBVIOUS
    <3>5. s[B] \in Nat
      <4>1. \A Cut \in SUBSET B : (\A z \in Cut : Cut \ {z} \in natural) => Cut \in natural
        <5> HIDE DEF natural
        <5> QED BY <1>21, <3>4
      <4>2. IsFiniteSet(B)
        BY <1>4
      <4>3. B \in natural
        <5> HIDE DEF natural
        <5> QED BY <4>1, <4>2, SetInduction
      <4> QED BY <4>3
    <3>6. f[x] \in Nat /\ f[y] \in Nat
      OBVIOUS
    <3>7. s[Piece] = f[y] + (f[x] + s[B]) /\ s[Piece \ {x}] = f[y] + s[B]
      BY <2>3, <3>1, <3>2, <3>3, <3>4
    <3> QED BY <3>5, <3>6, <3>7
  <2> QED BY <2>4, <2>5
<1>23. ASSUME NEW Piece \in SUBSET Base PROVE Piece \in natural /\ Piece \in ordered
  <2>1. /\ \A Cut \in SUBSET Piece : (\A z \in Cut : Cut \ {z} \in natural) => Cut \in natural
        /\ \A Cut \in SUBSET Piece : (\A z \in Cut : Cut \ {z} \in ordered) => Cut \in ordered
    <3> HIDE DEF natural, ordered
    <3> QED BY <1>21, <1>22
  <2>2. IsFiniteSet(Piece)
    BY <1>4
  <2> HIDE DEF natural, ordered
  <2> QED BY <2>1, <2>2, SetInduction
<1>24. s \in [SUBSET Base -> Nat]
  BY <1>20, <1>23
<1>25. s[{}] = 0
  BY <1>19
<1> QED BY <1>18, <1>23, <1>24, <1>25 DEF Tallies

\* Piece sum is no larger than one that has a place for each of its elements.
LEMMA SumsCompare ==
  ASSUME NEW Base, NEW T, IsFiniteSet(Base), IsFiniteSet(T), NEW f \in [Base -> Nat], NEW g \in [T -> Nat], NEW h,
         \A x \in Base : f[x] > 0 => h[x] \in T /\ f[x] <= g[h[x]],
         \A x, y \in Base : f[x] > 0 /\ f[y] > 0 /\ h[x] = h[y] => x = y
  PROVE  SumOf(f) \in Nat /\ SumOf(g) \in Nat /\ SumOf(f) <= SumOf(g)
<1>1. PICK s : Tallies(s, f, Base) /\ SumOf(f) = s[Base]
  BY SumTally
<1>2. PICK t : Tallies(t, g, T) /\ SumOf(g) = t[T]
  BY SumTally
<1> DEFINE Fits(Piece, B) == \A x \in Piece : f[x] > 0 => h[x] \in B
           less == {Piece \in SUBSET Base : \A B \in SUBSET T : Fits(Piece, B) => s[Piece] <= t[B]}
<1>3. ASSUME NEW Piece \in SUBSET Base, \A x \in Piece : Piece \ {x} \in less PROVE Piece \in less
  <2>1. SUFFICES ASSUME NEW B \in SUBSET T, Fits(Piece, B) PROVE s[Piece] <= t[B]
    OBVIOUS
  <2>2. s[Piece] \in Nat /\ t[B] \in Nat
    BY <1>1, <1>2 DEF Tallies
  <2>3. CASE Piece = {}
    BY <1>1, <2>2, <2>3 DEF Tallies
  <2>4. CASE Piece # {}
    <3>1. PICK x \in Piece : TRUE
      BY <2>4
    <3>2. s[Piece] = f[x] + s[Piece \ {x}] /\ s[Piece \ {x}] \in Nat /\ f[x] \in Nat
      BY <1>1 DEF Tallies
    <3>3. \A Cut \in SUBSET T : Fits(Piece \ {x}, Cut) => s[Piece \ {x}] <= t[Cut]
      BY <1>3
    <3>4. CASE f[x] = 0
      <4>1. Fits(Piece \ {x}, B)
        BY <2>1
      <4>2. s[Piece \ {x}] <= t[B]
        BY <3>3, <4>1
      <4> QED BY <3>2, <3>4, <4>2
    <3>5. CASE f[x] # 0
      <4>1. f[x] > 0 /\ h[x] \in B /\ f[x] <= g[h[x]] /\ g[h[x]] \in Nat
        BY <2>1, <3>2, <3>5
      <4>2. Fits(Piece \ {x}, B \ {h[x]})
        BY <2>1, <4>1
      <4>3. s[Piece \ {x}] <= t[B \ {h[x]}]
        <5>1. B \ {h[x]} \in SUBSET T
          OBVIOUS
        <5> QED BY <3>3, <4>2, <5>1
      <4>4. t[B] = g[h[x]] + t[B \ {h[x]}] /\ t[B \ {h[x]}] \in Nat
        BY <1>2, <4>1 DEF Tallies
      <4> QED BY <3>2, <4>1, <4>3, <4>4
    <3> QED BY <3>4, <3>5
  <2> QED BY <2>3, <2>4
<1>4. Base \in less
  <2>1. \A Piece \in SUBSET Base : (\A x \in Piece : Piece \ {x} \in less) => Piece \in less
    <3> HIDE DEF less
    <3> QED BY <1>3
  <2> HIDE DEF less
  <2> QED BY <2>1, SetInduction
<1>5. Fits(Base, T)
  OBVIOUS
<1> QED BY <1>1, <1>2, <1>4, <1>5 DEF Tallies

\* It is smaller if one of them is.
LEMMA SumExceeds ==
  ASSUME NEW Base, IsFiniteSet(Base), NEW f \in [Base -> Nat], NEW g \in [Base -> Nat],
         \A x \in Base : f[x] <= g[x], NEW z \in Base, f[z] < g[z]
  PROVE  SumOf(f) < SumOf(g)
<1>1. PICK s : Tallies(s, f, Base) /\ SumOf(f) = s[Base]
  BY SumTally
<1>2. PICK t : Tallies(t, g, Base) /\ SumOf(g) = t[Base]
  BY SumTally
<1> DEFINE less == {Piece \in SUBSET Base : s[Piece] <= t[Piece]}
<1>3. ASSUME NEW Piece \in SUBSET Base, \A x \in Piece : Piece \ {x} \in less PROVE Piece \in less
  <2>1. CASE Piece = {}
    BY <1>1, <1>2, <2>1 DEF Tallies
  <2>2. CASE Piece # {}
    <3>1. PICK x \in Piece : TRUE
      BY <2>2
    <3>2. s[Piece \ {x}] <= t[Piece \ {x}]
      BY <1>3
    <3>3. /\ s[Piece] = f[x] + s[Piece \ {x}] /\ s[Piece \ {x}] \in Nat
          /\ t[Piece] = g[x] + t[Piece \ {x}] /\ t[Piece \ {x}] \in Nat
      BY <1>1, <1>2 DEF Tallies
    <3> QED BY <3>2, <3>3
  <2> QED BY <2>1, <2>2
<1>4. Base \ {z} \in less
  <2>1. \A Piece \in SUBSET (Base \ {z}) : (\A x \in Piece : Piece \ {x} \in less) => Piece \in less
    <3> HIDE DEF less
    <3> QED BY <1>3
  <2>2. IsFiniteSet(Base \ {z})
    BY FS_Subset
  <2> HIDE DEF less
  <2> QED BY <2>1, <2>2, SetInduction
<1>5. /\ s[Base] = f[z] + s[Base \ {z}] /\ s[Base \ {z}] \in Nat
      /\ t[Base] = g[z] + t[Base \ {z}] /\ t[Base \ {z}] \in Nat
  BY <1>1, <1>2 DEF Tallies
<1> QED BY <1>1, <1>2, <1>4, <1>5

\* The sum of as many ones.
LEMMA SumOfOnes ==
  ASSUME NEW Base, IsFiniteSet(Base)
  PROVE  SumOf([x \in Base |-> 1]) = Cardinality(Base)
<1>1. PICK f \in [Base -> Nat] : f = [x \in Base |-> 1]
  OBVIOUS
<1>2. PICK s : Tallies(s, f, Base) /\ SumOf(f) = s[Base]
  BY SumTally
<1> DEFINE counted1 == {Piece \in SUBSET Base : s[Piece] = Cardinality(Piece)}
<1>3. ASSUME NEW Piece \in SUBSET Base, \A x \in Piece : Piece \ {x} \in counted1 PROVE Piece \in counted1
  <2>1. CASE Piece = {}
    BY <1>2, <2>1, FS_EmptySet DEF Tallies
  <2>2. CASE Piece # {}
    <3>1. PICK x \in Piece : TRUE
      BY <2>2
    <3>2. s[Piece \ {x}] = Cardinality(Piece \ {x})
      BY <1>3
    <3>3. s[Piece] = 1 + s[Piece \ {x}]
      BY <1>1, <1>2 DEF Tallies
    <3>4. Cardinality(Piece \ {x}) = Cardinality(Piece) - 1 /\ Cardinality(Piece) \in Nat
      BY FS_Subset, FS_RemoveElement, FS_CardinalityType
    <3> QED BY <3>2, <3>3, <3>4
  <2> QED BY <2>1, <2>2
<1>4. Base \in counted1
  <2>1. \A Piece \in SUBSET Base : (\A x \in Piece : Piece \ {x} \in counted1) => Piece \in counted1
    <3> HIDE DEF counted1
    <3> QED BY <1>3
  <2> HIDE DEF counted1
  <2> QED BY <2>1, SetInduction
<1> QED BY <1>1, <1>2, <1>4

\* The sum of a part, and of two parts.
LEMMA SumOfPart ==
  ASSUME NEW Base, IsFiniteSet(Base), NEW f \in [Base -> Nat], NEW s, Tallies(s, f, Base), NEW P \in SUBSET Base
  PROVE  SumOf([x \in P |-> f[x]]) = s[P]
<1>1. PICK g \in [P -> Nat] : g = [x \in P |-> f[x]]
  OBVIOUS
<1>2. IsFiniteSet(P)
  BY FS_Subset
<1>3. PICK t : Tallies(t, g, P) /\ SumOf(g) = t[P]
  BY <1>2, SumTally
<1> DEFINE same == {Piece \in SUBSET P : s[Piece] = t[Piece]}
<1>4. ASSUME NEW Piece \in SUBSET P, \A x \in Piece : Piece \ {x} \in same PROVE Piece \in same
  <2>1. CASE Piece = {}
    BY <1>3, <2>1 DEF Tallies
  <2>2. CASE Piece # {}
    <3>1. PICK x \in Piece : TRUE
      BY <2>2
    <3>2. s[Piece \ {x}] = t[Piece \ {x}]
      BY <1>4
    <3>3. s[Piece] = f[x] + s[Piece \ {x}] /\ t[Piece] = g[x] + t[Piece \ {x}] /\ f[x] = g[x]
      BY <1>1, <1>3 DEF Tallies
    <3> QED BY <3>2, <3>3
  <2> QED BY <2>1, <2>2
<1>5. P \in same
  <2>1. \A Piece \in SUBSET P : (\A x \in Piece : Piece \ {x} \in same) => Piece \in same
    <3> HIDE DEF same
    <3> QED BY <1>4
  <2> HIDE DEF same
  <2> QED BY <1>2, <2>1, SetInduction
<1> QED BY <1>1, <1>3, <1>5

LEMMA SumOfBoth ==
  ASSUME NEW Base, IsFiniteSet(Base), NEW f \in [Base -> Nat], NEW s, Tallies(s, f, Base),
         NEW P \in SUBSET Base, NEW R \in SUBSET Base, P \cap R = {}
  PROVE  s[P \cup R] = s[P] + s[R]
<1> DEFINE adds == {Piece \in SUBSET R : s[P \cup Piece] = s[P] + s[Piece]}
<1>1. ASSUME NEW Piece \in SUBSET R, \A x \in Piece : Piece \ {x} \in adds PROVE Piece \in adds
  <2>1. CASE Piece = {}
    <3>1. P \cup Piece = P /\ s[Piece] = 0 /\ s[P] \in Nat
      BY <2>1 DEF Tallies
    <3>2. s[P \cup Piece] = s[P]
      BY <3>1
    <3>3. s[P] + s[Piece] = s[P]
      BY <3>1
    <3> QED BY <3>2, <3>3
  <2>2. CASE Piece # {}
    <3>1. PICK x \in Piece : TRUE
      BY <2>2
    <3>2. s[P \cup (Piece \ {x})] = s[P] + s[Piece \ {x}]
      BY <1>1
    <3>3. (P \cup Piece) \ {x} = P \cup (Piece \ {x})
      OBVIOUS
    <3>4. s[P \cup Piece] = f[x] + s[(P \cup Piece) \ {x}] /\ s[Piece] = f[x] + s[Piece \ {x}]
      BY DEF Tallies
    <3>5. s[P] \in Nat /\ s[Piece \ {x}] \in Nat /\ f[x] \in Nat
      BY DEF Tallies
    <3>6. s[P \cup Piece] = f[x] + (s[P] + s[Piece \ {x}])
      BY <3>2, <3>3, <3>4
    <3>7. s[P] + s[Piece] = s[P] + (f[x] + s[Piece \ {x}])
      BY <3>4
    <3>8. s[P \cup Piece] = s[P] + s[Piece]
      BY <3>5, <3>6, <3>7
    <3> QED BY <3>8
  <2> QED BY <2>1, <2>2
<1>2. R \in adds
  <2>1. \A Piece \in SUBSET R : (\A x \in Piece : Piece \ {x} \in adds) => Piece \in adds
    <3> HIDE DEF adds
    <3> QED BY <1>1
  <2>2. IsFiniteSet(R)
    BY FS_Subset
  <2> HIDE DEF adds
  <2> QED BY <2>1, <2>2, SetInduction
<1> QED BY <1>2

\* Piece table is added up row by row.
LEMMA SumsByRow ==
  ASSUME NEW D, NEW K, NEW I, IsFiniteSet(D), IsFiniteSet(K), IsFiniteSet(I),
         NEW f \in [D \X K -> Nat], NEW g \in [I -> Nat], NEW h \in [D -> I],
         \A d, e \in D : h[d] = h[e] => d = e,
         \A d \in D : SumOf([p \in {d} \X K |-> f[p]]) <= g[h[d]]
  PROVE  SumOf(f) <= SumOf(g)
<1>1. IsFiniteSet(D \X K)
  BY FS_Product
<1>2. PICK s : Tallies(s, f, D \X K) /\ SumOf(f) = s[D \X K]
  BY <1>1, SumTally
<1>3. PICK t : Tallies(t, g, I) /\ SumOf(g) = t[I]
  BY SumTally
<1> DEFINE below == {E \in SUBSET D : \A J \in SUBSET I : (\A d \in E : h[d] \in J) => s[E \X K] <= t[J]}
<1>4. ASSUME NEW E \in SUBSET D, \A d \in E : E \ {d} \in below PROVE E \in below
  <2>1. SUFFICES ASSUME NEW J \in SUBSET I, \A d \in E : h[d] \in J PROVE s[E \X K] <= t[J]
    OBVIOUS
  <2>2. t[J] \in Nat
    BY <1>3 DEF Tallies
  <2>3. CASE E = {}
    <3>1. E \X K = {}
      BY <2>3
    <3>2. s[E \X K] = 0
      BY <1>2, <3>1 DEF Tallies
    <3> QED BY <2>2, <3>2
  <2>4. CASE E # {}
    <3>1. PICK d \in E : TRUE
      BY <2>4
    <3>2. PICK P \in SUBSET (D \X K), R \in SUBSET (D \X K) : P = (E \ {d}) \X K /\ R = {d} \X K
      OBVIOUS
    <3>3. E \X K = P \cup R /\ P \cap R = {}
      BY <3>1, <3>2
    <3>4. s[E \X K] = s[P] + s[R]
      <4>1. s[P \cup R] = s[P] + s[R]
        BY <1>1, <1>2, <3>3, SumOfBoth
      <4> QED BY <3>3, <4>1
    <3>5. s[R] <= g[h[d]]
      <4>1. SumOf([p \in R |-> f[p]]) = s[R]
        BY <1>1, <1>2, SumOfPart
      <4> QED BY <3>1, <3>2, <4>1
    <3>6. s[P] <= t[J \ {h[d]}]
      <4>1. J \ {h[d]} \in SUBSET I /\ \A e \in E \ {d} : h[e] \in J \ {h[d]}
        BY <2>1, <3>1
      <4>2. E \ {d} \in below
        BY <1>4, <3>1
      <4> QED BY <3>2, <4>1, <4>2
    <3>7. t[J] = g[h[d]] + t[J \ {h[d]}] /\ t[J \ {h[d]}] \in Nat /\ g[h[d]] \in Nat
      BY <1>3, <2>1, <3>1 DEF Tallies
    <3>8. s[P] \in Nat /\ s[R] \in Nat
      BY <1>2 DEF Tallies
    <3> QED BY <3>4, <3>5, <3>6, <3>7, <3>8
  <2> QED BY <2>3, <2>4
<1>5. D \in below
  <2>1. \A E \in SUBSET D : (\A d \in E : E \ {d} \in below) => E \in below
    <3> HIDE DEF below
    <3> QED BY <1>4
  <2> HIDE DEF below
  <2> QED BY <2>1, SetInduction
<1>6. s[D \X K] <= t[I]
  BY <1>5
<1> QED BY <1>2, <1>3, <1>6

-----------------------------------------------------------------------------
(* The report                                                              *)

\* The places of the report.
day == s1
reviews == s2
scenarios == s3
step == s4
report == s5
held == s6
told == s7

USE DEF day, reviews, scenarios, step, report, held, told

\* What can be reviewed and completed is finite, weeks and streaks have days, and the
\* absence of a day is no day.
Dated ==
  /\ IsFiniteSet(ReviewKind) /\ IsFiniteSet(Scene)
  /\ DaysOfWeek \in Nat \ {0} /\ StreakLimit \in Nat \ {0} /\ MaxDay \in Nat
  /\ Nothing \notin Nat

\* The steps after each query.
AfterRecommendation == {"answered"}
AfterCompleted == AfterRecommendation \cup {"recommendation"}
AfterParts == AfterCompleted \cup {"completed"}
AfterListening == AfterParts \cup {"parts"}
AfterDays == AfterListening \cup {"listening"}
AfterTopics == AfterDays \cup {"days"}
AfterTrend == AfterTopics \cup {"topics"}
AfterWeekly == AfterTrend \cup {"trend"}
AfterRetained == AfterWeekly \cup {"weekly"}
AfterToday == AfterRetained \cup {"retained"}
AfterProcesses == AfterToday \cup {"today"}
AfterLoad == AfterProcesses \cup {"processes"}

Recall == Progress!In({"recall"})
Recalled == Progress!Correct(Recall)

\* The reviews of the kinds on the days, in the table r.
Table == [Progress!Days -> [ReviewKind -> Nat]]
CountOf(r, days, kinds) == SumOf([e \in days \X kinds |-> r[e[1]][e[2]]])

\* No review is of a day to come.
TablesInv ==
  /\ day \in Progress!Days
  /\ reviews \in Table
  /\ \A d \in Progress!Days : d > day => \A k \in ReviewKind : reviews[d][k] = 0
  /\ scenarios \in [Scene -> [done : [Progress!Days -> Nat], open : BOOLEAN]]

\* Attempts, those that were right and their share.
Evident(e) ==
  /\ e.attempts \in Nat /\ e.successful \in Nat /\ e.successful <= e.attempts
  /\ e.rate \in 0 .. 100

\* What the reviews of the days, and those of the week of the report, are now.
Known(days, kinds) == CountOf(reviews, days, kinds)
Week == Progress!WeekOf(report.began, 0)

\* The report has these fields.
Has(names) == names \subseteq DOMAIN report

\* Piece recall of the week was wrong.
Erred == \E d \in Week : \E k \in Recall \ Recalled : reviews[d][k] > 0

\* The clock of the request; while held it is that of the database.
BeganOK ==
  /\ Has({"began"})
  /\ report.began \in Progress!Days
  /\ held => report.began = day

ProcessesOK == Has({"retention"}) /\ Evident(report.retention)

TodayOK ==
  /\ Has({"reviewsToday", "objective", "successful", "reviewsTotal"})
  /\ report.reviewsToday \in Nat /\ report.objective \in Nat /\ report.successful \in Nat
  /\ report.successful <= report.objective
  /\ held => report.reviewsToday <= Known({report.began}, ReviewKind)

RetainedOK ==
  /\ Has({"retained"})
  /\ report.retained \in Nat
  /\ held => report.retained <= Known(Week, Recalled)

WeeklyOK ==
  /\ Has({"recall", "previous", "choice", "reviews"})
  /\ Evident(report.recall) /\ Evident(report.previous) /\ Evident(report.choice)
  /\ held => /\ report.retained <= report.recall.successful
             /\ report.reviewsToday <= report.reviews
             /\ report.recall.attempts <= Known(Week, Recall)
             /\ report.recall.successful < report.recall.attempts => Erred

TrendOK ==
  /\ Has({"trend"})
  /\ DOMAIN report.trend = 1 .. DaysOfWeek /\ Len(report.trend) = DaysOfWeek
  /\ \A i \in 1 .. DaysOfWeek : Evident(report.trend[i])
  /\ held => report.recall.attempts <= SumOf([i \in DOMAIN report.trend |-> report.trend[i].attempts])

TopicsOK ==
  /\ Has({"weak", "strong"})
  /\ \A e \in report.weak \cup report.strong : Evident(e)
  /\ held => (report.recall.successful < report.recall.attempts => report.weak # {})

DaysOK ==
  /\ Has({"current", "longest"})
  /\ report.current <= report.longest
  /\ held => (report.reviewsToday > 0 => report.current > 0)

PartsOK == Has({"weakParts"}) /\ \A e \in report.weakParts : Evident(e)

CompletedOK == Has({"completedWeek", "completedTotal"}) /\ report.completedWeek <= report.completedTotal

RecommendationOK == Progress!IsRecommendation(report.recommended)

\* What the queries so far have answered.
AnswersInv ==
  /\ step \in AfterLoad \cup {"idle"}
  /\ step \in AfterLoad => BeganOK
  /\ step \in AfterProcesses => ProcessesOK
  /\ step \in AfterToday => TodayOK
  /\ step \in AfterRetained => RetainedOK
  /\ step \in AfterWeekly => WeeklyOK
  /\ step \in AfterTrend => TrendOK
  /\ step \in AfterTopics => TopicsOK
  /\ step \in AfterDays => DaysOK
  /\ step \in AfterParts => PartsOK
  /\ step \in AfterCompleted => CompletedOK
  /\ step \in AfterRecommendation => RecommendationOK

ProgressInv ==
  /\ TablesInv
  /\ AnswersInv
  /\ told \in {"nothing", "loading", "report", "empty"}
  /\ told \in {"report", "empty"} => step = "answered"

\* Piece share is a percentage.
LEMMA ShareIsPercentage ==
  ASSUME NEW s \in Nat, NEW a \in Nat, s <= a
  PROVE  Progress!Percentage(s, a) \in 0 .. 100
<1>1. CASE a = 0
  BY <1>1 DEF Progress!Percentage
<1>2. CASE a # 0
  <2>1. PICK n \in Nat : n = s * 100 + a \div 2
    <3>1. a \div 2 \in Nat
      OBVIOUS
    <3> QED BY <3>1
  <2>2. n < 101 * a
    <3>1. a \div 2 < a
      BY <1>2
    <3> QED BY <2>1, <3>1
  <2>3. PICK q \in Int : q = n \div a
    BY <1>2
  <2>4. a * q <= n /\ n < a * q + a
    BY <1>2, <2>3
  <2>5. q >= 0
    <3>1. ~ (q <= -1)
      <4>1. ASSUME q <= -1 PROVE a * q + a <= 0
        BY <1>2, <4>1
      <4> QED BY <2>1, <2>4, <4>1
    <3> QED BY <3>1
  <2>6. q <= 100
    <3>1. ~ (q >= 101)
      <4>1. ASSUME q >= 101 PROVE a * q >= 101 * a
        BY <1>2, <4>1
      <4> QED BY <2>1, <2>2, <2>4, <4>1
    <3> QED BY <3>1
  <2> QED BY <1>2, <2>1, <2>3, <2>5, <2>6 DEF Progress!Percentage
<1> QED BY <1>1, <1>2

LEMMA TableOfKinds ==
  ASSUME Dated, NEW r \in Table, NEW D \in SUBSET Progress!Days, NEW K \in SUBSET ReviewKind
  PROVE  /\ IsFiniteSet(D) /\ IsFiniteSet(K) /\ IsFiniteSet(D \X K)
         /\ [e \in D \X K |-> r[e[1]][e[2]]] \in [D \X K -> Nat]
<1>1. IsFiniteSet(Progress!Days)
  BY FS_Interval DEF Dated, Progress!Days
<1>2. IsFiniteSet(D) /\ IsFiniteSet(K)
  BY <1>1, FS_Subset DEF Dated
<1>3. IsFiniteSet(D \X K)
  BY <1>2, FS_Product
<1>4. \A e \in D \X K : r[e[1]][e[2]] \in Nat
  <2>1. SUFFICES ASSUME NEW d \in D, NEW k \in K PROVE r[d][k] \in Nat
    OBVIOUS
  <2>2. r[d] \in [ReviewKind -> Nat]
    BY DEF Table
  <2> QED BY <2>2
<1> QED BY <1>2, <1>3, <1>4

\* More reviews of more kinds on more days.
LEMMA CountsGrow ==
  ASSUME Dated, NEW r \in Table, NEW q \in Table,
         NEW E \in SUBSET Progress!Days, NEW D \in SUBSET E, NEW L \in SUBSET ReviewKind, NEW K \in SUBSET L,
         \A d \in D : \A k \in K : r[d][k] > 0 => r[d][k] <= q[d][k]
  PROVE  CountOf(r, D, K) \in Nat /\ CountOf(q, E, L) \in Nat /\ CountOf(r, D, K) <= CountOf(q, E, L)
<1>1. PICK f \in [D \X K -> Nat] : f = [e \in D \X K |-> r[e[1]][e[2]]]
  BY TableOfKinds
<1>2. PICK g \in [E \X L -> Nat] : g = [e \in E \X L |-> q[e[1]][e[2]]]
  BY TableOfKinds
<1>3. IsFiniteSet(D \X K) /\ IsFiniteSet(E \X L)
  <2>1. D \in SUBSET Progress!Days /\ K \in SUBSET ReviewKind
    OBVIOUS
  <2> QED BY <2>1, TableOfKinds
<1>4. PICK h : h = [e \in D \X K |-> e]
  OBVIOUS
<1>5. \A e \in D \X K : f[e] > 0 => h[e] \in E \X L /\ f[e] <= g[h[e]]
  <2>1. SUFFICES ASSUME NEW d \in D, NEW k \in K, f[<<d, k>>] > 0
                 PROVE  <<d, k>> \in E \X L /\ f[<<d, k>>] <= g[<<d, k>>]
    BY <1>4
  <2>2. <<d, k>> \in D \X K /\ <<d, k>> \in E \X L
    OBVIOUS
  <2>3. f[<<d, k>>] = r[d][k] /\ g[<<d, k>>] = q[d][k]
    BY <1>1, <1>2, <2>2
  <2> QED BY <2>1, <2>2, <2>3
<1>6. \A e, x \in D \X K : f[e] > 0 /\ f[x] > 0 /\ h[e] = h[x] => e = x
  BY <1>4
<1>7. SumOf(f) \in Nat /\ SumOf(g) \in Nat /\ SumOf(f) <= SumOf(g)
  BY <1>3, <1>5, <1>6, SumsCompare
<1> QED BY <1>1, <1>2, <1>7 DEF CountOf

LEMMA CountIsNatural ==
  ASSUME Dated, NEW r \in Table, NEW D \in SUBSET Progress!Days, NEW K \in SUBSET ReviewKind
  PROVE  CountOf(r, D, K) \in Nat
<1>1. \A d \in D : \A k \in K : r[d][k] > 0 => r[d][k] <= r[d][k]
  BY DEF Table
<1> QED BY <1>1, CountsGrow

\* Piece review of another kind makes the count larger.
LEMMA CountsExceed ==
  ASSUME Dated, NEW r \in Table, NEW D \in SUBSET Progress!Days, NEW L \in SUBSET ReviewKind, NEW K \in SUBSET L,
         NEW d \in D, NEW k \in L \ K, r[d][k] > 0
  PROVE  CountOf(r, D, K) < CountOf(r, D, L)
<1>1. PICK f \in [D \X K -> Nat] : f = [e \in D \X K |-> r[e[1]][e[2]]]
  BY TableOfKinds
<1>2. PICK g \in [D \X L -> Nat] : g = [e \in D \X L |-> r[e[1]][e[2]]]
  BY TableOfKinds
<1>3. IsFiniteSet(D \X K) /\ IsFiniteSet(D \X L)
  <2>1. K \in SUBSET ReviewKind
    OBVIOUS
  <2> QED BY <2>1, TableOfKinds
<1>4. PICK w \in [D \X L -> Nat] : w = [e \in D \X L |-> IF e[2] \in K THEN g[e] ELSE 0]
  OBVIOUS
<1>5. SumOf(f) \in Nat /\ SumOf(w) \in Nat /\ SumOf(f) <= SumOf(w)
  <2>1. PICK h : h = [e \in D \X K |-> e]
    OBVIOUS
  <2>2. \A e \in D \X K : f[e] > 0 => h[e] \in D \X L /\ f[e] <= w[h[e]]
    <3>1. SUFFICES ASSUME NEW e \in D \X K PROVE e \in D \X L /\ f[e] <= w[e]
      BY <2>1
    <3>2. e \in D \X L /\ e[2] \in K
      OBVIOUS
    <3>3. f[e] = r[e[1]][e[2]] /\ g[e] = r[e[1]][e[2]] /\ w[e] = g[e]
      BY <1>1, <1>2, <1>4, <3>2
    <3> QED BY <3>2, <3>3
  <2>3. \A e, x \in D \X K : f[e] > 0 /\ f[x] > 0 /\ h[e] = h[x] => e = x
    BY <2>1
  <2> QED BY <1>3, <2>2, <2>3, SumsCompare, SMTT(30)
<1>6. SumOf(w) < SumOf(g)
  <2>1. \A e \in D \X L : w[e] <= g[e]
    BY <1>4
  <2>2. PICK z \in D \X L : z = <<d, k>>
    OBVIOUS
  <2>3. w[z] = 0 /\ g[z] = r[d][k]
    BY <1>2, <1>4, <2>2
  <2>4. w[z] < g[z]
    BY <2>3
  <2> QED BY <1>3, <2>1, <2>4, SumExceeds
<1>7. SumOf(g) \in Nat
  <2>1. CountOf(r, D, L) \in Nat
    BY CountIsNatural
  <2> QED BY <1>2, <2>1 DEF CountOf
<1> QED BY <1>1, <1>2, <1>5, <1>6, <1>7 DEF CountOf

\* It is larger only by one.
LEMMA ExceedingCount ==
  ASSUME Dated, NEW r \in Table, NEW D \in SUBSET Progress!Days, NEW L \in SUBSET ReviewKind, NEW K \in SUBSET L,
         CountOf(r, D, K) < CountOf(r, D, L)
  PROVE  \E d \in D : \E k \in L \ K : r[d][k] > 0
<1>1. SUFFICES ASSUME ~ \E d \in D : \E k \in L \ K : r[d][k] > 0
               PROVE  CountOf(r, D, L) <= CountOf(r, D, K)
  <2>1. CountOf(r, D, L) \in Nat /\ CountOf(r, D, K) \in Nat
    <3>1. K \in SUBSET ReviewKind
      OBVIOUS
    <3> QED BY <3>1, CountIsNatural
  <2> QED BY <2>1
<1>2. PICK f \in [D \X K -> Nat] : f = [e \in D \X K |-> r[e[1]][e[2]]]
  BY TableOfKinds
<1>3. PICK g \in [D \X L -> Nat] : g = [e \in D \X L |-> r[e[1]][e[2]]]
  BY TableOfKinds
<1>4. IsFiniteSet(D \X K) /\ IsFiniteSet(D \X L)
  <2>1. K \in SUBSET ReviewKind
    OBVIOUS
  <2> QED BY <2>1, TableOfKinds
<1>5. PICK h : h = [e \in D \X L |-> e]
  OBVIOUS
<1>6. \A e \in D \X L : g[e] > 0 => h[e] \in D \X K /\ g[e] <= f[h[e]]
  <2>1. SUFFICES ASSUME NEW d \in D, NEW k \in L, g[<<d, k>>] > 0
                 PROVE  <<d, k>> \in D \X K /\ g[<<d, k>>] <= f[<<d, k>>]
    BY <1>5
  <2>2. <<d, k>> \in D \X L /\ g[<<d, k>>] = r[d][k]
    BY <1>3
  <2>3. k \in K
    BY <1>1, <2>1, <2>2
  <2>4. <<d, k>> \in D \X K
    BY <2>3
  <2>5. f[<<d, k>>] = r[d][k]
    BY <1>2, <2>4
  <2>6. g[<<d, k>>] \in Nat
    BY <2>2
  <2> QED BY <2>2, <2>4, <2>5, <2>6
<1>7. \A e, x \in D \X L : g[e] > 0 /\ g[x] > 0 /\ h[e] = h[x] => e = x
  BY <1>5
<1>8. SumOf(g) <= SumOf(f)
  BY <1>4, <1>6, <1>7, SumsCompare
<1> QED BY <1>2, <1>3, <1>8 DEF CountOf

\* There is a count when there is a review.
LEMMA CountOfSome ==
  ASSUME Dated, NEW r \in Table, NEW D \in SUBSET Progress!Days, NEW K \in SUBSET ReviewKind
  PROVE  CountOf(r, D, K) > 0 <=> \E d \in D : \E k \in K : r[d][k] > 0
<1>1. CountOf(r, D, {}) = 0
  <2>1. PICK none : none = [e \in {} |-> 0]
    OBVIOUS
  <2>2. [e \in D \X {} |-> r[e[1]][e[2]]] = none /\ none \in [{} -> Nat]
    BY <2>1
  <2>3. IsFiniteSet({})
    BY FS_EmptySet
  <2>4. SumOf(none) = 0
    <3>1. PICK s : Tallies(s, none, {}) /\ SumOf(none) = s[{}]
      BY <2>2, <2>3, SumTally
    <3> QED BY <3>1 DEF Tallies
  <2> QED BY <2>2, <2>4 DEF CountOf
<1>2. {} \in SUBSET K /\ CountOf(r, D, K) \in Nat
  BY CountIsNatural
<1>3. ASSUME CountOf(r, D, K) > 0 PROVE \E d \in D : \E k \in K : r[d][k] > 0
  <2>1. CountOf(r, D, {}) < CountOf(r, D, K)
    BY <1>1, <1>2, <1>3
  <2> QED BY <1>2, <2>1, ExceedingCount
<1>4. ASSUME NEW d \in D, NEW k \in K, r[d][k] > 0 PROVE CountOf(r, D, K) > 0
  <2>1. k \in K \ {}
    OBVIOUS
  <2>2. CountOf(r, D, {}) < CountOf(r, D, K)
    BY <1>2, <1>4, <2>1, CountsExceed
  <2> QED BY <1>1, <1>2, <2>2
<1> QED BY <1>3, <1>4

\* Words that were reviewed are no more than the reviews.
LEMMA WordsAreReviewed ==
  ASSUME Dated, NEW r \in Table, NEW D \in SUBSET Progress!Days, NEW K \in SUBSET ReviewKind, NEW W,
         \A w \in W : \E d \in D : \E k \in K : k.word = w /\ r[d][k] > 0
  PROVE  IsFiniteSet(W) /\ Cardinality(W) <= CountOf(r, D, K)
<1>1. IsFiniteSet(W)
  <2>1. PICK words : words = {k.word : k \in K}
    OBVIOUS
  <2>2. W \in SUBSET words
    BY <2>1
  <2>3. IsFiniteSet(K)
    BY TableOfKinds
  <2>4. IsFiniteSet(words)
    <3>1. PICK of : of = [k \in K |-> k.word]
      OBVIOUS
    <3>2. of \in Surjection(K, words)
      BY <2>1, <3>1 DEF Surjection
    <3> QED BY <2>3, <3>2, FS_Surjection
  <2> QED BY <2>2, <2>4, FS_Subset
<1>2. PICK g \in [D \X K -> Nat] : g = [e \in D \X K |-> r[e[1]][e[2]]]
  BY TableOfKinds
<1>3. IsFiniteSet(D \X K)
  BY TableOfKinds
<1>4. PICK f \in [W -> Nat] : f = [w \in W |-> 1]
  OBVIOUS
<1>5. \A w \in W : \E e \in D \X K : e[2].word = w /\ g[e] > 0
  <2>1. SUFFICES ASSUME NEW w \in W PROVE \E e \in D \X K : e[2].word = w /\ g[e] > 0
    OBVIOUS
  <2>2. PICK d \in D, k \in K : k.word = w /\ r[d][k] > 0
    OBVIOUS
  <2>3. PICK e \in D \X K : e = <<d, k>>
    OBVIOUS
  <2>4. e[2] = k /\ g[e] = r[d][k]
    BY <1>2, <2>3
  <2> QED BY <2>2, <2>4
<1>6. PICK h : h = [w \in W |-> CHOOSE e \in D \X K : e[2].word = w /\ g[e] > 0]
  OBVIOUS
<1>7. \A w \in W : h[w] \in D \X K /\ h[w][2].word = w /\ g[h[w]] > 0
  BY <1>5, <1>6
<1>8. \A w \in W : f[w] > 0 => h[w] \in D \X K /\ f[w] <= g[h[w]]
  BY <1>4, <1>7
<1>9. \A w, v \in W : f[w] > 0 /\ f[v] > 0 /\ h[w] = h[v] => w = v
  BY <1>7
<1>10. SumOf(f) <= SumOf(g)
  BY <1>1, <1>3, <1>8, <1>9, SumsCompare
<1>11. SumOf(f) = Cardinality(W)
  BY <1>1, <1>4, SumOfOnes
<1> QED BY <1>1, <1>2, <1>10, <1>11 DEF CountOf

LEMMA WeekIsOfDays ==
  ASSUME Dated, NEW d \in Progress!Days, NEW n
  PROVE  Progress!WeekOf(d, n) \in SUBSET Progress!Days /\ d \in Progress!WeekOf(d, 0)
<1>1. d \in Nat /\ DaysOfWeek \in Nat /\ DaysOfWeek # 0
  BY DEF Dated, Progress!Days
<1>2. d \div DaysOfWeek \in Int
  BY <1>1
<1>3. d \div DaysOfWeek = d \div DaysOfWeek - 0
  BY <1>2
<1> QED BY <1>3 DEF Progress!WeekOf

LEMMA SameSum == \A f : Progress!SumOf(f) = SumOf(f)
  BY DEF Progress!SumOf, SumOf

LEMMA CountsReviews ==
  ASSUME NEW D, NEW K
  PROVE  Progress!Count(D, K) = CountOf(reviews, D, K)
<1>1. PICK f : f = [e \in D \X K |-> reviews[e[1]][e[2]]]
  OBVIOUS
<1>2. Progress!Count(D, K) = Progress!SumOf(f)
  BY <1>1 DEF Progress!Count
<1>3. CountOf(reviews, D, K) = SumOf(f)
  BY <1>1 DEF CountOf
<1> QED BY <1>2, <1>3, SameSum

\* Evidence is what its reviews make it.
LEMMA EvidenceHolds ==
  ASSUME Dated, TablesInv, NEW D \in SUBSET Progress!Days, NEW K \in SUBSET ReviewKind
  PROVE  LET e == Progress!Evidence(D, K)
         IN  /\ Evident(e) /\ DOMAIN e = {"attempts", "successful", "rate"}
             /\ e.attempts = CountOf(reviews, D, K)
             /\ e.successful = CountOf(reviews, D, Progress!Correct(K))
<1>1. reviews \in Table
  BY DEF TablesInv
<1>2. Progress!Correct(K) \in SUBSET K /\ Progress!Correct(K) \in SUBSET ReviewKind
  BY DEF Progress!Correct
<1>3. PICK a \in Nat : a = CountOf(reviews, D, K)
  BY <1>1, CountIsNatural
<1>4. PICK s \in Nat : s = CountOf(reviews, D, Progress!Correct(K))
  BY <1>1, <1>2, CountIsNatural
<1>5. s <= a
  <2>1. \A d \in D : \A k \in Progress!Correct(K) : reviews[d][k] > 0 => reviews[d][k] <= reviews[d][k]
    BY <1>1, <1>2 DEF Table
  <2> QED BY <1>1, <1>2, <1>3, <1>4, <2>1, CountsGrow
<1>6. Progress!Percentage(s, a) \in 0 .. 100
  BY <1>5, ShareIsPercentage
<1>7. Progress!Count(D, K) = a /\ Progress!Count(D, Progress!Correct(K)) = s
  BY <1>3, <1>4, CountsReviews
<1>8. PICK e : e = [attempts |-> a, successful |-> s, rate |-> Progress!Percentage(s, a)]
  OBVIOUS
<1>9. Progress!Evidence(D, K) = e
  BY <1>7, <1>8 DEF Progress!Evidence
<1>10. /\ e.attempts = a /\ e.successful = s /\ e.rate = Progress!Percentage(s, a)
       /\ DOMAIN e = {"attempts", "successful", "rate"}
  BY <1>8
<1> QED BY <1>3, <1>4, <1>5, <1>6, <1>9, <1>10 DEF Evident

\* The reviews of a week are those of its days.
LEMMA TrendCountsWeek ==
  ASSUME Dated, NEW r \in Table, NEW began \in Progress!Days, NEW K \in SUBSET ReviewKind,
         NEW g, g = [i \in 1 .. DaysOfWeek |->
                       CountOf(r, {DaysOfWeek * (began \div DaysOfWeek) + i - 1} \cap Progress!WeekOf(began, 0), K)]
  PROVE  CountOf(r, Progress!WeekOf(began, 0), K) <= SumOf(g)
<1>1. PICK W \in SUBSET Progress!Days : W = Progress!WeekOf(began, 0)
  BY WeekIsOfDays
<1>2. DaysOfWeek \in Nat /\ DaysOfWeek # 0 /\ Progress!Days \in SUBSET Nat
  BY DEF Dated, Progress!Days
<1>3. PICK m \in Nat : m = DaysOfWeek * (began \div DaysOfWeek)
  <2>1. began \div DaysOfWeek \in Nat
    BY <1>2
  <2>2. DaysOfWeek * (began \div DaysOfWeek) \in Nat
    BY <1>2, <2>1
  <2> QED BY <2>2
<1>4. \A d \in W : d \in Nat /\ m <= d /\ d < m + DaysOfWeek
  <2>1. SUFFICES ASSUME NEW d \in W PROVE d \in Nat /\ m <= d /\ d < m + DaysOfWeek
    OBVIOUS
  <2>2. d \in Nat /\ began \in Nat
    BY <1>2
  <2>3. PICK q \in Int : q = d \div DaysOfWeek
    BY <1>2, <2>2
  <2>4. PICK p \in Int : p = began \div DaysOfWeek
    BY <1>2, <2>2
  <2>5. q = p - 0
    BY <1>1, <2>3, <2>4 DEF Progress!WeekOf
  <2>6. DaysOfWeek * q <= d /\ d < DaysOfWeek * q + DaysOfWeek
    BY <1>2, <2>2, <2>3
  <2>7. q = p
    BY <2>4, <2>5
  <2> QED BY <1>3, <2>2, <2>4, <2>6, <2>7
<1>5. PICK h : h = [d \in W |-> d - m + 1]
  OBVIOUS
<1>6. h \in [W -> 1 .. DaysOfWeek] /\ \A d \in W : m + h[d] - 1 = d
  BY <1>2, <1>4, <1>5
<1>7. g \in [1 .. DaysOfWeek -> Nat]
  <2>1. \A i \in 1 .. DaysOfWeek : CountOf(r, {m + i - 1} \cap W, K) \in Nat
    <3>1. \A i \in 1 .. DaysOfWeek : {m + i - 1} \cap W \in SUBSET Progress!Days
      OBVIOUS
    <3> QED BY <3>1, CountIsNatural
  <2> QED BY <1>1, <1>3, <2>1
<1>8. PICK f \in [W \X K -> Nat] : f = [e \in W \X K |-> r[e[1]][e[2]]]
  BY TableOfKinds
<1>9. \A d \in W : SumOf([p \in {d} \X K |-> f[p]]) <= g[h[d]]
  <2>1. SUFFICES ASSUME NEW d \in W PROVE SumOf([p \in {d} \X K |-> f[p]]) <= g[h[d]]
    OBVIOUS
  <2>2. g[h[d]] = CountOf(r, {d}, K)
    <3>1. h[d] \in 1 .. DaysOfWeek /\ m + h[d] - 1 = d /\ {d} \cap W = {d}
      BY <1>6
    <3>2. g[h[d]] = CountOf(r, {m + h[d] - 1} \cap W, K)
      BY <1>1, <1>3, <3>1
    <3> QED BY <3>1, <3>2
  <2>3. [p \in {d} \X K |-> f[p]] = [e \in {d} \X K |-> r[e[1]][e[2]]]
    <3>1. \A p \in {d} \X K : p \in W \X K
      OBVIOUS
    <3> QED BY <1>8, <3>1
  <2>4. CountOf(r, {d}, K) \in Nat
    <3>1. {d} \in SUBSET Progress!Days
      OBVIOUS
    <3> QED BY <3>1, CountIsNatural
  <2>5. CountOf(r, {d}, K) = SumOf([p \in {d} \X K |-> f[p]])
    BY <2>3, Zenon DEF CountOf
  <2> QED BY <2>2, <2>4, <2>5
<1>10. \A d, e \in W : h[d] = h[e] => d = e
  BY <1>4, <1>6
<1>11. IsFiniteSet(W) /\ IsFiniteSet(K) /\ IsFiniteSet(1 .. DaysOfWeek)
  <2>1. IsFiniteSet(W) /\ IsFiniteSet(K)
    BY TableOfKinds
  <2>2. 1 \in Int /\ DaysOfWeek \in Int
    BY <1>2
  <2>3. IsFiniteSet(1 .. DaysOfWeek)
    BY <2>2, FS_Interval
  <2> QED BY <2>1, <2>3
<1>12. SumOf(f) <= SumOf(g)
  BY <1>6, <1>7, <1>9, <1>10, <1>11, SumsByRow
<1> QED BY <1>1, <1>8, <1>12 DEF CountOf

\* The largest of some numbers.
LEMMA LargestOne ==
  ASSUME NEW b \in Nat, NEW Base \in SUBSET (0 .. b), Base # {}
  PROVE  Progress!Max(Base) \in Base /\ \A n \in Base : n <= Progress!Max(Base)
<1>1. PICK gaps : gaps = {b - n : n \in Base}
  OBVIOUS
<1>2. gaps \in SUBSET Nat /\ gaps # {}
  <2>1. \A n \in Base : b - n \in Nat
    BY SMT
  <2> QED BY <1>1, <2>1
<1>3. PICK l \in gaps : \A n \in gaps : l <= n
  BY <1>2, LeastOne
<1>4. PICK m \in Base : l = b - m
  BY <1>1, <1>3
<1>5. \A n \in Base : m >= n
  <2>1. SUFFICES ASSUME NEW n \in Base PROVE m >= n
    OBVIOUS
  <2>2. b - m <= b - n
    BY <1>1, <1>3, <1>4
  <2> QED BY <2>2
<1>6. Progress!Max(Base) \in Base /\ \A n \in Base : Progress!Max(Base) >= n
  BY <1>5 DEF Progress!Max
<1> QED BY <1>6

\* Piece streak is no longer than the longest, and one that has reached today has a day.
LEMMA RunHasDays ==
  ASSUME Dated, NEW days \in SUBSET Progress!Days, NEW last
  PROVE  /\ Progress!Run(days, last) \in 0 .. MaxDay + 1
         /\ last \in days => Progress!Run(days, last) > 0
<1>1. PICK Base : Base = {0} \cup {n \in 1 .. MaxDay + 1 : (last - n + 1) .. last \subseteq days}
  OBVIOUS
<1>2. MaxDay + 1 \in Nat /\ Base \in SUBSET (0 .. MaxDay + 1) /\ Base # {}
  BY <1>1 DEF Dated
<1>3. Progress!Max(Base) \in Base /\ \A n \in Base : n <= Progress!Max(Base)
  BY <1>2, LargestOne
<1>4. Progress!Run(days, last) = Progress!Max(Base)
  BY <1>1 DEF Progress!Run
<1>5. last \in days => 1 \in Base
  BY <1>1, <1>2 DEF Dated, Progress!Days
<1>6. Progress!Run(days, last) \in 0 .. MaxDay + 1
  BY <1>2, <1>3, <1>4
<1>7. ASSUME last \in days PROVE Progress!Run(days, last) > 0
  <2>1. 1 <= Progress!Run(days, last)
    BY <1>3, <1>4, <1>5, <1>7
  <2> QED BY <1>6, <2>1
<1> QED BY <1>6, <1>7

LEMMA StreaksAgree ==
  ASSUME Dated, NEW days \in SUBSET Progress!Days, NEW today \in Progress!Days
  PROVE  /\ Progress!Current(days, today) <= Progress!Longest(days)
         /\ today \in days /\ (\A d \in days : d <= today) => Progress!Current(days, today) > 0
<1>1. PICK Base : Base = {0} \cup {Progress!Run(days, d) : d \in days}
  OBVIOUS
<1>2. MaxDay + 1 \in Nat /\ Base \in SUBSET (0 .. MaxDay + 1) /\ Base # {}
  BY <1>1, RunHasDays DEF Dated
<1>3. Progress!Max(Base) \in Base /\ \A n \in Base : n <= Progress!Max(Base)
  BY <1>2, LargestOne
<1>4. Progress!Longest(days) = Progress!Max(Base)
  BY <1>1 DEF Progress!Longest
<1>5. Progress!Longest(days) \in Nat /\ \A d \in days : Progress!Run(days, d) <= Progress!Longest(days)
  BY <1>1, <1>2, <1>3, <1>4
<1>6. CASE days = {}
  <2>1. \A d \in Int : Progress!Run(days, d) = 0
    <3>1. SUFFICES ASSUME NEW d \in Int PROVE Progress!Run(days, d) = 0
      OBVIOUS
    <3>2. PICK R : R = {0} \cup {n \in 1 .. MaxDay + 1 : (d - n + 1) .. d \subseteq days}
      OBVIOUS
    <3>3. R \in SUBSET (0 .. MaxDay + 1) /\ R # {} /\ MaxDay + 1 \in Nat
      BY <1>2, <3>2
    <3>4. Progress!Max(R) \in R
      BY <3>3, LargestOne
    <3>5. \A n \in 1 .. MaxDay + 1 : d \in (d - n + 1) .. d
      BY <1>2
    <3>6. R = {0}
      BY <1>6, <3>2, <3>5
    <3>7. Progress!Max(R) = 0
      BY <3>4, <3>6
    <3> QED BY <3>2, <3>7 DEF Progress!Run
  <2>2. today \in Int /\ today - 1 \in Int
    BY DEF Progress!Days
  <2>3. Progress!Run(days, today) = 0 /\ Progress!Run(days, today - 1) = 0
    BY <2>1, <2>2
  <2>4. Progress!Current(days, today) = 0
    BY <1>6, <2>3 DEF Progress!Current
  <2> QED BY <1>5, <1>6, <2>4
<1>7. CASE days # {}
  <2>1. PICK top \in days : top = Progress!Max(days) /\ \A d \in days : d <= top
    <3>1. MaxDay \in Nat /\ days \in SUBSET (0 .. MaxDay)
      BY DEF Dated, Progress!Days
    <3> QED BY <1>7, <3>1, LargestOne
  <2>2. top \in Nat /\ today \in Nat
    BY DEF Progress!Days
  <2>3. CASE top = today - 1
    <3>1. Progress!Current(days, today) = Progress!Run(days, today - 1)
      BY <1>7, <2>1, <2>2, <2>3 DEF Progress!Current
    <3>2. today \notin days
      BY <2>1, <2>2, <2>3
    <3> QED BY <1>5, <2>1, <2>3, <3>1, <3>2
  <2>4. CASE top = today
    <3>1. Progress!Current(days, today) = Progress!Run(days, today)
      BY <1>7, <2>1, <2>2, <2>4 DEF Progress!Current
    <3> QED BY <1>5, <2>1, <2>4, <3>1, RunHasDays
  <2>5. CASE top # today /\ top # today - 1
    <3>1. Progress!Current(days, today) = 0
      BY <1>7, <2>1, <2>5 DEF Progress!Current
    <3>2. today \in days => ~ \A d \in days : d <= today
      BY <2>1, <2>2, <2>5
    <3> QED BY <1>5, <3>1, <3>2
  <2> QED BY <2>3, <2>4, <2>5
<1> QED BY <1>6, <1>7

\* The queries follow one another.
LEMMA QueryAnswers ==
  ASSUME NEW name, NEW fields, NEW next, Progress!Query(name, fields),
         \E i \in 1 .. 11 : Progress!Steps[i] = name /\ Progress!Steps[i + 1] = next
  PROVE  /\ step = name /\ step' = next
         /\ UNCHANGED <<day, reviews, scenarios, held, told>>
         /\ report' = Progress!Joined(fields, report)
<1>1. PICK steps : steps = Progress!Steps
  OBVIOUS
<1>2. /\ DOMAIN steps = 1 .. 12
      /\ steps[1] = "processes" /\ steps[2] = "today" /\ steps[3] = "retained" /\ steps[4] = "weekly"
      /\ steps[5] = "trend" /\ steps[6] = "topics" /\ steps[7] = "days" /\ steps[8] = "listening"
      /\ steps[9] = "parts" /\ steps[10] = "completed" /\ steps[11] = "recommendation"
      /\ steps[12] = "answered"
  BY <1>1 DEF Progress!Steps
<1>3. PICK i \in 1 .. 11 : steps[i] = name /\ steps[i + 1] = next
  BY <1>1
<1>4. \A j, k \in 1 .. 12 : steps[j] = steps[k] => j = k
  BY <1>2
<1>5. \A j \in DOMAIN steps : j > 1 /\ steps[j - 1] = name <=> j = i + 1
  BY <1>2, <1>3, <1>4
<1>6. i + 1 \in DOMAIN steps
  BY <1>2
<1>7. PICK n : n = CHOOSE j \in DOMAIN steps : j > 1 /\ steps[j - 1] = name
  OBVIOUS
<1>8. n = i + 1
  BY <1>5, <1>6, <1>7
<1>9. step' = steps[n]
  BY <1>1, <1>7 DEF Progress!Query
<1> QED BY <1>3, <1>8, <1>9 DEF Progress!Query

\* Piece field is that of the answer, or the one it was.
LEMMA JoinedFields ==
  ASSUME NEW f, NEW g
  PROVE  /\ DOMAIN Progress!Joined(f, g) = DOMAIN f \cup DOMAIN g
         /\ \A x \in DOMAIN f : Progress!Joined(f, g)[x] = f[x]
         /\ \A x \in DOMAIN g \ DOMAIN f : Progress!Joined(f, g)[x] = g[x]
  BY DEF Progress!Joined

\* The fields of the report that a query has added, and the others.
LEMMA ReportJoined ==
  ASSUME NEW fields, report' = Progress!Joined(fields, report)
  PROVE  /\ \A x \in DOMAIN fields : x \in DOMAIN report' /\ report'[x] = fields[x]
         /\ \A x \in DOMAIN report \ DOMAIN fields : x \in DOMAIN report' /\ report'[x] = report[x]
<1>1. DOMAIN Progress!Joined(fields, report) = DOMAIN fields \cup DOMAIN report
  BY JoinedFields, Zenon
<1>2. \A x \in DOMAIN fields : Progress!Joined(fields, report)[x] = fields[x]
  BY JoinedFields, Zenon
<1>3. \A x \in DOMAIN report \ DOMAIN fields : Progress!Joined(fields, report)[x] = report[x]
  BY JoinedFields, Zenon
<1> QED BY <1>1, <1>2, <1>3

\* What the queries before it have answered is left by a query.
LEMMA QueryKeeps ==
  ASSUME NEW fields, report' = Progress!Joined(fields, report),
         UNCHANGED <<day, reviews, scenarios, held, told>>,
         BeganOK, "began" \notin DOMAIN fields
  PROVE  /\ BeganOK' /\ report'.began = report.began /\ Week' = Week /\ DOMAIN fields \subseteq DOMAIN report'
         /\ ProcessesOK /\ "retention" \notin DOMAIN fields => ProcessesOK'
         /\ TodayOK /\ {"reviewsToday", "objective", "successful"} \cap DOMAIN fields = {} => TodayOK'
         /\ RetainedOK /\ "retained" \notin DOMAIN fields => RetainedOK'
         /\ TodayOK /\ RetainedOK /\ WeeklyOK
            /\ {"recall", "previous", "choice", "retained", "reviewsToday", "reviews"} \cap DOMAIN fields = {} =>
              WeeklyOK'
         /\ WeeklyOK /\ TrendOK /\ {"trend", "recall"} \cap DOMAIN fields = {} => TrendOK'
         /\ WeeklyOK /\ TopicsOK /\ {"weak", "strong", "recall"} \cap DOMAIN fields = {} => TopicsOK'
         /\ TodayOK /\ DaysOK /\ {"current", "longest", "reviewsToday"} \cap DOMAIN fields = {} => DaysOK'
         /\ PartsOK /\ "weakParts" \notin DOMAIN fields => PartsOK'
         /\ CompletedOK /\ {"completedWeek", "completedTotal"} \cap DOMAIN fields = {} => CompletedOK'
<1>1. /\ \A x \in DOMAIN report : x \in DOMAIN report' /\ (x \notin DOMAIN fields => report'[x] = report[x])
      /\ DOMAIN fields \subseteq DOMAIN report'
  BY ReportJoined
<1>2. report'.began = report.began
  BY <1>1 DEF BeganOK, Has
<1>3. Week' = Week
  BY <1>2 DEF Week
<1>4. BeganOK'
  BY <1>1, <1>2 DEF BeganOK, Has
<1>5. ProcessesOK /\ "retention" \notin DOMAIN fields => ProcessesOK'
  BY <1>1 DEF ProcessesOK, Has, Evident
<1>6. TodayOK /\ {"reviewsToday", "objective", "successful"} \cap DOMAIN fields = {} => TodayOK'
  BY <1>1, <1>2 DEF TodayOK, Has, Known
<1>7. RetainedOK /\ "retained" \notin DOMAIN fields => RetainedOK'
  BY <1>1, <1>3 DEF RetainedOK, Has, Known
<1>8. ASSUME TodayOK, RetainedOK, WeeklyOK,
             {"recall", "previous", "choice", "retained", "reviewsToday", "reviews"} \cap DOMAIN fields = {}
      PROVE  WeeklyOK'
  <2>1. /\ report'.recall = report.recall /\ report'.previous = report.previous
        /\ report'.choice = report.choice /\ report'.retained = report.retained
        /\ report'.reviewsToday = report.reviewsToday /\ report'.reviews = report.reviews
    BY <1>1, <1>8 DEF TodayOK, RetainedOK, WeeklyOK, Has
  <2>2. Erred' = Erred
    BY <1>3 DEF Erred
  <2>3. Has({"recall", "previous", "choice", "reviews"})'
    BY <1>1, <1>8 DEF WeeklyOK, Has
  <2> QED BY <1>3, <1>8, <2>1, <2>2, <2>3 DEF WeeklyOK, Known, Evident
<1>9. WeeklyOK /\ TrendOK /\ {"trend", "recall"} \cap DOMAIN fields = {} => TrendOK'
  BY <1>1 DEF WeeklyOK, TrendOK, Has, Evident
<1>10. WeeklyOK /\ TopicsOK /\ {"weak", "strong", "recall"} \cap DOMAIN fields = {} => TopicsOK'
  BY <1>1 DEF WeeklyOK, TopicsOK, Has, Evident
<1>11. TodayOK /\ DaysOK /\ {"current", "longest", "reviewsToday"} \cap DOMAIN fields = {} => DaysOK'
  BY <1>1 DEF TodayOK, DaysOK, Has
<1>12. PartsOK /\ "weakParts" \notin DOMAIN fields => PartsOK'
  BY <1>1 DEF PartsOK, Has, Evident
<1>13. CompletedOK /\ {"completedWeek", "completedTotal"} \cap DOMAIN fields = {} => CompletedOK'
  BY <1>1 DEF CompletedOK, Has
<1> QED BY <1>1, <1>2, <1>3, <1>4, <1>5, <1>6, <1>7, <1>8, <1>9, <1>10, <1>11, <1>12, <1>13

LEMMA ProcessesAnswer ==
  ASSUME Dated, TablesInv, BeganOK, Progress!ReadProcesses
  PROVE  step = "processes" /\ step' = "today" /\ UNCHANGED <<day, reviews, scenarios, held, told>>
         /\ BeganOK' /\ ProcessesOK'
<1>1. PICK e : e = Progress!Evidence(Week, Progress!OfReview(Progress!In({"recall", "listening"})))
  OBVIOUS
<1>2. Evident(e)
  <2>1. Week \in SUBSET Progress!Days
    BY WeekIsOfDays DEF Week, BeganOK
  <2>2. Progress!OfReview(Progress!In({"recall", "listening"})) \in SUBSET ReviewKind
    BY DEF Progress!OfReview, Progress!In
  <2> QED BY <1>1, <2>1, <2>2, EvidenceHolds
<1>3. PICK fields : fields = [retention |-> e]
  OBVIOUS
<1>4. Progress!Query("processes", fields)
  BY <1>1, <1>3 DEF Progress!ReadProcesses, Week
<1>5. \E i \in 1 .. 11 : Progress!Steps[i] = "processes" /\ Progress!Steps[i + 1] = "today"
  <2>1. Progress!Steps[1] = "processes" /\ Progress!Steps[1 + 1] = "today"
    BY DEF Progress!Steps
  <2> QED BY <2>1
<1>6. /\ step = "processes" /\ step' = "today" /\ UNCHANGED <<day, reviews, scenarios, held, told>>
      /\ report' = Progress!Joined(fields, report)
  BY <1>4, <1>5, QueryAnswers
<1>7. BeganOK' /\ DOMAIN fields \subseteq DOMAIN report'
  BY <1>3, <1>6, QueryKeeps
<1>8. report'.retention = e
  <2>1. "retention" \in DOMAIN fields /\ fields["retention"] = e
    BY <1>3
  <2> QED BY <1>6, <2>1, ReportJoined
<1>9. ProcessesOK'
  BY <1>2, <1>3, <1>7, <1>8 DEF ProcessesOK, Has, Evident
<1> QED BY <1>6, <1>7, <1>9

\* Piece query adds the fields of these names.
Adds(name, next, names) ==
  /\ step = name /\ step' = next
  /\ UNCHANGED <<day, reviews, scenarios, held, told>>
  /\ \E fields : DOMAIN fields = names /\ report' = Progress!Joined(fields, report)

LEMMA TodayAnswer ==
  ASSUME Dated, TablesInv, BeganOK, Progress!ReadToday
  PROVE  /\ Adds("today", "retained", {"reviewsToday", "objective", "successful", "reviewsTotal"})
         /\ TodayOK'
<1> DEFINE Judged == Progress!In({"recall", "choice"})
<1>1. PICK fields : fields = [reviewsToday |-> Progress!Count({day}, ReviewKind),
                              objective |-> Progress!Count({day}, Judged),
                              successful |-> Progress!Count({day}, Progress!Correct(Judged)),
                              reviewsTotal |-> Progress!Count(Progress!Days, ReviewKind)]
  OBVIOUS
<1>2. Progress!Query("today", fields)
  BY <1>1 DEF Progress!ReadToday
<1>3. \E i \in 1 .. 11 : Progress!Steps[i] = "today" /\ Progress!Steps[i + 1] = "retained"
  <2>1. Progress!Steps[2] = "today" /\ Progress!Steps[2 + 1] = "retained"
    BY DEF Progress!Steps
  <2> QED BY <2>1
<1>4. /\ step = "today" /\ step' = "retained" /\ UNCHANGED <<day, reviews, scenarios, held, told>>
      /\ report' = Progress!Joined(fields, report)
  BY <1>2, <1>3, QueryAnswers
<1>5. DOMAIN fields = {"reviewsToday", "objective", "successful", "reviewsTotal"}
  BY <1>1
<1>6. BeganOK' /\ DOMAIN fields \subseteq DOMAIN report' /\ report'.began = report.began
  BY <1>4, <1>5, QueryKeeps
<1>7. report'.reviewsToday = fields.reviewsToday /\ report'.objective = fields.objective
      /\ report'.successful = fields.successful
  <2>1. \A x \in DOMAIN fields : report'[x] = fields[x]
    BY <1>4, ReportJoined
  <2> QED BY <1>5, <2>1
<1>8. fields.reviewsToday = CountOf(reviews, {day}, ReviewKind) /\ fields.objective = CountOf(reviews, {day}, Judged)
      /\ fields.successful = CountOf(reviews, {day}, Progress!Correct(Judged))
  BY <1>1, CountsReviews
<1>9. {day} \in SUBSET Progress!Days /\ reviews \in Table
      /\ Judged \in SUBSET ReviewKind /\ Progress!Correct(Judged) \in SUBSET Judged
  BY DEF TablesInv, Progress!In, Progress!Correct
<1>10. /\ CountOf(reviews, {day}, ReviewKind) \in Nat
       /\ CountOf(reviews, {day}, Judged) \in Nat
       /\ CountOf(reviews, {day}, Progress!Correct(Judged)) \in Nat
       /\ CountOf(reviews, {day}, Progress!Correct(Judged)) <= CountOf(reviews, {day}, Judged)
  <2> HIDE DEF Judged
  <2>1. \A d \in {day} : \A k \in Progress!Correct(Judged) : reviews[d][k] > 0 => reviews[d][k] <= reviews[d][k]
    BY <1>9 DEF Table
  <2>2. CountOf(reviews, {day}, ReviewKind) \in Nat
    BY <1>9, CountIsNatural
  <2> QED BY <1>9, <2>1, <2>2, CountsGrow
<1>11. held' => report'.reviewsToday <= CountOf(reviews', {report'.began}, ReviewKind)
  <2>1. held => report.began = day
    BY DEF BeganOK
  <2> QED BY <1>4, <1>6, <1>7, <1>8, <1>10, <2>1
<1>12. TodayOK'
  BY <1>5, <1>6, <1>7, <1>8, <1>10, <1>11 DEF TodayOK, Has, Known
<1> QED BY <1>4, <1>5, <1>12 DEF Adds

LEMMA SameCardinality == \A Base : Progress!Cardinality(Base) = Cardinality(Base)
  BY Zenon DEF Cardinality, Progress!Cardinality

LEMMA RetainedAnswer ==
  ASSUME Dated, TablesInv, BeganOK, Progress!ReadRetained
  PROVE  Adds("retained", "weekly", {"retained"}) /\ RetainedOK'
<1> DEFINE Answered(w) == {k \in Progress!Correct(Progress!In({"recall"})) :
                             k.word = w /\ k.known /\ k.session \in {"review", Nothing}}
           week == Progress!WeekOf(day, 0)
           RecalledIn(days) == {w \in Progress!Words : Progress!Count(days, Answered(w)) > 0}
<1>2. PICK words : words = RecalledIn(week) \cap RecalledIn({d \in Progress!Days : d < Progress!Min(week)})
  OBVIOUS
<1>3. PICK fields : fields = [retained |-> Cardinality(words)]
  OBVIOUS
<1>4. Progress!Query("retained", fields)
  <2>1. Progress!Query("retained", [retained |-> Progress!Cardinality(RecalledIn(week) \cap
                                    RecalledIn({d \in Progress!Days : d < Progress!Min(week)}))])
    BY DEF Progress!ReadRetained
  <2> HIDE DEF RecalledIn, week
  <2> QED BY <1>2, <1>3, <2>1, SameCardinality
<1>5. \E i \in 1 .. 11 : Progress!Steps[i] = "retained" /\ Progress!Steps[i + 1] = "weekly"
  <2>1. Progress!Steps[3] = "retained" /\ Progress!Steps[3 + 1] = "weekly"
    BY DEF Progress!Steps
  <2> QED BY <2>1
<1>6. /\ step = "retained" /\ step' = "weekly" /\ UNCHANGED <<day, reviews, scenarios, held, told>>
      /\ report' = Progress!Joined(fields, report)
  BY <1>4, <1>5, QueryAnswers
<1>7. DOMAIN fields = {"retained"}
  BY <1>3
<1>8. BeganOK' /\ DOMAIN fields \subseteq DOMAIN report' /\ report'.began = report.began /\ Week' = Week
  BY <1>6, <1>7, QueryKeeps
<1>9. report'.retained = Cardinality(words)
  <2>1. "retained" \in DOMAIN fields /\ fields["retained"] = Cardinality(words)
    BY <1>3
  <2> QED BY <1>6, <2>1, ReportJoined
<1>10. week \in SUBSET Progress!Days /\ Recalled \in SUBSET ReviewKind /\ reviews \in Table
  BY WeekIsOfDays DEF TablesInv, Recalled, Recall, Progress!In, Progress!Correct
<1>11. \A w \in words : \E d \in week : \E k \in Recalled : k.word = w /\ reviews[d][k] > 0
  <2>1. TAKE w \in words
  <2>2. Answered(w) \in SUBSET ReviewKind
    BY DEF Progress!In, Progress!Correct
  <2>3. CountOf(reviews, week, Answered(w)) > 0
    BY <1>2, CountsReviews
  <2>4. \E d \in week : \E k \in Answered(w) : reviews[d][k] > 0
    <3> HIDE DEF Answered
    <3> QED BY <1>10, <2>2, <2>3, CountOfSome
  <2> QED BY <2>4 DEF Recalled, Recall
<1>12. IsFiniteSet(words) /\ Cardinality(words) <= CountOf(reviews, week, Recalled)
  BY <1>10, <1>11, WordsAreReviewed
<1>13. Cardinality(words) \in Nat
  BY <1>12, FS_CardinalityType
<1>14. held => week = Week
  BY DEF BeganOK, Week
<1>15. RetainedOK'
  BY <1>6, <1>7, <1>8, <1>9, <1>12, <1>13, <1>14 DEF RetainedOK, Has, Known
<1> QED BY <1>6, <1>7, <1>15 DEF Adds

LEMMA WeeklyAnswer ==
  ASSUME Dated, TablesInv, BeganOK, TodayOK, RetainedOK, Progress!ReadWeekly
  PROVE  Adds("weekly", "trend", {"recall", "previous", "choice", "reviews"}) /\ WeeklyOK'
<1>1. PICK recall : recall = Progress!Evidence(Week, Recall)
  OBVIOUS
<1>2. PICK previous : previous = Progress!Evidence(Progress!WeekOf(report.began, 1), Recall)
  OBVIOUS
<1>3. PICK choice : choice = Progress!Evidence(Week, Progress!In({"choice"}))
  OBVIOUS
<1>4. PICK count : count = Progress!Count(Week, ReviewKind)
  OBVIOUS
<1>5. PICK fields : fields = [recall |-> recall, previous |-> previous, choice |-> choice, reviews |-> count]
  OBVIOUS
<1>6. Progress!Query("weekly", fields)
  BY <1>1, <1>2, <1>3, <1>4, <1>5 DEF Progress!ReadWeekly, Week, Recall
<1>7. \E i \in 1 .. 11 : Progress!Steps[i] = "weekly" /\ Progress!Steps[i + 1] = "trend"
  <2>1. Progress!Steps[4] = "weekly" /\ Progress!Steps[4 + 1] = "trend"
    BY DEF Progress!Steps
  <2> QED BY <2>1
<1>8. /\ step = "weekly" /\ step' = "trend" /\ UNCHANGED <<day, reviews, scenarios, held, told>>
      /\ report' = Progress!Joined(fields, report)
  BY <1>6, <1>7, QueryAnswers
<1>9. DOMAIN fields = {"recall", "previous", "choice", "reviews"}
  BY <1>5
<1>10. BeganOK' /\ DOMAIN fields \subseteq DOMAIN report' /\ report'.began = report.began /\ Week' = Week
  BY <1>8, <1>9, QueryKeeps
<1>11. report'.recall = recall /\ report'.previous = previous /\ report'.choice = choice /\ report'.reviews = count
  <2>1. fields["recall"] = recall /\ fields["previous"] = previous /\ fields["choice"] = choice
        /\ fields["reviews"] = count
    BY <1>5
  <2>2. \A x \in DOMAIN fields : report'[x] = fields[x]
    BY <1>8, ReportJoined
  <2> QED BY <1>9, <2>1, <2>2
<1>12. report'.retained = report.retained /\ report'.reviewsToday = report.reviewsToday
  <2>1. {"retained", "reviewsToday"} \subseteq DOMAIN report \ DOMAIN fields
    BY <1>9 DEF TodayOK, RetainedOK, Has
  <2>2. \A x \in DOMAIN report \ DOMAIN fields : report'[x] = report[x]
    BY <1>8, ReportJoined
  <2> QED BY <2>1, <2>2
<1>13. /\ reviews \in Table /\ Week \in SUBSET Progress!Days /\ report.began \in Week
       /\ Progress!WeekOf(report.began, 1) \in SUBSET Progress!Days
       /\ Recall \in SUBSET ReviewKind /\ Recalled \in SUBSET Recall /\ Progress!In({"choice"}) \in SUBSET ReviewKind
  BY WeekIsOfDays DEF BeganOK, TablesInv, Week, Recall, Recalled, Progress!In, Progress!Correct
<1>14. /\ Evident(recall) /\ Evident(previous) /\ Evident(choice)
       /\ recall.attempts = CountOf(reviews, Week, Recall) /\ recall.successful = CountOf(reviews, Week, Recalled)
  BY <1>1, <1>2, <1>3, <1>13, EvidenceHolds DEF Recalled
<1>15. CountOf(reviews, {report.began}, ReviewKind) \in Nat
       /\ count \in Nat /\ CountOf(reviews, {report.began}, ReviewKind) <= count
  <2>1. \A d \in {report.began} : \A k \in ReviewKind : reviews[d][k] > 0 => reviews[d][k] <= reviews[d][k]
    BY <1>13 DEF Table
  <2>2. {report.began} \in SUBSET Week /\ ReviewKind \in SUBSET ReviewKind
    BY <1>13
  <2>3. count = CountOf(reviews, Week, ReviewKind)
    BY <1>4, CountsReviews
  <2> QED BY <1>13, <2>1, <2>2, <2>3, CountsGrow
<1>16. recall.successful < recall.attempts => Erred
  BY <1>13, <1>14, ExceedingCount DEF Erred
<1>17. Erred' <=> Erred
  BY <1>8, <1>10 DEF Erred
<1>18. ASSUME held'
       PROVE  /\ report'.retained <= report'.recall.successful
              /\ report'.reviewsToday <= report'.reviews
              /\ report'.recall.attempts <= Known(Week, Recall)'
              /\ report'.recall.successful < report'.recall.attempts => Erred'
  <2>1. report.retained <= recall.successful
    BY <1>8, <1>14, <1>18 DEF RetainedOK, Known
  <2>2. report.reviewsToday <= count
    BY <1>8, <1>15, <1>18 DEF TodayOK, Known
  <2>3. recall.attempts <= Known(Week, Recall)'
    <3>1. Known(Week, Recall)' = CountOf(reviews, Week, Recall)
      BY <1>8, <1>10 DEF Known
    <3> QED BY <1>14, <3>1 DEF Evident
  <2> QED BY <1>11, <1>12, <1>16, <1>17, <2>1, <2>2, <2>3
<1>19. WeeklyOK'
  BY <1>9, <1>10, <1>11, <1>14, <1>18 DEF WeeklyOK, Has, Evident
<1> QED BY <1>8, <1>9, <1>19 DEF Adds

LEMMA TrendAnswer ==
  ASSUME Dated, TablesInv, BeganOK, WeeklyOK, Progress!ReadTrend
  PROVE  Adds("trend", "topics", {"trend"}) /\ TrendOK'
<1> DEFINE Day(i) == {DaysOfWeek * (report.began \div DaysOfWeek) + i - 1} \cap Progress!WeekOf(report.began, 0)
<1>1. PICK trend : trend = [i \in 1 .. DaysOfWeek |-> Progress!Evidence(Day(i), Recall)]
  OBVIOUS
<1>2. PICK fields : fields = [trend |-> trend]
  OBVIOUS
<1>3. Progress!Query("trend", fields)
  <2>1. Progress!Query("trend", [trend |-> [i \in 1 .. DaysOfWeek |-> Progress!Evidence(Day(i), Progress!In({"recall"}))]])
    BY DEF Progress!ReadTrend
  <2> HIDE DEF Day
  <2> QED BY <1>1, <1>2, <2>1 DEF Recall
<1>4. \E i \in 1 .. 11 : Progress!Steps[i] = "trend" /\ Progress!Steps[i + 1] = "topics"
  <2>1. Progress!Steps[5] = "trend" /\ Progress!Steps[5 + 1] = "topics"
    BY DEF Progress!Steps
  <2> QED BY <2>1
<1>5. /\ step = "trend" /\ step' = "topics" /\ UNCHANGED <<day, reviews, scenarios, held, told>>
      /\ report' = Progress!Joined(fields, report)
  BY <1>3, <1>4, QueryAnswers
<1>6. DOMAIN fields = {"trend"}
  BY <1>2
<1>7. BeganOK' /\ DOMAIN fields \subseteq DOMAIN report' /\ report'.began = report.began /\ Week' = Week
  BY <1>5, <1>6, QueryKeeps
<1>8. report'.trend = trend /\ report'.recall = report.recall
  <2>1. "recall" \in DOMAIN report \ DOMAIN fields /\ fields["trend"] = trend
    BY <1>2, <1>6 DEF WeeklyOK, Has
  <2>2. \A x \in DOMAIN fields : report'[x] = fields[x]
    BY <1>5, ReportJoined
  <2>3. \A x \in DOMAIN report \ DOMAIN fields : report'[x] = report[x]
    BY <1>5, ReportJoined
  <2> QED BY <1>6, <2>1, <2>2, <2>3
<1>9. reviews \in Table /\ Recall \in SUBSET ReviewKind /\ report.began \in Progress!Days
      /\ \A i : Day(i) \in SUBSET Progress!Days
  BY WeekIsOfDays DEF BeganOK, TablesInv, Recall, Progress!In
<1>10. \A i \in 1 .. DaysOfWeek : trend[i] = Progress!Evidence(Day(i), Recall)
  <2> HIDE DEF Day
  <2> QED BY <1>1
<1>11. \A i \in 1 .. DaysOfWeek : Evident(trend[i]) /\ trend[i].attempts = CountOf(reviews, Day(i), Recall)
  <2> HIDE DEF Day
  <2>1. TAKE i \in 1 .. DaysOfWeek
  <2>2. PICK days : days = Day(i)
    OBVIOUS
  <2> QED BY <1>9, <1>10, <2>2, EvidenceHolds
<1>12. DOMAIN trend = 1 .. DaysOfWeek /\ Len(trend) = DaysOfWeek
  <2> HIDE DEF Day
  <2>1. DaysOfWeek \in Nat /\ DOMAIN trend = 1 .. DaysOfWeek
    BY <1>1 DEF Dated
  <2>2. trend \in Seq({trend[i] : i \in 1 .. DaysOfWeek})
    BY <1>1, <2>1
  <2> QED BY <2>1, <2>2
<1>13. PICK g : g = [i \in 1 .. DaysOfWeek |-> CountOf(reviews, Day(i), Recall)]
  OBVIOUS
<1>14. CountOf(reviews, Progress!WeekOf(report.began, 0), Recall) <= SumOf(g)
  BY <1>9, <1>13, TrendCountsWeek
<1>15. [i \in DOMAIN trend |-> trend[i].attempts] = g
  <2> HIDE DEF Day
  <2> QED BY <1>11, <1>12, <1>13
<1>16. CountOf(reviews, Week, Recall) \in Nat /\ SumOf(g) \in Int
  <2>1. Week \in SUBSET Progress!Days
    BY <1>9, WeekIsOfDays DEF Week
  <2>2. CountOf(reviews, Week, Recall) \in Nat
    BY <1>9, <2>1, CountIsNatural
  <2>3. g \in [1 .. DaysOfWeek -> Nat]
    <3> HIDE DEF Day
    <3>1. \A i \in 1 .. DaysOfWeek : CountOf(reviews, Day(i), Recall) \in Nat
      BY <1>9, CountIsNatural
    <3> QED BY <1>13, <3>1
  <2>4. IsFiniteSet(1 .. DaysOfWeek)
    BY FS_Interval DEF Dated
  <2>5. SumOf(g) \in Nat
    <3>1. PICK s : Tallies(s, g, 1 .. DaysOfWeek) /\ SumOf(g) = s[1 .. DaysOfWeek]
      BY <2>3, <2>4, SumTally
    <3>2. s \in [SUBSET (1 .. DaysOfWeek) -> Nat]
      BY <3>1 DEF Tallies
    <3> QED BY <3>1, <3>2
  <2> QED BY <2>2, <2>5
<1>17. held' => report'.recall.attempts <= SumOf([i \in DOMAIN trend |-> trend[i].attempts])
  BY <1>5, <1>8, <1>14, <1>15, <1>16 DEF WeeklyOK, Known, Evident, Week
<1>18. TrendOK'
  BY <1>6, <1>7, <1>8, <1>11, <1>12, <1>17 DEF TrendOK, Has
<1> QED BY <1>5, <1>6, <1>18 DEF Adds

\* Evidence that is given a name is evidence.
LEMMA NamedEvidence ==
  ASSUME NEW e, Evident(e), DOMAIN e = {"attempts", "successful", "rate"},
         NEW named, DOMAIN named \cap {"attempts", "successful", "rate"} = {}
  PROVE  Evident(Progress!Joined(named, e))
<1>1. PICK joined : joined = Progress!Joined(named, e)
  OBVIOUS
<1>2. \A x \in DOMAIN e \ DOMAIN named : Progress!Joined(named, e)[x] = e[x]
  BY JoinedFields, Zenon
<1>3. \A x \in DOMAIN e : joined[x] = e[x]
  BY <1>1, <1>2
<1>4. joined.attempts = e.attempts /\ joined.successful = e.successful /\ joined.rate = e.rate
  BY <1>3
<1> QED BY <1>1, <1>4 DEF Evident

LEMMA TopicsAnswer ==
  ASSUME Dated, TablesInv, BeganOK, WeeklyOK, Progress!ReadTopics
  PROVE  Adds("topics", "days", {"weak", "strong"}) /\ TopicsOK'
<1> DEFINE Asked(w) == {k \in Progress!In({"recall"}) : k.word = w}
           of(w) == Progress!Evidence(Progress!WeekOf(report.began, 0), Asked(w))
<1>1. PICK weak : weak = {Progress!Joined([topic |-> w], of(w)) :
                            w \in {w \in Progress!Words : of(w).attempts > of(w).successful}}
  OBVIOUS
<1>2. PICK strong : strong = {Progress!Joined([topic |-> w], of(w)) :
                                w \in {w \in Progress!Words :
                                         /\ of(w).attempts >= 2
                                         /\ \A v \in Progress!Words : of(v).attempts >= 2 => of(v).rate <= of(w).rate}}
  OBVIOUS
<1>3. PICK fields : fields = [weak |-> weak, strong |-> strong]
  OBVIOUS
<1>4. Progress!Query("topics", fields)
  <2>1. Progress!Query("topics",
          [weak |-> {Progress!Joined([topic |-> w], of(w)) :
                       w \in {w \in Progress!Words : of(w).attempts > of(w).successful}},
           strong |-> {Progress!Joined([topic |-> w], of(w)) :
                         w \in {w \in Progress!Words :
                                  /\ of(w).attempts >= 2
                                  /\ \A v \in Progress!Words : of(v).attempts >= 2 => of(v).rate <= of(w).rate}}])
    BY DEF Progress!ReadTopics
  <2> HIDE DEF of
  <2> QED BY <1>1, <1>2, <1>3, <2>1, Zenon
<1>5. \E i \in 1 .. 11 : Progress!Steps[i] = "topics" /\ Progress!Steps[i + 1] = "days"
  <2>1. Progress!Steps[6] = "topics" /\ Progress!Steps[6 + 1] = "days"
    BY DEF Progress!Steps
  <2> QED BY <2>1
<1>6. /\ step = "topics" /\ step' = "days" /\ UNCHANGED <<day, reviews, scenarios, held, told>>
      /\ report' = Progress!Joined(fields, report)
  BY <1>4, <1>5, QueryAnswers
<1>7. DOMAIN fields = {"weak", "strong"}
  BY <1>3
<1>8. BeganOK' /\ DOMAIN fields \subseteq DOMAIN report' /\ report'.began = report.began /\ Week' = Week
  BY <1>6, <1>7, QueryKeeps
<1>9. report'.weak = weak /\ report'.strong = strong /\ report'.recall = report.recall
  <2>1. "recall" \in DOMAIN report \ DOMAIN fields /\ fields["weak"] = weak /\ fields["strong"] = strong
    BY <1>3, <1>7 DEF WeeklyOK, Has
  <2>2. \A x \in DOMAIN fields : report'[x] = fields[x]
    BY <1>6, ReportJoined
  <2>3. \A x \in DOMAIN report \ DOMAIN fields : report'[x] = report[x]
    BY <1>6, ReportJoined
  <2> QED BY <1>7, <2>1, <2>2, <2>3
<1>10. /\ reviews \in Table /\ Week \in SUBSET Progress!Days /\ Recall \in SUBSET ReviewKind
       /\ \A w : Asked(w) \in SUBSET Recall
  BY WeekIsOfDays DEF BeganOK, TablesInv, Week, Recall, Progress!In
<1>11. \A w : /\ Evident(of(w)) /\ DOMAIN of(w) = {"attempts", "successful", "rate"}
              /\ of(w).attempts = CountOf(reviews, Week, Asked(w))
              /\ of(w).successful = CountOf(reviews, Week, Progress!Correct(Asked(w)))
  <2> HIDE DEF Asked
  <2>1. TAKE w
  <2>2. PICK kinds : kinds = Asked(w)
    OBVIOUS
  <2>3. kinds \in SUBSET ReviewKind
    BY <1>10, <2>2
  <2> QED BY <1>10, <2>2, <2>3, EvidenceHolds DEF Week
<1>12. \A w : Evident(Progress!Joined([topic |-> w], of(w)))
  <2> HIDE DEF of
  <2>1. TAKE w
  <2>2. PICK named : named = [topic |-> w]
    OBVIOUS
  <2>3. DOMAIN named \cap {"attempts", "successful", "rate"} = {}
    BY <2>2
  <2> QED BY <1>11, <2>2, <2>3, NamedEvidence
<1>13. \A e \in weak \cup strong : Evident(e)
  <2> HIDE DEF of
  <2> QED BY <1>1, <1>2, <1>12
<1>14. Erred => weak # {}
  <2>1. SUFFICES ASSUME Erred PROVE weak # {}
    OBVIOUS
  <2>2. PICK d \in Week, k \in Recall \ Recalled : reviews[d][k] > 0
    BY <2>1 DEF Erred
  <2>3. k \in Asked(k.word) \ Progress!Correct(Asked(k.word)) /\ k.word \in Progress!Words
    BY <1>10, <2>2 DEF Recall, Recalled, Progress!Correct, Progress!Words
  <2>4. Progress!Correct(Asked(k.word)) \in SUBSET Asked(k.word)
    BY DEF Progress!Correct
  <2>5. CountOf(reviews, Week, Progress!Correct(Asked(k.word))) < CountOf(reviews, Week, Asked(k.word))
    <3> HIDE DEF Asked
    <3>1. Asked(k.word) \in SUBSET ReviewKind
      BY <1>10
    <3> QED BY <1>10, <2>2, <2>3, <2>4, <3>1, CountsExceed
  <2>6. of(k.word).attempts > of(k.word).successful
    <3> HIDE DEF of, Asked
    <3> QED BY <1>11, <2>5 DEF Evident
  <2> HIDE DEF of
  <2> QED BY <1>1, <2>3, <2>6
<1>15. held' => (report'.recall.successful < report'.recall.attempts => report'.weak # {})
  BY <1>6, <1>9, <1>14 DEF WeeklyOK
<1>16. TopicsOK'
  BY <1>7, <1>8, <1>9, <1>13, <1>15 DEF TopicsOK, Has
<1> QED BY <1>6, <1>7, <1>16 DEF Adds

LEMMA DaysAnswer ==
  ASSUME Dated, TablesInv, BeganOK, TodayOK, Progress!ReadDays
  PROVE  Adds("days", "listening", {"current", "longest"}) /\ DaysOK'
<1>1. PICK days : days = Progress!Newest(Progress!ReviewDays)
  OBVIOUS
<1>2. PICK fields : fields = [current |-> Progress!Current(days, report.began), longest |-> Progress!Longest(days)]
  OBVIOUS
<1>3. Progress!Query("days", fields)
  BY <1>1, <1>2 DEF Progress!ReadDays
<1>4. \E i \in 1 .. 11 : Progress!Steps[i] = "days" /\ Progress!Steps[i + 1] = "listening"
  <2>1. Progress!Steps[7] = "days" /\ Progress!Steps[7 + 1] = "listening"
    BY DEF Progress!Steps
  <2> QED BY <2>1
<1>5. /\ step = "days" /\ step' = "listening" /\ UNCHANGED <<day, reviews, scenarios, held, told>>
      /\ report' = Progress!Joined(fields, report)
  BY <1>3, <1>4, QueryAnswers
<1>6. DOMAIN fields = {"current", "longest"}
  BY <1>2
<1>7. DOMAIN fields \subseteq DOMAIN report' /\ report'.began = report.began
  BY <1>5, <1>6, QueryKeeps
<1>8. /\ report'.current = Progress!Current(days, report.began) /\ report'.longest = Progress!Longest(days)
      /\ report'.reviewsToday = report.reviewsToday
  <2>1. "reviewsToday" \in DOMAIN report \ DOMAIN fields
        /\ fields["current"] = Progress!Current(days, report.began) /\ fields["longest"] = Progress!Longest(days)
    BY <1>2, <1>6 DEF TodayOK, Has
  <2>2. \A x \in DOMAIN fields : report'[x] = fields[x]
    BY <1>5, ReportJoined
  <2>3. \A x \in DOMAIN report \ DOMAIN fields : report'[x] = report[x]
    BY <1>5, ReportJoined
  <2> QED BY <1>6, <2>1, <2>2, <2>3
<1>9. days \in SUBSET Progress!ReviewDays /\ days \in SUBSET Progress!Days /\ report.began \in Progress!Days
  BY <1>1 DEF BeganOK, Progress!Newest, Progress!ReviewDays
<1>10. reviews \in Table
  BY DEF TablesInv
<1>11. \A d \in Progress!ReviewDays : \E k \in ReviewKind : reviews[d][k] > 0
  <2>1. TAKE d \in Progress!ReviewDays
  <2>2. d \in Progress!Days /\ CountOf(reviews, {d}, ReviewKind) > 0
    BY CountsReviews DEF Progress!ReviewDays
  <2>3. {d} \in SUBSET Progress!Days /\ ReviewKind \in SUBSET ReviewKind
    BY <2>2
  <2> QED BY <1>10, <2>2, <2>3, CountOfSome
<1>12. \A d \in days : d <= day
  <2>1. TAKE d \in days
  <2>2. d \in Progress!Days /\ \E k \in ReviewKind : reviews[d][k] > 0
    BY <1>9, <1>11
  <2>3. day \in Nat /\ d \in Nat
    BY <2>2 DEF TablesInv, Progress!Days
  <2> QED BY <2>2, <2>3 DEF TablesInv
<1>13. ASSUME held, report.reviewsToday > 0 PROVE report.began \in days
  <2>1. report.began = day /\ CountOf(reviews, {day}, ReviewKind) > 0
    <3>1. report.began = day /\ report.reviewsToday <= CountOf(reviews, {day}, ReviewKind)
      BY <1>13 DEF BeganOK, TodayOK, Known
    <3>2. CountOf(reviews, {day}, ReviewKind) \in Nat
      <4>1. {day} \in SUBSET Progress!Days /\ ReviewKind \in SUBSET ReviewKind
        BY DEF TablesInv
      <4> QED BY <1>10, <4>1, CountIsNatural
    <3> QED BY <1>13, <3>1, <3>2 DEF TodayOK
  <2>2. day \in Progress!ReviewDays
    BY <2>1, CountsReviews DEF Progress!ReviewDays, TablesInv
  <2>3. {e \in Progress!ReviewDays : e > day} = {}
    <3>1. SUFFICES ASSUME NEW e \in Progress!ReviewDays, e > day PROVE FALSE
      OBVIOUS
    <3>2. e \in Progress!Days /\ \E k \in ReviewKind : reviews[e][k] > 0
      BY <1>11 DEF Progress!ReviewDays
    <3> QED BY <3>1, <3>2 DEF TablesInv
  <2>4. Progress!Cardinality({}) = 0
    BY FS_EmptySet, SameCardinality
  <2>5. 0 < StreakLimit
    BY DEF Dated
  <2> QED BY <1>1, <2>1, <2>2, <2>3, <2>4, <2>5 DEF Progress!Newest
<1>14. held => report.began = day
  BY DEF BeganOK
<1>15. DaysOK'
  <2>1. Progress!Current(days, report.began) <= Progress!Longest(days)
    BY <1>9, StreaksAgree
  <2>2. held /\ report.reviewsToday > 0 => Progress!Current(days, report.began) > 0
    BY <1>9, <1>12, <1>13, <1>14, StreaksAgree
  <2> QED BY <1>5, <1>6, <1>7, <1>8, <2>1, <2>2 DEF DaysOK, Has
<1> QED BY <1>5, <1>6, <1>15 DEF Adds

LEMMA ListeningAnswer ==
  ASSUME Dated, TablesInv, BeganOK, TodayOK, Progress!ReadListening
  PROVE  Adds("listening", "parts", {"listening", "objective", "successful"}) /\ TodayOK'
<1>1. PICK asked : asked = Progress!Evidence({day}, Progress!In({"listening"}))
  OBVIOUS
<1>2. PICK fields : fields = [listening |-> asked, objective |-> report.objective + asked.attempts,
                              successful |-> report.successful + asked.successful]
  OBVIOUS
<1>3. Progress!Query("listening", fields)
  BY <1>1, <1>2 DEF Progress!ReadListening
<1>4. \E i \in 1 .. 11 : Progress!Steps[i] = "listening" /\ Progress!Steps[i + 1] = "parts"
  <2>1. Progress!Steps[8] = "listening" /\ Progress!Steps[8 + 1] = "parts"
    BY DEF Progress!Steps
  <2> QED BY <2>1
<1>5. /\ step = "listening" /\ step' = "parts" /\ UNCHANGED <<day, reviews, scenarios, held, told>>
      /\ report' = Progress!Joined(fields, report)
  BY <1>3, <1>4, QueryAnswers
<1>6. DOMAIN fields = {"listening", "objective", "successful"}
  BY <1>2
<1>7. DOMAIN fields \subseteq DOMAIN report' /\ report'.began = report.began
  BY <1>5, <1>6, QueryKeeps
<1>8. Evident(asked)
  <2>1. {day} \in SUBSET Progress!Days /\ Progress!In({"listening"}) \in SUBSET ReviewKind
    BY DEF TablesInv, Progress!In
  <2> QED BY <1>1, <2>1, EvidenceHolds
<1>9. /\ report'.objective = report.objective + asked.attempts
      /\ report'.successful = report.successful + asked.successful
      /\ report'.reviewsToday = report.reviewsToday
  <2>1. "reviewsToday" \in DOMAIN report \ DOMAIN fields
        /\ fields["objective"] = report.objective + asked.attempts
        /\ fields["successful"] = report.successful + asked.successful
    BY <1>2, <1>6 DEF TodayOK, Has
  <2>2. \A x \in DOMAIN fields : report'[x] = fields[x]
    BY <1>5, ReportJoined
  <2>3. \A x \in DOMAIN report \ DOMAIN fields : report'[x] = report[x]
    BY <1>5, ReportJoined
  <2> QED BY <1>6, <2>1, <2>2, <2>3
<1>10. \A x \in DOMAIN report : x \in DOMAIN report'
  BY <1>5, <1>6, ReportJoined
<1>11. /\ report'.objective \in Nat /\ report'.successful \in Nat /\ report'.successful <= report'.objective
  BY <1>8, <1>9 DEF TodayOK, Evident
<1>12. TodayOK'
  BY <1>5, <1>7, <1>9, <1>10, <1>11 DEF TodayOK, Has, Known
<1> QED BY <1>5, <1>6, <1>12 DEF Adds

LEMMA PartsAnswer ==
  ASSUME Dated, TablesInv, BeganOK, Progress!ReadParts
  PROVE  Adds("parts", "completed", {"weakParts"}) /\ PartsOK'
<1>1. PICK asked : asked = Progress!Evidence(Progress!WeekOf(day, 0), {k \in Progress!In({"recall"}) : k.word \in Noun})
  OBVIOUS
<1>2. PICK weak : weak = IF asked.attempts > asked.successful
                         THEN {Progress!Joined([part |-> "noun"], asked)} ELSE {}
  OBVIOUS
<1>3. PICK fields : fields = [weakParts |-> weak]
  OBVIOUS
<1>4. Progress!Query("parts", fields)
  BY <1>1, <1>2, <1>3 DEF Progress!ReadParts
<1>5. \E i \in 1 .. 11 : Progress!Steps[i] = "parts" /\ Progress!Steps[i + 1] = "completed"
  <2>1. Progress!Steps[9] = "parts" /\ Progress!Steps[9 + 1] = "completed"
    BY DEF Progress!Steps
  <2> QED BY <2>1
<1>6. /\ step = "parts" /\ step' = "completed" /\ UNCHANGED <<day, reviews, scenarios, held, told>>
      /\ report' = Progress!Joined(fields, report)
  BY <1>4, <1>5, QueryAnswers
<1>7. DOMAIN fields = {"weakParts"} /\ fields["weakParts"] = weak
  BY <1>3
<1>8. "weakParts" \in DOMAIN report' /\ report'.weakParts = weak
  BY <1>6, <1>7, ReportJoined
<1>9. Evident(asked) /\ DOMAIN asked = {"attempts", "successful", "rate"}
  <2>1. Progress!WeekOf(day, 0) \in SUBSET Progress!Days
    BY WeekIsOfDays DEF TablesInv
  <2>2. {k \in Progress!In({"recall"}) : k.word \in Noun} \in SUBSET ReviewKind
    BY DEF Progress!In
  <2> QED BY <1>1, <2>1, <2>2, EvidenceHolds
<1>10. Evident(Progress!Joined([part |-> "noun"], asked))
  <2>1. PICK named : named = [part |-> "noun"]
    OBVIOUS
  <2>2. DOMAIN named \cap {"attempts", "successful", "rate"} = {}
    BY <2>1
  <2> QED BY <1>9, <2>1, <2>2, NamedEvidence
<1>11. PartsOK'
  BY <1>2, <1>8, <1>10 DEF PartsOK, Has
<1> QED BY <1>6, <1>7, <1>11 DEF Adds

\* How often a scenario was completed, and the last day it was.
LEMMA CompletedDays ==
  ASSUME Dated, TablesInv, NEW s \in Scene, NEW D \in SUBSET Progress!Days
  PROVE  /\ Progress!Completed(s, D) \in Nat /\ Progress!Completed(s, Progress!Days) \in Nat
         /\ Progress!Completed(s, D) <= Progress!Completed(s, Progress!Days)
         /\ Progress!Completed(s, Progress!Days) > 0 =>
              \E d \in Progress!Days : scenarios[s].done[d] > 0
<1>1. PICK done : done = scenarios[s].done
  OBVIOUS
<1>2. done \in [Progress!Days -> Nat]
  BY <1>1 DEF TablesInv
<1>3. IsFiniteSet(Progress!Days) /\ IsFiniteSet(D)
  <2>1. IsFiniteSet(0 .. MaxDay)
    BY FS_Interval DEF Dated
  <2>2. IsFiniteSet(Progress!Days)
    BY <2>1 DEF Progress!Days
  <2> QED BY <2>2, FS_Subset
<1>4. PICK f : f = [d \in D |-> done[d]]
  OBVIOUS
<1>5. PICK g : g = [d \in Progress!Days |-> done[d]]
  OBVIOUS
<1>6. Progress!Completed(s, D) = SumOf(f) /\ Progress!Completed(s, Progress!Days) = SumOf(g)
  <2>1. Progress!Completed(s, D) = Progress!SumOf(f)
    BY <1>1, <1>4 DEF Progress!Completed
  <2>2. Progress!Completed(s, Progress!Days) = Progress!SumOf(g)
    BY <1>1, <1>5 DEF Progress!Completed
  <2> QED BY <2>1, <2>2, SameSum
<1>7. f \in [D -> Nat] /\ g \in [Progress!Days -> Nat]
  BY <1>2, <1>4, <1>5
<1>8. SumOf(f) \in Nat /\ SumOf(g) \in Nat /\ SumOf(f) <= SumOf(g)
  <2>1. PICK h : h = [d \in D |-> d]
    OBVIOUS
  <2>2. \A d \in D : f[d] > 0 => h[d] \in Progress!Days /\ f[d] <= g[h[d]]
    BY <1>2, <1>4, <1>5, <2>1
  <2>3. \A d, e \in D : f[d] > 0 /\ f[e] > 0 /\ h[d] = h[e] => d = e
    BY <2>1
  <2> QED BY <1>3, <1>7, <2>2, <2>3, SumsCompare
<1>9. ASSUME SumOf(g) > 0, \A d \in Progress!Days : ~ (done[d] > 0) PROVE FALSE
  <2>1. PICK z : z = [d \in {} |-> 0]
    OBVIOUS
  <2>2. z \in [{} -> Nat] /\ IsFiniteSet({})
    BY <2>1, FS_EmptySet
  <2>3. SumOf(z) = 0
    <3>1. PICK sums : Tallies(sums, z, {}) /\ SumOf(z) = sums[{}]
      BY <2>2, SumTally
    <3> QED BY <3>1 DEF Tallies
  <2>4. \A d \in Progress!Days : ~ (g[d] > 0)
    BY <1>5, <1>9
  <2>5. SumOf(g) <= SumOf(z)
    BY <1>3, <1>7, <2>2, <2>4, SumsCompare
  <2> QED BY <1>8, <1>9, <2>3, <2>5
<1> QED BY <1>1, <1>6, <1>8, <1>9

LEMMA CompletedAnswer ==
  ASSUME Dated, TablesInv, BeganOK, Progress!ReadCompleted
  PROVE  Adds("completed", "recommendation", {"completedTotal", "completedWeek"}) /\ CompletedOK'
<1>1. PICK f : f = [s \in Scene |-> Progress!Completed(s, Progress!WeekOf(day, 0))]
  OBVIOUS
<1>2. PICK g : g = [s \in Scene |-> Progress!Completed(s, Progress!Days)]
  OBVIOUS
<1>3. PICK fields : fields = [completedTotal |-> Progress!SumOf(g), completedWeek |-> Progress!SumOf(f)]
  OBVIOUS
<1>4. Progress!Query("completed", fields)
  BY <1>1, <1>2, <1>3 DEF Progress!ReadCompleted
<1>5. \E i \in 1 .. 11 : Progress!Steps[i] = "completed" /\ Progress!Steps[i + 1] = "recommendation"
  <2>1. Progress!Steps[10] = "completed" /\ Progress!Steps[10 + 1] = "recommendation"
    BY DEF Progress!Steps
  <2> QED BY <2>1
<1>6. /\ step = "completed" /\ step' = "recommendation" /\ UNCHANGED <<day, reviews, scenarios, held, told>>
      /\ report' = Progress!Joined(fields, report)
  BY <1>4, <1>5, QueryAnswers
<1>7. /\ DOMAIN fields = {"completedTotal", "completedWeek"}
      /\ fields["completedTotal"] = SumOf(g) /\ fields["completedWeek"] = SumOf(f)
  BY <1>3, SameSum
<1>8. /\ {"completedTotal", "completedWeek"} \subseteq DOMAIN report'
      /\ report'.completedTotal = SumOf(g) /\ report'.completedWeek = SumOf(f)
  <2>1. \A x \in DOMAIN fields : x \in DOMAIN report' /\ report'[x] = fields[x]
    BY <1>6, ReportJoined
  <2> QED BY <1>7, <2>1
<1>9. \A s \in Scene : /\ Progress!Completed(s, Progress!WeekOf(day, 0)) \in Nat
                       /\ Progress!Completed(s, Progress!Days) \in Nat
                       /\ Progress!Completed(s, Progress!WeekOf(day, 0)) <= Progress!Completed(s, Progress!Days)
  <2>1. Progress!WeekOf(day, 0) \in SUBSET Progress!Days
    BY WeekIsOfDays DEF TablesInv
  <2> QED BY <2>1, CompletedDays
<1>10. f \in [Scene -> Nat] /\ g \in [Scene -> Nat] /\ \A s \in Scene : f[s] <= g[s]
  BY <1>1, <1>2, <1>9
<1>11. SumOf(f) <= SumOf(g)
  <2>1. PICK h : h = [s \in Scene |-> s]
    OBVIOUS
  <2>2. \A s \in Scene : f[s] > 0 => h[s] \in Scene /\ f[s] <= g[h[s]]
    BY <1>10, <2>1
  <2>3. \A s, r \in Scene : f[s] > 0 /\ f[r] > 0 /\ h[s] = h[r] => s = r
    BY <2>1
  <2>4. IsFiniteSet(Scene)
    BY DEF Dated
  <2> QED BY <1>10, <2>2, <2>3, <2>4, SumsCompare
<1>12. CompletedOK'
  BY <1>8, <1>11 DEF CompletedOK, Has
<1> QED BY <1>6, <1>7, <1>12 DEF Adds

LEMMA RecommendationAnswer ==
  ASSUME Dated, TablesInv, BeganOK, Progress!ReadRecommendation
  PROVE  Adds("recommendation", "answered", {"recommended"}) /\ RecommendationOK'
<1> DEFINE open == {s \in Scene : scenarios[s].open}
           fresh == {s \in Scene : Progress!Completed(s, Progress!Days) = 0}
           longest == {s \in Scene : \A r \in Scene : Progress!LastCompleted(s) <= Progress!LastCompleted(r)}
           first == IF open # {} THEN [of |-> open, reason |-> "resume_in_progress"]
                    ELSE IF fresh # {} THEN [of |-> fresh, reason |-> "first_uncompleted"]
                    ELSE [of |-> longest, reason |-> "least_recently_completed"]
<1>1. PICK s \in first.of :
        Progress!Query("recommendation",
          [recommended |-> [reason |-> first.reason,
                            action |-> IF open # {} THEN "resume" ELSE "start",
                            completed |-> Progress!Completed(s, Progress!Days),
                            last |-> Progress!LastCompleted(s)]])
  BY DEF Progress!ReadRecommendation
<1>2. PICK named : named = [reason |-> first.reason,
                            action |-> IF open # {} THEN "resume" ELSE "start",
                            completed |-> Progress!Completed(s, Progress!Days),
                            last |-> Progress!LastCompleted(s)]
  OBVIOUS
<1>3. PICK fields : fields = [recommended |-> named]
  OBVIOUS
<1>4. Progress!Query("recommendation", fields)
  <2> HIDE DEF first, open
  <2> QED BY <1>1, <1>2, <1>3
<1>5. \E i \in 1 .. 11 : Progress!Steps[i] = "recommendation" /\ Progress!Steps[i + 1] = "answered"
  <2>1. Progress!Steps[11] = "recommendation" /\ Progress!Steps[11 + 1] = "answered"
    BY DEF Progress!Steps
  <2> QED BY <2>1
<1>6. /\ step = "recommendation" /\ step' = "answered" /\ UNCHANGED <<day, reviews, scenarios, held, told>>
      /\ report' = Progress!Joined(fields, report)
  BY <1>4, <1>5, QueryAnswers
<1>7. DOMAIN fields = {"recommended"} /\ fields["recommended"] = named
  BY <1>3
<1>8. report'.recommended = named
  BY <1>6, <1>7, ReportJoined
<1>9. Progress!IsRecommendation(named)
  <2>1. CASE open # {}
    <3>1. first.reason = "resume_in_progress"
      BY <2>1
    <3>2. named.reason = "resume_in_progress" /\ named.action = "resume"
      <4> HIDE DEF first, open
      <4> QED BY <1>2, <2>1, <3>1
    <3> QED BY <3>2 DEF Progress!IsRecommendation
  <2>2. CASE open = {} /\ fresh # {}
    <3>1. first.reason = "first_uncompleted" /\ first.of = fresh
      BY <2>2
    <3>2. Progress!Completed(s, Progress!Days) = 0
      BY <1>1, <3>1
    <3>3. Progress!LastCompleted(s) = Nothing
      BY <3>2 DEF Progress!LastCompleted
    <3>4. /\ named.reason = "first_uncompleted" /\ named.action = "start"
          /\ named.completed = 0 /\ named.last = Nothing
      <4> HIDE DEF first, open, fresh
      <4> QED BY <1>2, <2>2, <3>1, <3>2, <3>3
    <3> QED BY <3>4 DEF Progress!IsRecommendation
  <2>3. CASE open = {} /\ fresh = {}
    <3>1. first.reason = "least_recently_completed" /\ first.of = longest
      BY <2>3
    <3>2. s \in Scene /\ Progress!Completed(s, Progress!Days) # 0
      BY <1>1, <2>3, <3>1
    <3>3. Progress!Completed(s, Progress!Days) > 0 /\ \E d \in Progress!Days : scenarios[s].done[d] > 0
      BY <3>2, CompletedDays
    <3>4. PICK days : days = {d \in Progress!Days : scenarios[s].done[d] > 0}
      OBVIOUS
    <3>5. days \in SUBSET (0 .. MaxDay) /\ days # {} /\ MaxDay \in Nat
      BY <3>3, <3>4 DEF Progress!Days, Dated
    <3>6. Progress!Max(days) \in 0 .. MaxDay
      BY <3>5, LargestOne
    <3>7. Progress!LastCompleted(s) = Progress!Max(days)
      BY <3>2, <3>4 DEF Progress!LastCompleted
    <3>8. Progress!LastCompleted(s) # Nothing
      BY <3>6, <3>7 DEF Dated
    <3>9. /\ named.reason = "least_recently_completed" /\ named.action = "start"
          /\ named.completed > 0 /\ named.last # Nothing
      <4> HIDE DEF first, open, fresh
      <4> QED BY <1>2, <2>3, <3>1, <3>3, <3>8
    <3> QED BY <3>9 DEF Progress!IsRecommendation
  <2> HIDE DEF open, fresh, first
  <2> QED BY <2>1, <2>2, <2>3
<1>10. RecommendationOK'
  BY <1>8, <1>9 DEF RecommendationOK, Progress!IsRecommendation
<1> QED BY <1>6, <1>7, <1>10 DEF Adds

\* Each query has what those after it need, and leaves what those before it said.
LEMMA QueriesKeepAnswers ==
  ASSUME Dated, TablesInv, AnswersInv,
         \/ Progress!ReadProcesses \/ Progress!ReadToday \/ Progress!ReadRetained \/ Progress!ReadWeekly
         \/ Progress!ReadTrend \/ Progress!ReadTopics \/ Progress!ReadDays \/ Progress!ReadListening
         \/ Progress!ReadParts \/ Progress!ReadCompleted \/ Progress!ReadRecommendation
  PROVE  AnswersInv' /\ TablesInv' /\ told' = told /\ step # "answered"
<1> USE DEF AfterRecommendation, AfterCompleted, AfterParts, AfterListening, AfterDays, AfterTopics,
            AfterTrend, AfterWeekly, AfterRetained, AfterToday, AfterProcesses, AfterLoad
<1>1. ASSUME NEW name, NEW next, NEW names, Adds(name, next, names), BeganOK
      PROVE  /\ step = name /\ step' = next /\ told' = told /\ TablesInv'
             /\ \E fields : DOMAIN fields = names /\ report' = Progress!Joined(fields, report)
                            /\ UNCHANGED <<day, reviews, scenarios, held, told>>
  BY <1>1 DEF Adds, TablesInv
<1>2. CASE Progress!ReadProcesses
  <2>1. step = "processes"
    BY <1>2 DEF Progress!ReadProcesses, Progress!Query
  <2>2. BeganOK
    BY <2>1 DEF AnswersInv
  <2>3. step' = "today" /\ UNCHANGED <<day, reviews, scenarios, held, told>> /\ BeganOK' /\ ProcessesOK'
    BY <1>2, <2>2, ProcessesAnswer
  <2>4. AnswersInv'
    BY <2>3 DEF AnswersInv
  <2> QED BY <2>1, <2>3, <2>4 DEF TablesInv
<1>3. CASE Progress!ReadToday
  <2>1. step = "today"
    BY <1>3 DEF Progress!ReadToday, Progress!Query
  <2>2. BeganOK /\ ProcessesOK
    BY <2>1 DEF AnswersInv
  <2>3. /\ Adds("today", "retained", {"reviewsToday", "objective", "successful", "reviewsTotal"}) /\ TodayOK'
    BY <1>3, <2>2, TodayAnswer
  <2>4. PICK fields : /\ DOMAIN fields = {"reviewsToday", "objective", "successful", "reviewsTotal"}
                      /\ report' = Progress!Joined(fields, report)
                      /\ UNCHANGED <<day, reviews, scenarios, held, told>>
    BY <1>1, <2>2, <2>3
  <2>5. step' = "retained" /\ told' = told /\ TablesInv'
    BY <1>1, <2>2, <2>3
  <2>6. BeganOK' /\ ProcessesOK'
    BY <2>2, <2>4, QueryKeeps
  <2>7. AnswersInv'
    BY <2>3, <2>5, <2>6 DEF AnswersInv
  <2> QED BY <2>1, <2>5, <2>7
<1>4. CASE Progress!ReadRetained
  <2>1. step = "retained"
    BY <1>4 DEF Progress!ReadRetained, Progress!Query
  <2>2. BeganOK /\ ProcessesOK /\ TodayOK
    BY <2>1 DEF AnswersInv
  <2>3. Adds("retained", "weekly", {"retained"}) /\ RetainedOK'
    BY <1>4, <2>2, RetainedAnswer
  <2>4. PICK fields : /\ DOMAIN fields = {"retained"} /\ report' = Progress!Joined(fields, report)
                      /\ UNCHANGED <<day, reviews, scenarios, held, told>>
    BY <1>1, <2>2, <2>3
  <2>5. step' = "weekly" /\ told' = told /\ TablesInv'
    BY <1>1, <2>2, <2>3
  <2>6. BeganOK' /\ ProcessesOK' /\ TodayOK'
    BY <2>2, <2>4, QueryKeeps
  <2>7. AnswersInv'
    BY <2>3, <2>5, <2>6 DEF AnswersInv
  <2> QED BY <2>1, <2>5, <2>7
<1>5. CASE Progress!ReadWeekly
  <2>1. step = "weekly"
    BY <1>5 DEF Progress!ReadWeekly, Progress!Query
  <2>2. BeganOK /\ ProcessesOK /\ TodayOK /\ RetainedOK
    BY <2>1 DEF AnswersInv
  <2>3. Adds("weekly", "trend", {"recall", "previous", "choice", "reviews"}) /\ WeeklyOK'
    BY <1>5, <2>2, WeeklyAnswer
  <2>4. PICK fields : /\ DOMAIN fields = {"recall", "previous", "choice", "reviews"}
                      /\ report' = Progress!Joined(fields, report)
                      /\ UNCHANGED <<day, reviews, scenarios, held, told>>
    BY <1>1, <2>2, <2>3
  <2>5. step' = "trend" /\ told' = told /\ TablesInv'
    BY <1>1, <2>2, <2>3
  <2>6. BeganOK' /\ ProcessesOK' /\ TodayOK' /\ RetainedOK'
    BY <2>2, <2>4, QueryKeeps
  <2>7. AnswersInv'
    BY <2>3, <2>5, <2>6 DEF AnswersInv
  <2> QED BY <2>1, <2>5, <2>7
<1>6. CASE Progress!ReadTrend
  <2>1. step = "trend"
    BY <1>6 DEF Progress!ReadTrend, Progress!Query
  <2>2. BeganOK /\ ProcessesOK /\ TodayOK /\ RetainedOK /\ WeeklyOK
    BY <2>1 DEF AnswersInv
  <2>3. Adds("trend", "topics", {"trend"}) /\ TrendOK'
    BY <1>6, <2>2, TrendAnswer
  <2>4. PICK fields : /\ DOMAIN fields = {"trend"} /\ report' = Progress!Joined(fields, report)
                      /\ UNCHANGED <<day, reviews, scenarios, held, told>>
    BY <1>1, <2>2, <2>3
  <2>5. step' = "topics" /\ told' = told /\ TablesInv'
    BY <1>1, <2>2, <2>3
  <2>6. BeganOK' /\ ProcessesOK' /\ TodayOK' /\ RetainedOK' /\ WeeklyOK'
    BY <2>2, <2>4, QueryKeeps
  <2>7. AnswersInv'
    BY <2>3, <2>5, <2>6 DEF AnswersInv
  <2> QED BY <2>1, <2>5, <2>7
<1>7. CASE Progress!ReadTopics
  <2>1. step = "topics"
    BY <1>7 DEF Progress!ReadTopics, Progress!Query
  <2>2. BeganOK /\ ProcessesOK /\ TodayOK /\ RetainedOK /\ WeeklyOK /\ TrendOK
    BY <2>1 DEF AnswersInv
  <2>3. Adds("topics", "days", {"weak", "strong"}) /\ TopicsOK'
    BY <1>7, <2>2, TopicsAnswer
  <2>4. PICK fields : /\ DOMAIN fields = {"weak", "strong"} /\ report' = Progress!Joined(fields, report)
                      /\ UNCHANGED <<day, reviews, scenarios, held, told>>
    BY <1>1, <2>2, <2>3
  <2>5. step' = "days" /\ told' = told /\ TablesInv'
    BY <1>1, <2>2, <2>3
  <2>6. /\ BeganOK' /\ ProcessesOK' /\ TodayOK' /\ RetainedOK' /\ WeeklyOK'
        /\ TrendOK'
    BY <2>2, <2>4, QueryKeeps
  <2>7. AnswersInv'
    BY <2>3, <2>5, <2>6 DEF AnswersInv
  <2> QED BY <2>1, <2>5, <2>7
<1>8. CASE Progress!ReadDays
  <2>1. step = "days"
    BY <1>8 DEF Progress!ReadDays, Progress!Query
  <2>2. /\ BeganOK /\ ProcessesOK /\ TodayOK /\ RetainedOK /\ WeeklyOK /\ TrendOK
        /\ TopicsOK
    BY <2>1 DEF AnswersInv
  <2>3. Adds("days", "listening", {"current", "longest"}) /\ DaysOK'
    BY <1>8, <2>2, DaysAnswer
  <2>4. PICK fields : /\ DOMAIN fields = {"current", "longest"} /\ report' = Progress!Joined(fields, report)
                      /\ UNCHANGED <<day, reviews, scenarios, held, told>>
    BY <1>1, <2>2, <2>3
  <2>5. step' = "listening" /\ told' = told /\ TablesInv'
    BY <1>1, <2>2, <2>3
  <2>6. /\ BeganOK' /\ ProcessesOK' /\ TodayOK' /\ RetainedOK' /\ WeeklyOK'
        /\ TrendOK' /\ TopicsOK'
    BY <2>2, <2>4, QueryKeeps
  <2>7. AnswersInv'
    BY <2>3, <2>5, <2>6 DEF AnswersInv
  <2> QED BY <2>1, <2>5, <2>7
<1>9. CASE Progress!ReadListening
  <2>1. step = "listening"
    BY <1>9 DEF Progress!ReadListening, Progress!Query
  <2>2. /\ BeganOK /\ ProcessesOK /\ TodayOK /\ RetainedOK /\ WeeklyOK /\ TrendOK
        /\ TopicsOK /\ DaysOK
    BY <2>1 DEF AnswersInv
  <2>3. Adds("listening", "parts", {"listening", "objective", "successful"}) /\ TodayOK'
    BY <1>9, <2>2, ListeningAnswer
  <2>4. PICK fields : /\ DOMAIN fields = {"listening", "objective", "successful"} /\ report' = Progress!Joined(fields, report)
                      /\ UNCHANGED <<day, reviews, scenarios, held, told>>
    BY <1>1, <2>2, <2>3
  <2>5. step' = "parts" /\ told' = told /\ TablesInv'
    BY <1>1, <2>2, <2>3
  <2>6. /\ BeganOK' /\ ProcessesOK' /\ RetainedOK' /\ WeeklyOK' /\ TrendOK'
        /\ TopicsOK' /\ DaysOK'
    BY <2>2, <2>4, QueryKeeps
  <2>7. AnswersInv'
    BY <2>3, <2>5, <2>6 DEF AnswersInv
  <2> QED BY <2>1, <2>5, <2>7
<1>10. CASE Progress!ReadParts
  <2>1. step = "parts"
    BY <1>10 DEF Progress!ReadParts, Progress!Query
  <2>2. /\ BeganOK /\ ProcessesOK /\ TodayOK /\ RetainedOK /\ WeeklyOK /\ TrendOK
        /\ TopicsOK /\ DaysOK
    BY <2>1 DEF AnswersInv
  <2>3. Adds("parts", "completed", {"weakParts"}) /\ PartsOK'
    BY <1>10, <2>2, PartsAnswer
  <2>4. PICK fields : /\ DOMAIN fields = {"weakParts"} /\ report' = Progress!Joined(fields, report)
                      /\ UNCHANGED <<day, reviews, scenarios, held, told>>
    BY <1>1, <2>2, <2>3
  <2>5. step' = "completed" /\ told' = told /\ TablesInv'
    BY <1>1, <2>2, <2>3
  <2>6. /\ BeganOK' /\ ProcessesOK' /\ TodayOK' /\ RetainedOK' /\ WeeklyOK'
        /\ TrendOK' /\ TopicsOK' /\ DaysOK'
    BY <2>2, <2>4, QueryKeeps
  <2>7. AnswersInv'
    BY <2>3, <2>5, <2>6 DEF AnswersInv
  <2> QED BY <2>1, <2>5, <2>7
<1>11. CASE Progress!ReadCompleted
  <2>1. step = "completed"
    BY <1>11 DEF Progress!ReadCompleted, Progress!Query
  <2>2. /\ BeganOK /\ ProcessesOK /\ TodayOK /\ RetainedOK /\ WeeklyOK /\ TrendOK
        /\ TopicsOK /\ DaysOK /\ PartsOK
    BY <2>1 DEF AnswersInv
  <2>3. Adds("completed", "recommendation", {"completedTotal", "completedWeek"}) /\ CompletedOK'
    BY <1>11, <2>2, CompletedAnswer
  <2>4. PICK fields : /\ DOMAIN fields = {"completedTotal", "completedWeek"} /\ report' = Progress!Joined(fields, report)
                      /\ UNCHANGED <<day, reviews, scenarios, held, told>>
    BY <1>1, <2>2, <2>3
  <2>5. step' = "recommendation" /\ told' = told /\ TablesInv'
    BY <1>1, <2>2, <2>3
  <2>6. /\ BeganOK' /\ ProcessesOK' /\ TodayOK' /\ RetainedOK' /\ WeeklyOK'
        /\ TrendOK' /\ TopicsOK' /\ DaysOK' /\ PartsOK'
    BY <2>2, <2>4, QueryKeeps
  <2>7. AnswersInv'
    BY <2>3, <2>5, <2>6 DEF AnswersInv
  <2> QED BY <2>1, <2>5, <2>7
<1>12. CASE Progress!ReadRecommendation
  <2>1. step = "recommendation"
    BY <1>12 DEF Progress!ReadRecommendation, Progress!Query
  <2>2. /\ BeganOK /\ ProcessesOK /\ TodayOK /\ RetainedOK /\ WeeklyOK /\ TrendOK
        /\ TopicsOK /\ DaysOK /\ PartsOK /\ CompletedOK
    BY <2>1 DEF AnswersInv
  <2>3. Adds("recommendation", "answered", {"recommended"}) /\ RecommendationOK'
    BY <1>12, <2>2, RecommendationAnswer
  <2>4. PICK fields : /\ DOMAIN fields = {"recommended"} /\ report' = Progress!Joined(fields, report)
                      /\ UNCHANGED <<day, reviews, scenarios, held, told>>
    BY <1>1, <2>2, <2>3
  <2>5. step' = "answered" /\ told' = told /\ TablesInv'
    BY <1>1, <2>2, <2>3
  <2>6. /\ BeganOK' /\ ProcessesOK' /\ TodayOK' /\ RetainedOK' /\ WeeklyOK'
        /\ TrendOK' /\ TopicsOK' /\ DaysOK' /\ PartsOK' /\ CompletedOK'
    BY <2>2, <2>4, QueryKeeps
  <2>7. AnswersInv'
    BY <2>3, <2>5, <2>6 DEF AnswersInv
  <2> QED BY <2>1, <2>5, <2>7
<1> QED BY <1>2, <1>3, <1>4, <1>5, <1>6, <1>7, <1>8, <1>9, <1>10, <1>11, <1>12

\* What was answered stays true of tables that grow, and of those that shrink or of
\* another day nothing is said.
LEMMA TablesMove ==
  ASSUME Dated, TablesInv, AnswersInv, TablesInv', UNCHANGED <<step, report>>, held' => held /\ day' = day,
         held' => \A d \in Progress!Days : \A k \in ReviewKind : reviews[d][k] <= reviews'[d][k]
  PROVE  AnswersInv'
<1>1. Week' = Week
  BY DEF Week
<1>2. BeganOK => BeganOK'
  BY DEF BeganOK, Has
<1>3. ASSUME held', NEW D \in SUBSET Progress!Days, NEW K \in SUBSET ReviewKind
      PROVE  /\ CountOf(reviews, D, K) \in Nat /\ CountOf(reviews', D, K) \in Nat
             /\ CountOf(reviews, D, K) <= CountOf(reviews', D, K)
  <2>1. reviews \in Table /\ reviews' \in Table
    BY DEF TablesInv
  <2>2. PICK q : q = reviews'
    OBVIOUS
  <2>3. \A d \in D : \A k \in K : reviews[d][k] > 0 => reviews[d][k] <= q[d][k]
    BY <1>3, <2>2
  <2>4. q \in Table
    BY <2>1, <2>2
  <2>5. CountOf(reviews, D, K) \in Nat /\ CountOf(q, D, K) \in Nat /\ CountOf(reviews, D, K) <= CountOf(q, D, K)
    BY <2>1, <2>3, <2>4, CountsGrow
  <2> QED BY <2>2, <2>5
<1>4. BeganOK => Week \in SUBSET Progress!Days /\ {report.began} \in SUBSET Progress!Days
  BY WeekIsOfDays DEF BeganOK, Week
<1>5. ReviewKind \in SUBSET ReviewKind /\ Recall \in SUBSET ReviewKind /\ Recalled \in SUBSET ReviewKind
  BY DEF Recall, Recalled, Progress!In, Progress!Correct
<1>6. BeganOK /\ TodayOK => TodayOK'
  <2>1. SUFFICES ASSUME BeganOK, TodayOK PROVE TodayOK'
    OBVIOUS
  <2>2. held' => report.reviewsToday <= CountOf(reviews', {report.began}, ReviewKind)
    BY <1>3, <1>4, <1>5, <2>1 DEF TodayOK, Known
  <2> QED BY <2>1, <2>2 DEF TodayOK, Has, Known
<1>7. BeganOK /\ RetainedOK => RetainedOK'
  <2>1. SUFFICES ASSUME BeganOK, RetainedOK PROVE RetainedOK'
    OBVIOUS
  <2>2. held' => report.retained <= CountOf(reviews', Week, Recalled)
    BY <1>3, <1>4, <1>5, <2>1 DEF RetainedOK, Known
  <2> QED BY <1>1, <2>1, <2>2 DEF RetainedOK, Has, Known
<1>8. BeganOK /\ WeeklyOK => WeeklyOK'
  <2>1. SUFFICES ASSUME BeganOK, WeeklyOK PROVE WeeklyOK'
    OBVIOUS
  <2>2. held' => report.recall.attempts <= CountOf(reviews', Week, Recall)
    BY <1>3, <1>4, <1>5, <2>1 DEF WeeklyOK, Known, Evident
  <2>3. held' /\ Erred => Erred'
    <3>1. SUFFICES ASSUME held', Erred PROVE Erred'
      OBVIOUS
    <3>2. PICK d \in Week, k \in Recall \ Recalled : reviews[d][k] > 0
      BY <3>1 DEF Erred
    <3>3. d \in Progress!Days /\ k \in ReviewKind
      BY <1>4, <1>5, <2>1, <3>2
    <3>4. reviews[d][k] \in Nat /\ reviews'[d][k] \in Nat /\ reviews[d][k] <= reviews'[d][k]
      BY <3>1, <3>3 DEF TablesInv, Table
    <3>5. reviews'[d][k] > 0
      BY <3>2, <3>4
    <3> QED BY <1>1, <3>2, <3>5 DEF Erred
  <2>4. held' => held
    OBVIOUS
  <2>5. Has({"recall", "previous", "choice", "reviews"})'
    BY <2>1 DEF WeeklyOK, Has
  <2>6. Evident(report'.recall) /\ Evident(report'.previous) /\ Evident(report'.choice)
    BY <2>1 DEF WeeklyOK
  <2>7. held' => /\ report'.retained <= report'.recall.successful
                 /\ report'.reviewsToday <= report'.reviews
                 /\ report'.recall.attempts <= Known(Week, Recall)'
                 /\ report'.recall.successful < report'.recall.attempts => Erred'
    <3>1. Known(Week, Recall)' = CountOf(reviews', Week, Recall)
      BY <1>1 DEF Known
    <3> QED BY <2>1, <2>2, <2>3, <2>4, <3>1 DEF WeeklyOK
  <2> QED BY <2>5, <2>6, <2>7 DEF WeeklyOK, Evident
<1>9. (ProcessesOK => ProcessesOK') /\ (PartsOK => PartsOK')
  BY DEF ProcessesOK, PartsOK, Has, Evident
<1>10. (TrendOK => TrendOK') /\ (TopicsOK => TopicsOK') /\ (DaysOK => DaysOK') /\ (CompletedOK => CompletedOK')
  BY DEF TrendOK, TopicsOK, DaysOK, CompletedOK, Has, Evident
<1>11. RecommendationOK => RecommendationOK'
  BY DEF RecommendationOK, Progress!IsRecommendation
<1>12. step \in AfterProcesses => step \in AfterLoad
  BY DEF AfterLoad
<1>13. /\ step \in AfterToday => step \in AfterLoad
       /\ step \in AfterRetained => step \in AfterLoad
       /\ step \in AfterWeekly => step \in AfterLoad
  BY DEF AfterToday, AfterRetained, AfterWeekly, AfterProcesses, AfterLoad
<1> QED BY <1>2, <1>6, <1>7, <1>8, <1>9, <1>10, <1>11, <1>12, <1>13 DEF AnswersInv

\* Piece review is one more of its kind today.
LEMMA ReviewKeepsAnswers ==
  ASSUME Dated, TablesInv, AnswersInv, NEW k \in ReviewKind, Progress!Review(k)
  PROVE  TablesInv' /\ AnswersInv'
<1>1. /\ reviews' = [reviews EXCEPT ![day][k] = @ + 1]
      /\ UNCHANGED <<day, scenarios, step, report, held, told>>
  BY DEF Progress!Review
<1>2. reviews \in Table /\ day \in Progress!Days
  BY DEF TablesInv
<1>3. reviews' \in Table
  BY <1>1, <1>2 DEF Table
<1>4. \A d \in Progress!Days : \A l \in ReviewKind :
        /\ reviews[d][l] \in Nat
        /\ reviews'[d][l] = IF d = day /\ l = k THEN reviews[d][l] + 1 ELSE reviews[d][l]
  BY <1>1, <1>2 DEF Table
<1>5. \A d \in Progress!Days : d > day => d # day
  BY <1>2 DEF Dated, Progress!Days
<1>6. TablesInv'
  BY <1>1, <1>3, <1>4, <1>5 DEF TablesInv
<1>7. \A d \in Progress!Days : \A l \in ReviewKind : reviews[d][l] <= reviews'[d][l]
  BY <1>4
<1> QED BY <1>1, <1>6, <1>7, TablesMove

LEMMA OtherStepsKeepAnswers ==
  ASSUME Dated, TablesInv, AnswersInv,
         \/ \E w \in Progress!Words : Progress!DeleteWord(w)
         \/ \E s \in Scene : Progress!StartScenario(s) \/ Progress!CompleteScenario(s)
         \/ Progress!Midnight
  PROVE  TablesInv' /\ AnswersInv' /\ told' = told /\ step' = step
<1>1. reviews \in Table /\ day \in Progress!Days /\ MaxDay \in Nat
  BY DEF TablesInv, Dated
<1>2. ASSUME NEW w \in Progress!Words, Progress!DeleteWord(w) PROVE TablesInv' /\ AnswersInv'
  <2>1. /\ reviews' = [d \in Progress!Days |-> [k \in ReviewKind |-> IF k.word = w THEN 0 ELSE reviews[d][k]]]
        /\ held' = FALSE /\ UNCHANGED <<day, scenarios, step, report, told>>
    BY <1>2 DEF Progress!DeleteWord
  <2>2. reviews' \in Table
    BY <1>1, <2>1 DEF Table
  <2>3. \A d \in Progress!Days : d > day => \A k \in ReviewKind : reviews'[d][k] = 0
    BY <2>1 DEF TablesInv
  <2>4. TablesInv'
    BY <2>1, <2>2, <2>3 DEF TablesInv
  <2> QED BY <2>1, <2>4, TablesMove
<1>3. ASSUME NEW s \in Scene, Progress!StartScenario(s) PROVE TablesInv' /\ AnswersInv'
  <2>1. /\ scenarios' = [scenarios EXCEPT ![s].open = TRUE]
        /\ UNCHANGED <<day, reviews, step, report, held, told>>
    BY <1>3 DEF Progress!StartScenario
  <2>2. TablesInv'
    BY <2>1 DEF TablesInv
  <2>3. \A d \in Progress!Days : \A k \in ReviewKind : reviews[d][k] <= reviews'[d][k]
    BY <1>1, <2>1 DEF Table
  <2> QED BY <2>1, <2>2, <2>3, TablesMove
<1>4. ASSUME NEW s \in Scene, Progress!CompleteScenario(s) PROVE TablesInv' /\ AnswersInv'
  <2>1. /\ scenarios' = [scenarios EXCEPT ![s].open = FALSE, ![s].done[day] = @ + 1]
        /\ UNCHANGED <<day, reviews, step, report, held, told>>
    BY <1>4 DEF Progress!CompleteScenario
  <2>2. scenarios' \in [Scene -> [done : [Progress!Days -> Nat], open : BOOLEAN]]
    BY <1>1, <2>1 DEF TablesInv
  <2>3. TablesInv'
    BY <2>1, <2>2 DEF TablesInv
  <2>4. \A d \in Progress!Days : \A k \in ReviewKind : reviews[d][k] <= reviews'[d][k]
    BY <1>1, <2>1 DEF Table
  <2> QED BY <2>1, <2>3, <2>4, TablesMove
<1>5. ASSUME Progress!Midnight PROVE TablesInv' /\ AnswersInv'
  <2>1. /\ day < MaxDay /\ day' = day + 1 /\ held' = FALSE
        /\ UNCHANGED <<reviews, scenarios, step, report, told>>
    BY <1>5 DEF Progress!Midnight
  <2>2. day' \in Progress!Days /\ \A d \in Progress!Days : d > day' => d > day
    BY <1>1, <2>1 DEF Progress!Days
  <2>3. TablesInv'
    BY <2>1, <2>2 DEF TablesInv
  <2> QED BY <2>1, <2>3, TablesMove
<1> QED BY <1>2, <1>3, <1>4, <1>5
        DEF Progress!DeleteWord, Progress!StartScenario, Progress!CompleteScenario, Progress!Midnight

\* The client takes what the queries have answered.
LEMMA AnswersAreAccepted ==
  ASSUME Dated, AnswersInv, step = "answered"
  PROVE  Progress!Accepted
<1>1. /\ BeganOK /\ ProcessesOK /\ TodayOK /\ RetainedOK /\ WeeklyOK /\ TrendOK /\ TopicsOK /\ DaysOK
      /\ PartsOK /\ CompletedOK /\ RecommendationOK
  BY DEF AnswersInv, AfterRecommendation, AfterCompleted, AfterParts, AfterListening, AfterDays,
         AfterTopics, AfterTrend, AfterWeekly, AfterRetained, AfterToday, AfterProcesses, AfterLoad
<1>2. \A e : Evident(e) => Progress!IsEvidence(e)
  BY DEF Evident, Progress!IsEvidence, Progress!IsPercentage
<1>3. Progress!IsEvidence(report.recall) /\ Progress!IsEvidence(report.previous) /\ Progress!IsEvidence(report.choice)
  BY <1>1, <1>2 DEF WeeklyOK
<1>4. Len(report.trend) = DaysOfWeek /\ \A i \in 1 .. DaysOfWeek : Progress!IsEvidence(report.trend[i])
  BY <1>1, <1>2 DEF TrendOK
<1>5. \A e \in (report.weak \cup report.strong) \cup report.weakParts : Progress!IsEvidence(e)
  BY <1>1, <1>2 DEF TopicsOK, PartsOK
<1>6. Progress!IsEvidence(report.retention) /\ report.retention.successful <= report.retention.attempts
  BY <1>1, <1>2 DEF ProcessesOK, Evident
<1>7. report.completedWeek <= report.completedTotal /\ Progress!IsRecommendation(report.recommended)
  BY <1>1 DEF CompletedOK, RecommendationOK
<1> QED BY <1>3, <1>4, <1>5, <1>6, <1>7 DEF Progress!Accepted

LEMMA ProgressKept ==
  ASSUME Dated, ProgressInv, [Progress!Next]_(Progress!vars)
  PROVE  ProgressInv'
<1> USE DEF ProgressInv
<1>1. ASSUME Progress!Load PROVE ProgressInv'
  <2>1. /\ step = "idle" /\ step' = "processes" /\ report' = [began |-> day] /\ told' = "loading"
        /\ UNCHANGED <<day, reviews, scenarios>>
    BY <1>1 DEF Progress!Load
  <2>2. BeganOK' /\ TablesInv'
    BY <2>1 DEF BeganOK, Has, TablesInv
  <2>3. AnswersInv'
    BY <2>1, <2>2 DEF AnswersInv, AfterRecommendation, AfterCompleted, AfterParts, AfterListening, AfterDays,
           AfterTopics, AfterTrend, AfterWeekly, AfterRetained, AfterToday, AfterProcesses, AfterLoad
  <2> QED BY <2>1, <2>2, <2>3
<1>2. ASSUME \/ Progress!ReadProcesses \/ Progress!ReadToday \/ Progress!ReadRetained \/ Progress!ReadWeekly
             \/ Progress!ReadTrend \/ Progress!ReadTopics \/ Progress!ReadDays \/ Progress!ReadListening
             \/ Progress!ReadParts \/ Progress!ReadCompleted \/ Progress!ReadRecommendation
      PROVE  ProgressInv'
  BY <1>2, QueriesKeepAnswers
<1>3. ASSUME Progress!Show PROVE ProgressInv'
  <2>1. /\ step = "answered" /\ told' = IF ~ Progress!Accepted THEN "error"
                                       ELSE IF report.reviewsTotal = 0 THEN "empty" ELSE "report"
        /\ UNCHANGED <<day, reviews, scenarios, step, report, held>>
    BY <1>3 DEF Progress!Show
  <2>2. told' \in {"empty", "report"}
    BY <2>1, AnswersAreAccepted
  <2>3. TablesInv'
    BY <2>1 DEF TablesInv
  <2>4. \A d \in Progress!Days : \A k \in ReviewKind : reviews[d][k] <= reviews'[d][k]
    BY <2>1 DEF TablesInv, Table
  <2>5. AnswersInv'
    BY <2>1, <2>3, <2>4, TablesMove
  <2> QED BY <2>1, <2>2, <2>3, <2>5
<1>4. ASSUME NEW k \in ReviewKind, Progress!Review(k) PROVE ProgressInv'
  <2>1. TablesInv' /\ AnswersInv'
    BY <1>4, ReviewKeepsAnswers
  <2> QED BY <1>4, <2>1 DEF Progress!Review
<1>5. ASSUME \/ \E w \in Progress!Words : Progress!DeleteWord(w)
             \/ \E s \in Scene : Progress!StartScenario(s) \/ Progress!CompleteScenario(s)
             \/ Progress!Midnight
      PROVE  ProgressInv'
  BY <1>5, OtherStepsKeepAnswers
<1>6. ASSUME UNCHANGED Progress!vars PROVE ProgressInv'
  <2>1. UNCHANGED <<day, reviews, scenarios, step, report, held, told>>
    BY <1>6 DEF Progress!vars
  <2>2. TablesInv'
    BY <2>1 DEF TablesInv
  <2>3. \A d \in Progress!Days : \A k \in ReviewKind : reviews[d][k] <= reviews'[d][k]
    BY <2>1 DEF TablesInv, Table
  <2> QED BY <2>1, <2>2, <2>3, TablesMove
<1> QED BY <1>1, <1>2, <1>3, <1>4, <1>5, <1>6 DEF Progress!Next

LEMMA ProgressBegins == ASSUME Dated, Progress!Init PROVE ProgressInv
<1>1. TablesInv
  BY DEF Progress!Init, TablesInv, Table, Dated, Progress!Days
<1>2. AnswersInv
  BY DEF Progress!Init, AnswersInv, AfterRecommendation, AfterCompleted, AfterParts, AfterListening, AfterDays,
         AfterTopics, AfterTrend, AfterWeekly, AfterRetained, AfterToday, AfterProcesses, AfterLoad
<1> QED BY <1>1, <1>2 DEF ProgressInv, Progress!Init

LEMMA ProgressAgrees == ASSUME Dated, ProgressInv PROVE Progress!ReportHoldsTogether
<1>1. told # "error"
  BY DEF ProgressInv
<1>2. SUFFICES ASSUME told \in {"report", "empty"}
      PROVE  /\ Progress!IsPercentage(Progress!SuccessRate)
             /\ report.current <= report.longest
             /\ held => /\ report.reviewsToday > 0 => report.current > 0
                        /\ report.retained <= report.recall.successful
                        /\ report.recall.attempts <=
                             Progress!SumOf([i \in DOMAIN report.trend |-> report.trend[i].attempts])
                        /\ report.recall.successful < report.recall.attempts => report.weak # {}
                        /\ report.reviewsToday <= report.reviews
  BY <1>1 DEF Progress!ReportHoldsTogether
<1>3. step = "answered" /\ AnswersInv
  BY <1>2 DEF ProgressInv
<1>4. TodayOK /\ WeeklyOK /\ TrendOK /\ TopicsOK /\ DaysOK
  BY <1>3 DEF AnswersInv, AfterRecommendation, AfterCompleted, AfterParts, AfterListening, AfterDays,
         AfterTopics, AfterTrend, AfterWeekly, AfterRetained, AfterToday, AfterProcesses, AfterLoad
<1>5. Progress!IsPercentage(Progress!SuccessRate)
  <2>1. Progress!Percentage(report.successful, report.objective) \in 0 .. 100
    BY <1>4, ShareIsPercentage DEF TodayOK
  <2> QED BY <2>1 DEF Progress!IsPercentage, Progress!SuccessRate
<1>6. held => report.recall.attempts <=
                Progress!SumOf([i \in DOMAIN report.trend |-> report.trend[i].attempts])
  <2>1. PICK g : g = [i \in DOMAIN report.trend |-> report.trend[i].attempts]
    OBVIOUS
  <2>2. held => report.recall.attempts <= SumOf(g)
    BY <1>4, <2>1 DEF TrendOK
  <2> QED BY <2>1, <2>2, SameSum
<1> QED BY <1>4, <1>5, <1>6 DEF WeeklyOK, TopicsOK, DaysOK

\* repository.go (Progress) and lib/progress.ts: whatever is reviewed, deleted and
\* completed between the queries of a report, the client takes it; and unless a day
\* ends or a word is deleted meanwhile, its parts agree.
THEOREM PartsOfAReportAgree ==
  ASSUME Dated
  PROVE  Spec => []ReportHoldsTogether
<1> DEFINE I == Report => ProgressInv
<1>1. Init => I
  BY ProgressBegins DEF Init, Report
<1>2. I /\ [Next]_vars => I'
  BY PartSteps, ProgressKept DEF Report
<1>3. I => ReportHoldsTogether
  BY ProgressAgrees DEF ReportHoldsTogether
<1> QED BY <1>1, <1>2, <1>3, PTL DEF Spec

=============================================================================
