------------------------- MODULE ActiveLessonProofs -------------------------
(***************************************************************************)
(* What the lesson page shows, for any lessons of any length, any number    *)
(* of events and any order of replies: the card on screen follows the       *)
(* server, and a result is one of a completed lesson.                       *)
(*                                                                         *)
(* The page does not see to it that its requests come one at a time, so     *)
(* what is proved of the card is proved of a patient learner (Patient).     *)
(***************************************************************************)
EXTENDS ActiveLesson, Integers, TLAPS

\* The shape of the state.
Replies == Snapshot \cup {NotFound, Failed, Refused, Nothing}

PageState ==
  [mounted : BOOLEAN, phase : {"loading", "ready", "error"}, held : Snapshot \cup {NotFound},
   shown : Lesson \cup {NoLesson}, at : Nat, rated : SUBSET Word, started : BOOLEAN,
   complete : BOOLEAN, done : BOOLEAN, next : Nat, result : Lesson \cup {NoLesson},
   queued : Word \cup {NoWord}, reviewing : BOOLEAN, revealed : BOOLEAN, leaving : BOOLEAN,
   adrift : BOOLEAN]

CallState ==
  [review : Review, rated : SUBSET Word, own : BOOLEAN, again : BOOLEAN,
   at : {"sent", "got", "progress", "resync", "resynced"}, reply : Replies]

GetState == [kind : {"load", "resume"}, at : {"sent", "got"}, reply : Replies]

CreateState == [at : {"idle", "sent", "got"}, after : Lesson \cup {NoLesson}, reply : Replies]

\* The server: a lesson ends with its last item, and only so; a review with a
\* stored response has been taken.
ServerInv ==
  /\ status \in [Lesson -> {"absent", "active", "completed", "discarded"}]
  /\ index \in [Lesson -> Nat]
  /\ stored \subseteq Review /\ pending \subseteq Review
  /\ \A l \in Lesson : index[l] <= Size(l) /\ (index[l] = Size(l) => status[l] = "completed")
  /\ \A q \in stored : q.version <= index[q.lesson] /\ Items[q.lesson][q.version] = q.word

\* A lesson the server served while it was active, then or earlier.
Served(s) == s \in Snapshot => s.index < Size(s.id) /\ s.index <= index[s.id]

\* The reply to review q that says it is taken.
Taken(q, s) ==
  /\ s = After(q)
  /\ q.version <= index[q.lesson] /\ Items[q.lesson][q.version] = q.word

GetOK(g) ==
  /\ g \in GetState /\ Served(g.reply)
  /\ g.at = "got" => g.reply \in Snapshot \cup {NotFound, Failed}

CreateOK(c) == c \in CreateState /\ Served(c.reply)

CallOK(r) ==
  /\ r \in CallState
  /\ r.at = "resynced" => Served(r.reply)
  /\ r.at \in {"got", "progress"} /\ r.reply \in Snapshot => Taken(r.review, r.reply)
  /\ r.at = "progress" => r.reply \in Snapshot

RepliesInv ==
  /\ \A g \in gets : GetOK(g)
  /\ CreateOK(create)
  /\ \A r \in reviews : CallOK(r)

\* The page: the cards before the one on screen are rated, that one is when
\* its answer is saved, and no other card is.
Card(pg) == pg.mounted /\ pg.started /\ ~ pg.complete
Answered(pg) == IF pg.done \/ pg.next # 0 THEN pg.at + 1 ELSE pg.at

CardOK(pg) ==
  /\ Answered(pg) <= index[pg.shown]
  /\ pg.rated = {Items[pg.shown][p] : p \in 1 .. Answered(pg)}
  /\ pg.done => pg.at + 1 = Size(pg.shown)
  /\ pg.next # 0 => pg.next = pg.at + 1 /\ pg.next < Size(pg.shown)
  /\ ~ pg.done => pg.held.id = pg.shown

PageOK(pg) ==
  /\ pg \in PageState
  /\ Card(pg) => pg.shown \in Lesson /\ pg.at < Size(pg.shown)
  /\ Card(pg) /\ ~ pg.adrift => CardOK(pg)
  /\ pg.result # NoLesson => Completed(pg.result)
  /\ pg.started /\ pg.complete => pg.result # NoLesson

\* Until its reply is handled, a call of rateCurrent is about the card on screen.
AboutCard(pg, r) ==
  Card(pg) /\ ~ pg.adrift =>
    /\ r.review.lesson = pg.shown /\ r.review.word = Items[pg.shown][pg.at + 1]
    /\ r.rated = pg.rated
    /\ ~ pg.done /\ pg.next = 0

\* Reply s was to the last item of its lesson.
IsLast(s) == s.index = Size(s.id)

\* What the page is waiting for: one review, one resume or one create at a time,
\* as the learner is patient; the result of a lesson that is done is there or
\* about to be.
WorkInv ==
  /\ \A r \in reviews : r.own => page.reviewing /\ (r.at # "progress" => AboutCard(page, r))
  /\ \A r, s \in reviews : r.own /\ s.own => r = s
  /\ page.reviewing => /\ page.mounted /\ create.at = "idle"
                       /\ Card(page) \/ page.leaving
  /\ \A g \in gets : g.kind = "resume" =>
       ~ page.reviewing /\ create.at = "idle" /\ ~ Card(page)
  /\ \A g, h \in gets : g.kind = "resume" /\ h.kind = "resume" => g = h
  /\ page.done => \/ page.result # NoLesson
                  \/ \E r \in reviews : r.own /\ r.at = "progress" /\ IsLast(r.reply)

SavedInv == saved \in Lesson \cup {NoLesson} /\ (saved # NoLesson => Completed(saved))

Inv == ServerInv /\ RepliesInv /\ PageOK(page) /\ WorkInv /\ SavedInv

-----------------------------------------------------------------------------
(* The lessons and the replies                                              *)

LEMMA LessonFacts ==
  ASSUME NEW l \in Lesson
  PROVE  /\ l # NoLesson /\ Size(l) \in Nat \ {0}
         /\ \A p \in 1 .. Size(l) : Items[l][p] \in Word
         /\ \A p, q \in 1 .. Size(l) : Items[l][p] = Items[l][q] => p = q
<1>1. Items[l] \in Seq(Word) /\ Items[l] # <<>> /\ IsInjective(Items[l]) /\ l # NoLesson
  BY ActiveLessonAssumption
<1> QED BY <1>1 DEF Size, IsInjective

LEMMA NoLessonIsNone == NoLesson \notin Lesson /\ NoWord \notin Word
BY ActiveLessonAssumption

LEMMA ReplyFacts ==
  /\ NotFound \notin Snapshot /\ Failed \notin Snapshot /\ Refused \notin Snapshot
  /\ Nothing \notin Snapshot
  /\ NotFound # Failed /\ Refused # Failed /\ Refused # NotFound
  /\ NotFound.id = NoLesson
BY NoLessonIsNone DEF Snapshot, NotFound, Failed, Refused, Nothing

LEMMA AfterIsSnapshot ==
  ASSUME NEW q \in Review
  PROVE  After(q) \in Snapshot /\ After(q).id = q.lesson /\ After(q).index = q.version
BY DEF Review, After, Snapshot

\* The active lesson as the server serves it.
LEMMA ActiveIsServed ==
  ASSUME ServerInv
  PROVE  ActiveSnapshot \in Snapshot \cup {NotFound} /\ Served(ActiveSnapshot)
<1>1. CASE Active = {}
  BY <1>1, ReplyFacts DEF ActiveSnapshot, Served
<1>2. CASE Active # {}
  <2> DEFINE l == CHOOSE k \in Active : TRUE
  <2>1. l \in Active
    BY <1>2
  <2>2. ActiveSnapshot = [id |-> l, index |-> index[l]]
    BY <1>2 DEF ActiveSnapshot
  <2> HIDE DEF l
  <2>3. l \in Lesson /\ status[l] = "active" /\ index[l] \in Nat /\ index[l] <= Size(l)
        /\ (index[l] = Size(l) => status[l] = "completed")
    BY <2>1 DEF Active, ServerInv
  <2>4. Size(l) \in Nat
    BY <2>3, LessonFacts
  <2> QED BY <2>2, <2>3, <2>4 DEF Snapshot, Served
<1> QED BY <1>1, <1>2

-----------------------------------------------------------------------------
(* The server goes forward                                                  *)

Grows ==
  \A l \in Lesson : index[l] <= index'[l] /\ (status[l] = "completed" => status'[l] = "completed")

Lessons ==
  /\ status \in [Lesson -> {"absent", "active", "completed", "discarded"}]
  /\ index \in [Lesson -> Nat]
  /\ \A l \in Lesson : index[l] <= Size(l) /\ (index[l] = Size(l) => status[l] = "completed")

LEMMA CommitForward ==
  ASSUME Lessons, NEW q, q.lesson \in Lesson, q.version \in Nat, Commit(q)
  PROVE  Lessons' /\ Grows /\ q.version <= index'[q.lesson] /\ Items[q.lesson][q.version] = q.word
<1> DEFINE l == q.lesson
<1>1. /\ l \in Lesson /\ status[l] = "active" /\ q.version = index[l] + 1
      /\ index' = [index EXCEPT ![l] = q.version] /\ Items[l][q.version] = q.word
      /\ status' = IF q.version = Size(l) THEN [status EXCEPT ![l] = "completed"] ELSE status
  BY DEF Commit, Commits
<1>2. Size(l) \in Nat /\ index[l] \in Nat /\ index[l] < Size(l)
  BY <1>1, LessonFacts DEF Lessons
<1> HIDE DEF l
<1>3. \A k \in Lesson : index'[k] = IF k = l THEN q.version ELSE index[k]
  BY <1>1 DEF Lessons
<1>4. \A k \in Lesson : status'[k] = IF k = l /\ q.version = Size(l) THEN "completed" ELSE status[k]
  BY <1>1 DEF Lessons
<1>5. /\ status' \in [Lesson -> {"absent", "active", "completed", "discarded"}]
      /\ index' \in [Lesson -> Nat]
  BY <1>1 DEF Lessons
<1>6. \A k \in Lesson : index'[k] <= Size(k) /\ (index'[k] = Size(k) => status'[k] = "completed")
  BY <1>1, <1>2, <1>3, <1>4 DEF Lessons
<1>7. Grows
  BY <1>1, <1>2, <1>3, <1>4 DEF Lessons, Grows
<1>8. q.version <= index'[l]
  BY <1>1, <1>3
<1> QED BY <1>1, <1>5, <1>6, <1>7, <1>8 DEF Lessons, l

LEMMA TakeForward ==
  ASSUME ServerInv, NEW q \in Review, Take(q)
  PROVE  /\ Lessons' /\ Grows /\ stored' \subseteq Review /\ Taken(q, After(q))'
         /\ \A r \in stored' : r.version <= index'[r.lesson] /\ Items[r.lesson][r.version] = r.word
<1>1. Lessons /\ q.lesson \in Lesson /\ q.version \in Nat \ {0}
  BY DEF ServerInv, Lessons, Review
<1>2. /\ Lessons' /\ Grows /\ stored' = stored \cup {q}
      /\ q.version <= index'[q.lesson] /\ Items[q.lesson][q.version] = q.word
  <2>1. CASE Commit(q)
    BY <1>1, <2>1, CommitForward DEF Take
  <2>2. CASE (q \in stored \/ Recovers(q)) /\ UNCHANGED <<status, index>>
    <3>1. Lessons' /\ Grows
      BY <1>1, <2>2 DEF Lessons, Grows
    <3>2. q.version <= index[q.lesson] /\ Items[q.lesson][q.version] = q.word
      BY <1>1, <2>2 DEF Recovers, ServerInv
    <3> QED BY <2>2, <3>1, <3>2 DEF Take
  <2> QED BY <2>1, <2>2 DEF Take
<1>3. \A r \in stored' : r.version <= index'[r.lesson] /\ Items[r.lesson][r.version] = r.word
  <2> SUFFICES ASSUME NEW r \in stored, r # q
               PROVE  r.version <= index'[r.lesson] /\ Items[r.lesson][r.version] = r.word
    BY <1>2
  <2>1. /\ r.lesson \in Lesson /\ r.version \in Nat /\ r.version <= index[r.lesson]
        /\ Items[r.lesson][r.version] = r.word
    BY DEF ServerInv, Review
  <2>2. index[r.lesson] <= index'[r.lesson] /\ index[r.lesson] \in Nat /\ index'[r.lesson] \in Nat
    BY <1>1, <1>2, <2>1 DEF Grows, Lessons
  <2> QED BY <2>1, <2>2
<1>4. stored' \subseteq Review
  BY <1>2 DEF ServerInv
<1> QED BY <1>2, <1>3, <1>4 DEF Taken

\* Responses of the lessons that went forward are responses still.
LEMMA StoredStays ==
  ASSUME ServerInv, Lessons', Grows, stored' = stored, pending' \subseteq Review
  PROVE  ServerInv'
<1>1. \A r \in stored : r.version <= index'[r.lesson] /\ Items[r.lesson][r.version] = r.word
  <2> SUFFICES ASSUME NEW r \in stored
               PROVE  r.version <= index'[r.lesson] /\ Items[r.lesson][r.version] = r.word
    OBVIOUS
  <2>1. /\ r.lesson \in Lesson /\ r.version \in Nat /\ r.version <= index[r.lesson]
        /\ Items[r.lesson][r.version] = r.word
    BY DEF ServerInv, Review
  <2>2. index[r.lesson] <= index'[r.lesson] /\ index[r.lesson] \in Nat /\ index'[r.lesson] \in Nat
    BY <2>1 DEF Grows, Lessons, ServerInv
  <2> QED BY <2>1, <2>2
<1> QED BY <1>1 DEF ServerInv, Lessons

\* A new lesson, or one discarded.
LEMMA InsertForward ==
  ASSUME Lessons, NEW l \in Lesson, Insert(l), index' = index
  PROVE  Lessons' /\ Grows /\ Size(l) # 0 /\ index'[l] \in Nat
<1>1. /\ status[l] = "absent"
      /\ status' = [k \in Lesson |-> IF k = l THEN "active"
                                     ELSE IF k \in Active THEN "discarded" ELSE status[k]]
  BY DEF Insert
<1>2. \A k \in Lesson : /\ status'[k] \in {"absent", "active", "completed", "discarded"}
                        /\ status[k] = "completed" => status'[k] = "completed"
  BY <1>1 DEF Lessons, Active
<1>3. status' \in [Lesson -> {"absent", "active", "completed", "discarded"}]
  BY <1>1, <1>2
<1>4. \A k \in Lesson : index'[k] <= Size(k) /\ (index'[k] = Size(k) => status'[k] = "completed")
  BY <1>2 DEF Lessons
<1>5. Grows
  BY <1>2 DEF Lessons, Grows
<1> QED BY <1>3, <1>4, <1>5, LessonFacts DEF Lessons

LEMMA DiscardForward ==
  ASSUME Lessons, NEW l \in Active, status' = [status EXCEPT ![l] = "discarded"], index' = index
  PROVE  Lessons' /\ Grows
<1>1. l \in Lesson /\ status[l] = "active"
  BY DEF Active
<1>2. \A k \in Lesson : status'[k] = IF k = l THEN "discarded" ELSE status[k]
  BY <1>1 DEF Lessons
<1>3. status' \in [Lesson -> {"absent", "active", "completed", "discarded"}]
  BY <1>1 DEF Lessons
<1>4. \A k \in Lesson : index'[k] <= Size(k) /\ (index'[k] = Size(k) => status'[k] = "completed")
  BY <1>1, <1>2 DEF Lessons
<1> QED BY <1>1, <1>2, <1>3, <1>4 DEF Lessons, Grows

-----------------------------------------------------------------------------
(* What was said of the lessons stays true                                  *)

LEMMA GrowsFacts ==
  ASSUME ServerInv, ServerInv', Grows, NEW l \in Lesson
  PROVE  /\ index[l] \in Nat /\ index'[l] \in Nat /\ Size(l) \in Nat
         /\ index[l] <= index'[l] /\ (Completed(l) => Completed(l)')
BY LessonFacts DEF ServerInv, Grows, Completed

LEMMA ServedGrows ==
  ASSUME ServerInv, ServerInv', Grows, NEW s, Served(s)
  PROVE  Served(s)'
<1> SUFFICES ASSUME s \in Snapshot
             PROVE  s.index < Size(s.id) /\ s.index <= index'[s.id]
  BY DEF Served
<1>1. s.id \in Lesson /\ s.index \in Nat /\ s.index < Size(s.id) /\ s.index <= index[s.id]
  BY DEF Snapshot, Served
<1> QED BY <1>1, GrowsFacts

LEMMA CallGrows ==
  ASSUME ServerInv, ServerInv', Grows, NEW r, CallOK(r)
  PROVE  CallOK(r)'
<1>1. r.at = "resynced" => Served(r.reply)'
  BY ServedGrows DEF CallOK
<1>2. ASSUME r.at \in {"got", "progress"}, r.reply \in Snapshot
      PROVE  Taken(r.review, r.reply)'
  <2>1. r.review \in Review /\ Taken(r.review, r.reply)
    BY <1>2 DEF CallOK, CallState
  <2>2. r.review.lesson \in Lesson /\ r.review.version \in Nat
    BY <2>1 DEF Review
  <2> QED BY <2>1, <2>2, GrowsFacts DEF Taken
<1> QED BY <1>1, <1>2 DEF CallOK

LEMMA CardGrows ==
  ASSUME ServerInv, ServerInv', Grows, NEW p \in PageState, p.shown \in Lesson, CardOK(p)
  PROVE  CardOK(p)'
<1>1. Answered(p) \in Nat
  BY DEF Answered, PageState
<1> QED BY <1>1, GrowsFacts DEF CardOK

LEMMA PageGrows ==
  ASSUME ServerInv, ServerInv', Grows, NEW p, PageOK(p)
  PROVE  PageOK(p)'
<1>1. p.result # NoLesson => Completed(p.result)'
  <2> SUFFICES ASSUME p.result # NoLesson PROVE Completed(p.result)'
    OBVIOUS
  <2>1. Completed(p.result)
    BY DEF PageOK
  <2> QED BY <2>1, GrowsFacts DEF Completed
<1>2. Card(p) /\ ~ p.adrift => CardOK(p)'
  BY CardGrows DEF PageOK
<1> QED BY <1>1, <1>2 DEF PageOK

LEMMA SavedGrows ==
  ASSUME ServerInv, ServerInv', Grows, SavedInv, saved' = saved
  PROVE  SavedInv'
<1>1. saved # NoLesson => Completed(saved)'
  <2> SUFFICES ASSUME saved # NoLesson PROVE Completed(saved)'
    OBVIOUS
  <2>1. PICK l : l = saved
    OBVIOUS
  <2>2. Completed(l)
    BY <2>1 DEF SavedInv
  <2>3. Completed(l)'
    BY <2>2, GrowsFacts DEF Completed
  <2> QED BY <2>1, <2>3 DEF Completed
<1> QED BY <1>1 DEF SavedInv, Completed

LEMMA StillStands ==
  ASSUME UNCHANGED serverVars, ServerInv, pending' \subseteq Review
  PROVE  ServerInv' /\ Grows
<1>1. Grows
  BY DEF ServerInv, Grows, serverVars
<1> QED BY <1>1 DEF ServerInv, serverVars

\* The steps that leave the page alone; what they put in the place of a
\* request, a create or a call is as it should be.
LEMMA RepliesStand ==
  ASSUME ServerInv, ServerInv', Grows, RepliesInv,
         \A g \in gets' : g \in gets \/ GetOK(g)',
         NEW c, create' = c, c = create \/ CreateOK(c)',
         \A r \in reviews' : r \in reviews \/ CallOK(r)'
  PROVE  RepliesInv'
<1>1. ASSUME NEW g \in gets' PROVE GetOK(g)'
  BY <1>1, ServedGrows DEF RepliesInv, GetOK
<1>2. CreateOK(c)'
  BY ServedGrows DEF RepliesInv, CreateOK
<1>3. ASSUME NEW r \in reviews' PROVE CallOK(r)'
  BY <1>3, CallGrows DEF RepliesInv
<1> QED BY <1>1, <1>2, <1>3 DEF RepliesInv, CreateOK, Served

LEMMA PageStands ==
  ASSUME ServerInv, ServerInv', Grows, PageOK(page), page' = page
  PROVE  PageOK(page)'
<1>1. PICK p : p = page
  OBVIOUS
<1>2. PageOK(p)'
  BY <1>1, PageGrows
<1> QED BY <1>1, <1>2 DEF PageOK, Card, CardOK, Answered, Completed

LEMMA WorkStands ==
  ASSUME WorkInv, UNCHANGED <<page, gets, create, reviews>>
  PROVE  WorkInv'
BY DEF WorkInv, Card, AboutCard, IsLast

\* A step that leaves the page, its requests and its calls alone.
LEMMA OutsideStep ==
  ASSUME Inv, ServerInv', Grows, UNCHANGED <<page, gets, create, reviews, saved>>
  PROVE  Inv'
<1>1. RepliesInv'
  BY RepliesStand DEF Inv
<1> QED BY <1>1, PageStands, WorkStands, SavedGrows DEF Inv

LEMMA OtherDeviceKeepsInv ==
  ASSUME Inv, OtherDevice
  PROVE  Inv'
<1>1. /\ Lessons /\ pending' \subseteq Review /\ stored' = stored
      /\ UNCHANGED <<page, gets, create, reviews, saved>>
  BY DEF Inv, ServerInv, Lessons, OtherDevice, outboxVars
<1>2. Lessons' /\ Grows
  <2>1. ASSUME NEW l \in Active,
               Commit([lesson |-> l, version |-> index[l] + 1, word |-> Items[l][index[l] + 1]])
        PROVE  Lessons' /\ Grows
    <3> DEFINE q == [lesson |-> l, version |-> index[l] + 1, word |-> Items[l][index[l] + 1]]
    <3>1. q.lesson \in Lesson /\ q.version \in Nat /\ Commit(q)
      BY <1>1, <2>1 DEF Active, Lessons
    <3> HIDE DEF q
    <3> QED BY <1>1, <3>1, CommitForward
  <2>2. ASSUME NEW l \in Lesson, Insert(l), UNCHANGED index
        PROVE  Lessons' /\ Grows
    BY <1>1, <2>2, InsertForward
  <2>3. ASSUME NEW l \in Active, status' = [status EXCEPT ![l] = "discarded"], UNCHANGED index
        PROVE  Lessons' /\ Grows
    BY <1>1, <2>3, DiscardForward
  <2> QED BY <2>1, <2>2, <2>3 DEF OtherDevice
<1> QED BY <1>1, <1>2, StoredStays, OutsideStep DEF Inv

LEMMA TakeKeepsServer ==
  ASSUME ServerInv, NEW q \in Review, Take(q), pending' \subseteq Review
  PROVE  ServerInv' /\ Grows /\ Taken(q, After(q))'
BY TakeForward DEF ServerInv, Lessons

LEMMA RefuseKeepsServer ==
  ASSUME ServerInv, NEW q \in Review, Refuse(q), pending' \subseteq Review
  PROVE  ServerInv' /\ Grows
BY StillStands DEF Refuse

LEMMA DeliverKeepsInv ==
  ASSUME Inv, NEW q \in pending, Deliver(q)
  PROVE  Inv'
<1>1. /\ q \in Review /\ pending' \subseteq Review /\ (Take(q) \/ Refuse(q))
      /\ UNCHANGED <<page, gets, create, reviews, saved>>
  BY DEF Deliver, Inv, ServerInv
<1> QED BY <1>1, TakeKeepsServer, RefuseKeepsServer, OutsideStep DEF Inv

\* A request is answered: what becomes of it is of the same kind.
LEMMA GetAnsweredKeepsInv ==
  ASSUME Inv, NEW g \in gets, GetAnswered(g)
  PROVE  Inv'
<1>1. GetOK(g) /\ UNCHANGED <<serverVars, pending, page, create, reviews, saved>>
  BY DEF GetAnswered, Inv, RepliesInv, outboxVars
<1>2. ServerInv' /\ Grows
  BY <1>1, StillStands DEF Inv, ServerInv
<1>3. PICK s \in {ActiveSnapshot, Failed} : gets' = (gets \ {g}) \cup {[g EXCEPT !.at = "got", !.reply = s]}
  BY DEF GetAnswered
<1>4. s \in Snapshot \cup {NotFound, Failed} /\ Served(s)
  BY <1>3, ActiveIsServed, ReplyFacts DEF Inv, Served
<1>5. PICK h : h = [g EXCEPT !.at = "got", !.reply = s]
  OBVIOUS
<1>6. h \in GetState /\ h.kind = g.kind /\ h.reply = s
  BY <1>1, <1>4, <1>5 DEF GetOK, GetState, Replies
<1>7. GetOK(h)'
  BY <1>2, <1>4, <1>6, ServedGrows DEF GetOK, Inv
<1>8. RepliesInv'
  BY <1>1, <1>2, <1>3, <1>5, <1>7, RepliesStand DEF Inv
<1>9. WorkInv'
  <2>1. \A k \in gets' : (k \in gets /\ k # g) \/ k = h
    BY <1>3, <1>5
  <2> QED BY <1>1, <1>6, <2>1 DEF Inv, WorkInv, Card, AboutCard, IsLast
<1> QED BY <1>1, <1>2, <1>8, <1>9, PageStands, SavedGrows DEF Inv

\* The learner goes on to the next lesson.
LEMMA CreateKeepsInv ==
  ASSUME Inv, CreateAnswered
  PROVE  Inv'
<1>1. /\ CreateOK(create) /\ create.at = "sent" /\ stored' = stored /\ pending' \subseteq Review
      /\ UNCHANGED <<page, gets, reviews, saved>> /\ Lessons
  BY DEF CreateAnswered, Inv, RepliesInv, ServerInv, Lessons, outboxVars
<1>2. ~ page.reviewing /\ \A g \in gets : g.kind # "resume"
  BY <1>1 DEF Inv, WorkInv
<1>3. PICK s : /\ create' = [create EXCEPT !.at = "got", !.reply = s]
               /\ Lessons' /\ Grows /\ s \in Replies /\ (s \in Snapshot => s.index < Size(s.id) /\ s.index <= index'[s.id])
  <2>1. ASSUME NEW l \in Lesson, Insert(l), UNCHANGED index
        PROVE  Lessons' /\ Grows /\ Size(l) \in Nat \ {0} /\ index'[l] \in Nat
    BY <1>1, <2>1, InsertForward, LessonFacts
  <2>2. ASSUME UNCHANGED <<status, index>>
        PROVE  Lessons' /\ Grows
    BY <1>1, <2>2 DEF Lessons, Grows
  <2>3. ASSUME NEW l \in Lesson, Insert(l), UNCHANGED index,
               create' = [create EXCEPT !.at = "got", !.reply = [id |-> l, index |-> 0]]
        PROVE  \E s : /\ create' = [create EXCEPT !.at = "got", !.reply = s]
                      /\ Lessons' /\ Grows /\ s \in Replies
                      /\ (s \in Snapshot => s.index < Size(s.id) /\ s.index <= index'[s.id])
    <3> DEFINE s == [id |-> l, index |-> 0]
    <3>1. s \in Replies /\ s.id = l /\ s.index = 0
      BY DEF Replies, Snapshot
    <3> HIDE DEF s
    <3>2. s.index < Size(s.id) /\ s.index <= index'[s.id]
      BY <2>1, <2>3, <3>1
    <3>3. create' = [create EXCEPT !.at = "got", !.reply = s]
      BY <2>3 DEF s
    <3> QED BY <2>1, <2>3, <3>1, <3>2, <3>3
  <2>4. ASSUME UNCHANGED <<status, index>>,
               create' = [create EXCEPT !.at = "got", !.reply = ActiveSnapshot]
        PROVE  \E s : /\ create' = [create EXCEPT !.at = "got", !.reply = s]
                      /\ Lessons' /\ Grows /\ s \in Replies
                      /\ (s \in Snapshot => s.index < Size(s.id) /\ s.index <= index'[s.id])
    BY <2>2, <2>4, ActiveIsServed DEF Inv, Served, Replies
  <2>5. ASSUME Lessons' /\ Grows,
               create' = [create EXCEPT !.at = "got", !.reply = Failed]
        PROVE  \E s : /\ create' = [create EXCEPT !.at = "got", !.reply = s]
                      /\ Lessons' /\ Grows /\ s \in Replies
                      /\ (s \in Snapshot => s.index < Size(s.id) /\ s.index <= index'[s.id])
    BY <2>5, ReplyFacts DEF Replies
  <2> QED BY <2>1, <2>2, <2>3, <2>4, <2>5 DEF CreateAnswered
<1>4. ServerInv' /\ Grows
  BY <1>1, <1>3, StoredStays DEF Inv
<1>5. PICK c : c = [create EXCEPT !.at = "got", !.reply = s]
  OBVIOUS
<1>6. c \in CreateState /\ c.reply = s
  BY <1>1, <1>3, <1>5 DEF CreateOK, CreateState
<1>7. CreateOK(c)'
  BY <1>3, <1>6 DEF CreateOK, Served
<1>8. RepliesInv'
  BY <1>1, <1>3, <1>4, <1>5, <1>7, RepliesStand DEF Inv
<1>9. WorkInv'
  BY <1>1, <1>2 DEF Inv, WorkInv, Card, AboutCard, IsLast
<1> QED BY <1>1, <1>4, <1>8, <1>9, PageStands, SavedGrows DEF Inv

-----------------------------------------------------------------------------
(* The calls of rateCurrent                                                 *)

\* Call x takes the place of call r, which has not settled.
LEMMA CallMoves ==
  ASSUME Inv, ServerInv', Grows, UNCHANGED <<page, gets, create, saved>>,
         NEW r \in reviews, NEW x, reviews' = (reviews \ {r}) \cup {x}, CallOK(x)',
         x.own = r.own, x.review = r.review, x.rated = r.rated,
         r.at # "progress" /\ x.at # "progress"
  PROVE  Inv'
<1>1. \A y \in reviews' : (y \in reviews /\ y # r) \/ y = x
  OBVIOUS
<1>2. RepliesInv'
  BY <1>1, RepliesStand DEF Inv
<1>3. WorkInv'
  <2>1. \A y \in reviews' : y.own => page.reviewing /\ (y.at # "progress" => AboutCard(page, y))
    BY <1>1 DEF Inv, WorkInv, AboutCard
  <2>2. \A y, z \in reviews' : y.own /\ z.own => y = z
    BY <1>1 DEF Inv, WorkInv
  <2>3. page.done => \/ page.result # NoLesson
                     \/ \E y \in reviews' : y.own /\ y.at = "progress" /\ IsLast(y.reply)
    BY DEF Inv, WorkInv
  <2> QED BY <2>1, <2>2, <2>3 DEF Inv, WorkInv, Card, AboutCard, IsLast
<1> QED BY <1>2, <1>3, PageStands, SavedGrows DEF Inv

LEMMA AnsweredKeepsInv ==
  ASSUME Inv, NEW r \in reviews, ReviewAnswered(r)
  PROVE  Inv'
<1> DEFINE q == r.review
<1>1. CallOK(r) /\ r.at = "sent" /\ q \in Review /\ UNCHANGED <<page, gets, create, saved>>
  BY DEF ReviewAnswered, Inv, RepliesInv, CallOK, CallState
<1>2. pending' \subseteq Review
  BY <1>1 DEF ReviewAnswered, Inv, ServerInv
<1>3. PICK s \in {After(q), Refused, Failed} :
        /\ Replied(r, s) /\ ServerInv' /\ Grows
        /\ s = After(q) => Taken(q, After(q))'
  <2>1. ASSUME Take(q)
        PROVE  ServerInv' /\ Grows /\ Taken(q, After(q))'
    BY <1>1, <1>2, <2>1, TakeKeepsServer DEF Inv
  <2>2. ASSUME Refuse(q) \/ UNCHANGED serverVars
        PROVE  ServerInv' /\ Grows
    BY <1>1, <1>2, <2>2, RefuseKeepsServer, StillStands DEF Inv
  <2>3. ASSUME Commit(q) /\ UNCHANGED stored
        PROVE  ServerInv' /\ Grows
    <3>1. Lessons /\ q.lesson \in Lesson /\ q.version \in Nat
      BY <1>1 DEF Inv, ServerInv, Lessons, Review
    <3> QED BY <1>2, <2>3, <3>1, CommitForward, StoredStays DEF Inv
  <2>4. After(q) # Refused /\ After(q) # Failed
    BY <1>1, AfterIsSnapshot, ReplyFacts
  <2> QED BY <2>1, <2>2, <2>3, <2>4 DEF ReviewAnswered
<1>4. PICK x : x = [r EXCEPT !.at = "got", !.reply = s]
  OBVIOUS
<1>5. s \in Replies /\ (s \in Snapshot => s = After(q))
  BY <1>1, AfterIsSnapshot, ReplyFacts DEF Replies
<1>6. /\ x \in CallState /\ x.own = r.own /\ x.review = q /\ x.rated = r.rated
      /\ x.at = "got" /\ x.reply = s
  BY <1>1, <1>4, <1>5 DEF CallOK, CallState
<1>7. CallOK(x)'
  BY <1>3, <1>5, <1>6 DEF CallOK
<1>8. reviews' = (reviews \ {r}) \cup {x}
  BY <1>3, <1>4 DEF Replied
<1> QED BY <1>1, <1>3, <1>6, <1>7, <1>8, CallMoves

LEMMA ResyncKeepsInv ==
  ASSUME Inv, NEW r \in reviews, ResyncAnswered(r)
  PROVE  Inv'
<1>1. CallOK(r) /\ r.at = "resync" /\ UNCHANGED <<serverVars, pending, page, gets, create, saved>>
  BY DEF ResyncAnswered, Inv, RepliesInv, outboxVars
<1>2. ServerInv' /\ Grows
  BY <1>1, StillStands DEF Inv, ServerInv
<1>3. PICK s \in {ActiveSnapshot, Failed} :
        reviews' = (reviews \ {r}) \cup {[r EXCEPT !.at = "resynced", !.reply = s]}
  BY DEF ResyncAnswered
<1>4. s \in Replies /\ Served(s)
  BY <1>3, ActiveIsServed, ReplyFacts DEF Inv, Served, Replies
<1>5. PICK x : x = [r EXCEPT !.at = "resynced", !.reply = s]
  OBVIOUS
<1>6. /\ x \in CallState /\ x.own = r.own /\ x.review = r.review /\ x.rated = r.rated
      /\ x.at = "resynced" /\ x.reply = s
  BY <1>1, <1>4, <1>5 DEF CallOK, CallState
<1>7. CallOK(x)'
  BY <1>2, <1>4, <1>6, ServedGrows DEF CallOK, Inv
<1> QED BY <1>1, <1>2, <1>3, <1>5, <1>6, <1>7, CallMoves

\* A call that is over, or of a page that is gone, and the page as it was.
LEMMA StaleCallKeepsInv ==
  ASSUME Inv, UNCHANGED <<serverVars, pending, page, gets, create>>, SavedInv',
         NEW r \in reviews, ~ r.own, NEW x, x.own = FALSE, CallOK(x),
         \/ reviews' = reviews \ {r}
         \/ reviews' = (reviews \ {r}) \cup {x}
  PROVE  Inv'
<1>1. ServerInv' /\ Grows
  BY StillStands DEF Inv, ServerInv
<1>2. \A y \in reviews' : (y \in reviews /\ y # r) \/ y = x
  OBVIOUS
<1>3. RepliesInv'
  BY <1>1, <1>2, CallGrows, RepliesStand DEF Inv
<1>4. WorkInv'
  <2>1. \A y \in reviews' : y.own => y \in reviews
    BY <1>2
  <2>2. page.done => \/ page.result # NoLesson
                     \/ \E y \in reviews' : y.own /\ y.at = "progress" /\ IsLast(y.reply)
    BY DEF Inv, WorkInv
  <2> QED BY <2>1, <2>2 DEF Inv, WorkInv, Card, AboutCard, IsLast
<1> QED BY <1>1, <1>3, <1>4, PageStands DEF Inv

-----------------------------------------------------------------------------
(* What the handlers make of the page                                       *)

\* The same card, results and all, is on screen.
SameCard(p, q) ==
  /\ q.mounted = p.mounted /\ q.started = p.started /\ q.complete = p.complete
  /\ q.shown = p.shown /\ q.at = p.at /\ q.rated = p.rated /\ q.done = p.done
  /\ q.next = p.next /\ q.result = p.result

LEMMA PageKept ==
  ASSUME NEW p, PageOK(p), NEW q \in PageState, SameCard(p, q),
         p.adrift => q.adrift,
         Card(p) /\ ~ q.adrift /\ ~ p.done => q.held.id = p.shown
  PROVE  /\ PageOK(q) /\ (Card(q) <=> Card(p))
         /\ \A r : AboutCard(p, r) => AboutCard(q, r)
<1>1. Card(q) <=> Card(p)
  BY DEF Card, SameCard
<1>2. Card(q) => q.shown \in Lesson /\ q.at < Size(q.shown)
  BY <1>1 DEF SameCard, PageOK
<1>3. Card(q) /\ ~ q.adrift => CardOK(q)
  BY <1>1 DEF PageOK, SameCard, CardOK, Answered
<1>4. PageOK(q)
  BY <1>2, <1>3 DEF PageOK, SameCard
<1>5. \A r : AboutCard(p, r) => AboutCard(q, r)
  BY <1>1 DEF AboutCard, SameCard
<1> QED BY <1>1, <1>4, <1>5

\* Nothing is on screen but, maybe, a result.
LEMMA NoCardPage ==
  ASSUME NEW q \in PageState, ~ Card(q), q.result # NoLesson => Completed(q.result),
         q.started /\ q.complete => q.result # NoLesson
  PROVE  PageOK(q) /\ \A r : AboutCard(q, r)
BY DEF PageOK, AboutCard

\* Lesson s comes on screen; only what is waited for may differ.
Showing(p, q, s) ==
  /\ q.mounted = p.mounted /\ q.held = s /\ q.shown = s.id /\ q.at = s.index
  /\ q.rated = {Items[s.id][k] : k \in 1 .. s.index}
  /\ q.started = TRUE /\ q.complete = FALSE /\ q.done = FALSE /\ q.next = 0
  /\ q.result = NoLesson /\ q.adrift = FALSE

LEMMA NewCard ==
  ASSUME NEW f \in PageState, NEW w \in Word \cup {NoWord}
  PROVE  [f EXCEPT !.result = NoLesson, !.revealed = FALSE, !.adrift = FALSE, !.queued = w]
           \in PageState
BY DEF PageState

LEMMA ShowFacts ==
  ASSUME NEW p \in PageState, NEW s \in Snapshot, Served(s)
  PROVE  /\ Show(p, s) \in PageState /\ Showing(p, Show(p, s), s)
         /\ Show(p, s).reviewing = p.reviewing /\ Show(p, s).leaving = p.leaving
<1>1. s.id \in Lesson /\ s.index \in Nat /\ s.index < Size(s.id)
  BY DEF Snapshot, Served
<1>2. {Items[s.id][k] : k \in 1 .. s.index} \subseteq Word
  BY <1>1, LessonFacts
<1> DEFINE e == [p EXCEPT !.held = s, !.shown = s.id, !.at = s.index,
                          !.rated = {Items[s.id][k] : k \in 1 .. s.index}]
           f == [e EXCEPT !.started = TRUE, !.complete = FALSE, !.done = FALSE, !.next = 0]
           g == [f EXCEPT !.result = NoLesson, !.revealed = FALSE, !.adrift = FALSE,
                          !.queued = IF p.started /\ ~ p.complete THEN @ ELSE NoWord]
<1>3. /\ e \in PageState /\ e.held = s /\ e.shown = s.id /\ e.at = s.index
      /\ e.rated = {Items[s.id][k] : k \in 1 .. s.index}
      /\ e.mounted = p.mounted /\ e.reviewing = p.reviewing /\ e.leaving = p.leaving
  BY <1>1, <1>2 DEF PageState
<1>4. Show(p, s) = g
  BY DEF Show, PageState
<1> HIDE DEF e
<1>5. /\ f \in PageState /\ f.held = s /\ f.shown = s.id /\ f.at = s.index /\ f.rated = e.rated
      /\ f.started = TRUE /\ f.complete = FALSE /\ f.done = FALSE /\ f.next = 0
      /\ f.mounted = p.mounted /\ f.reviewing = p.reviewing /\ f.leaving = p.leaving
  BY <1>3 DEF PageState
<1> HIDE DEF f
<1>6. g \in PageState
  <2>1. PICK w \in Word \cup {NoWord} : w = IF p.started /\ ~ p.complete THEN f.queued ELSE NoWord
    BY <1>5 DEF PageState
  <2>2. g = [f EXCEPT !.result = NoLesson, !.revealed = FALSE, !.adrift = FALSE, !.queued = w]
    BY <2>1
  <2>3. f \in PageState
    BY <1>5
  <2>4. [f EXCEPT !.result = NoLesson, !.revealed = FALSE, !.adrift = FALSE, !.queued = w] \in PageState
    BY <2>1, <2>3, NewCard
  <2> QED BY <2>2, <2>4
<1>7. Showing(p, g, s) /\ g.reviewing = p.reviewing /\ g.leaving = p.leaving
  BY <1>3, <1>5 DEF PageState, Showing
<1> QED BY <1>4, <1>6, <1>7

LEMMA ShowingOK ==
  ASSUME NEW p, NEW q \in PageState, NEW s \in Snapshot, Served(s), Showing(p, q, s)
  PROVE  PageOK(q)
<1>1. s.id \in Lesson /\ s.index \in Nat /\ s.index < Size(s.id) /\ s.index <= index[s.id]
  BY DEF Snapshot, Served
<1>2. CardOK(q)
  BY <1>1 DEF Showing, CardOK, Answered
<1> QED BY <1>1, <1>2 DEF PageOK, Showing

\* The lesson leaves the screen.
LEMMA ClearFacts ==
  ASSUME NEW p \in PageState
  PROVE  /\ Clear(p) \in PageState /\ Clear(p).mounted = p.mounted /\ Clear(p).held = p.held
         /\ Clear(p).started = FALSE /\ Clear(p).done = FALSE /\ Clear(p).result = NoLesson
         /\ Clear(p).reviewing = p.reviewing /\ Clear(p).leaving = p.leaving
<1> DEFINE e == [p EXCEPT !.shown = NoLesson, !.at = 0, !.rated = {}, !.started = FALSE,
                          !.complete = FALSE]
           f == [e EXCEPT !.done = FALSE, !.next = 0, !.result = NoLesson,
                          !.queued = NoWord, !.revealed = FALSE, !.adrift = FALSE]
<1>1. /\ e \in PageState /\ e.mounted = p.mounted /\ e.held = p.held /\ e.started = FALSE
      /\ e.reviewing = p.reviewing /\ e.leaving = p.leaving
  BY DEF PageState
<1>2. Clear(p) = f
  BY DEF Clear, PageState
<1> HIDE DEF e
<1>3. f \in PageState
  BY <1>1 DEF PageState
<1>4. /\ f.mounted = p.mounted /\ f.held = p.held /\ f.started = FALSE /\ f.done = FALSE
      /\ f.result = NoLesson /\ f.reviewing = p.reviewing /\ f.leaving = p.leaving
  BY <1>1 DEF PageState
<1> QED BY <1>2, <1>3, <1>4

LEMMA FreshFacts ==
  FreshPage \in PageState /\ ~ FreshPage.started /\ ~ FreshPage.done /\ ~ FreshPage.reviewing
  /\ FreshPage.result = NoLesson /\ FreshPage.mounted
BY DEF FreshPage, PageState

-----------------------------------------------------------------------------
(* The steps of the page                                                    *)

\* A step of the page to q: the server is left alone.
LEMMA HandlerStep ==
  ASSUME Inv, UNCHANGED <<serverVars, pending>>,
         NEW q, page' = q, PageOK(q), WorkInv',
         NEW l \in Lesson \cup {NoLesson}, saved' = l, l # NoLesson => Completed(l),
         \A g \in gets' : g \in gets \/ GetOK(g),
         NEW c, create' = c, c = create \/ CreateOK(c),
         \A r \in reviews' : r \in reviews \/ CallOK(r)
  PROVE  Inv'
<1>1. ServerInv /\ ServerInv' /\ Grows
  BY StillStands DEF Inv, ServerInv
<1>2. \A g \in gets' : g \in gets \/ GetOK(g)'
  BY <1>1, ServedGrows DEF GetOK
<1>3. c = create \/ CreateOK(c)'
  BY <1>1, ServedGrows DEF CreateOK
<1>4. \A r \in reviews' : r \in reviews \/ CallOK(r)'
  BY <1>1, CallGrows
<1>5. RepliesInv'
  BY <1>1, <1>2, <1>3, <1>4, RepliesStand DEF Inv
<1>6. PageOK(q)'
  BY <1>1, PageGrows
<1>7. PageOK(page)'
  BY <1>6 DEF PageOK, Card, CardOK, Answered, Completed
<1>8. SavedInv'
  BY <1>1 DEF SavedInv, Completed, Grows
<1> QED BY <1>1, <1>5, <1>7, <1>8 DEF Inv

\* No card comes on screen, no call begins or ends, and no result goes.
LEMMA WorkMoves ==
  ASSUME WorkInv, NEW p, page = p, NEW q, page' = q,
         create'.at = create.at \/ (~ p.reviewing /\ \A g \in gets' : g.kind # "resume"),
         reviews' = reviews,
         \A g \in gets' : g.kind = "resume" => g \in gets,
         q.reviewing = p.reviewing, q.mounted = p.mounted,
         Card(q) => Card(p),
         p.reviewing => Card(q) \/ q.leaving,
         q.done => q.result # NoLesson \/ (p.done /\ q.result = p.result),
         \A r \in reviews : r.own /\ AboutCard(p, r) => AboutCard(q, r)
  PROVE  WorkInv'
<1>1. \A r \in reviews' : r.own => q.reviewing /\ (r.at # "progress" => AboutCard(q, r))
  BY DEF WorkInv
<1>2. q.reviewing => q.mounted /\ create'.at = "idle" /\ (Card(q) \/ q.leaving)
  BY DEF WorkInv
<1>3. \A g \in gets' : g.kind = "resume" => ~ q.reviewing /\ create'.at = "idle" /\ ~ Card(q)
  BY DEF WorkInv
<1>4. q.done => \/ q.result # NoLesson
                \/ \E r \in reviews' : r.own /\ r.at = "progress" /\ IsLast(r.reply)
  BY DEF WorkInv
<1> QED BY <1>1, <1>2, <1>3, <1>4 DEF WorkInv, AboutCard, Card, IsLast

\* Nothing is waited for.
LEMMA WorkSettles ==
  ASSUME NEW q, page' = q, ~ q.reviewing, \A r \in reviews' : ~ r.own,
         \A g \in gets' : g.kind # "resume",
         q.done => q.result # NoLesson
  PROVE  WorkInv'
BY DEF WorkInv

\* While nothing is reviewed no call is the page's own.
LEMMA NoOwnCall ==
  ASSUME WorkInv, ~ page.reviewing
  PROVE  \A r \in reviews : ~ r.own
BY DEF WorkInv

LEMMA LoadSentOK == GetOK(LoadSent) /\ LoadSent.kind = "load"
BY ReplyFacts DEF GetOK, LoadSent, GetState, Replies, Served

\* The same card stays on screen.
LEMMA SameCardStep ==
  ASSUME Inv, UNCHANGED <<serverVars, pending, create, reviews, saved>>,
         NEW q \in PageState, page' = q, SameCard(page, q),
         page.adrift => q.adrift, page.leaving => q.leaving, q.reviewing = page.reviewing,
         Card(page) /\ ~ q.adrift /\ ~ page.done => q.held.id = page.shown,
         \A g \in gets' : g \in gets \/ g = LoadSent
  PROVE  Inv'
<1>1. PICK p : p = page
  OBVIOUS
<1>2. PageOK(p) /\ SavedInv /\ WorkInv
  BY <1>1 DEF Inv
<1>3. PageOK(q) /\ (Card(q) <=> Card(p)) /\ \A r : AboutCard(p, r) => AboutCard(q, r)
  BY <1>1, <1>2, PageKept
<1>4. WorkInv'
  <2>1. q.mounted = p.mounted /\ q.done = p.done /\ q.result = p.result
    BY <1>1 DEF SameCard
  <2>2. p.reviewing => Card(q) \/ q.leaving
    BY <1>1, <1>2, <1>3 DEF WorkInv
  <2>3. \A g \in gets' : g.kind = "resume" => g \in gets
    BY LoadSentOK
  <2>4. \A r \in reviews : r.own /\ AboutCard(p, r) => AboutCard(q, r)
    BY <1>3
  <2>5. create'.at = create.at /\ reviews' = reviews /\ q.reviewing = p.reviewing
    BY <1>1
  <2> QED BY <1>1, <1>2, <1>3, <2>1, <2>2, <2>3, <2>4, <2>5, WorkMoves
<1>5. \A g \in gets' : g \in gets \/ GetOK(g)
  BY LoadSentOK
<1> QED BY <1>2, <1>3, <1>4, <1>5, HandlerStep DEF SavedInv

LEMMA LoadKeepsInv ==
  ASSUME Inv, SessionRefreshed \/ RetryLoad \/ (\E g \in gets : Loaded(g))
  PROVE  Inv'
<1> DEFINE p == page
<1>1. p \in PageState /\ (Card(p) /\ ~ p.adrift /\ ~ p.done => p.held.id = p.shown)
  BY DEF Inv, PageOK, CardOK
<1>2. ASSUME SessionRefreshed \/ RetryLoad
      PROVE  Inv'
  <2> DEFINE q == [p EXCEPT !.phase = "loading"]
  <2>1. /\ page' = q /\ UNCHANGED <<serverVars, pending, create, reviews, saved>>
        /\ \A g \in gets' : g \in gets \/ g = LoadSent
    BY <1>2 DEF SessionRefreshed, RetryLoad, outboxVars
  <2>2. q \in PageState /\ SameCard(p, q)
    BY <1>1 DEF PageState, SameCard
  <2>3. q.adrift = p.adrift /\ q.leaving = p.leaving /\ q.reviewing = p.reviewing /\ q.held = p.held
    BY <1>1 DEF PageState
  <2> HIDE DEF q
  <2> QED BY <1>1, <2>1, <2>2, <2>3, SameCardStep
<1>3. ASSUME NEW g \in gets, Loaded(g), g.reply = Failed
      PROVE  Inv'
  <2> DEFINE q == [p EXCEPT !.phase = "error"]
  <2>1. /\ page' = q /\ UNCHANGED <<serverVars, pending, create, reviews, saved>>
        /\ \A h \in gets' : h \in gets \/ h = LoadSent
    BY <1>3 DEF Loaded, outboxVars
  <2>2. q \in PageState /\ SameCard(p, q)
    BY <1>1 DEF PageState, SameCard
  <2>3. q.adrift = p.adrift /\ q.leaving = p.leaving /\ q.reviewing = p.reviewing /\ q.held = p.held
    BY <1>1 DEF PageState
  <2> HIDE DEF q
  <2> QED BY <1>1, <2>1, <2>2, <2>3, SameCardStep
<1>4. ASSUME NEW g \in gets, Loaded(g), g.reply # Failed
      PROVE  Inv'
  <2> DEFINE s == g.reply
             away == p.adrift \/ (OnCard /\ ~ p.done /\ s.id # p.shown)
             q == [p EXCEPT !.phase = "ready", !.held = s, !.adrift = away]
  <2>1. s \in Snapshot \cup {NotFound}
    BY <1>4 DEF Inv, RepliesInv, GetOK, Loaded
  <2>2. /\ page' = q /\ UNCHANGED <<serverVars, pending, create, reviews, saved>>
        /\ \A h \in gets' : h \in gets \/ h = LoadSent
    BY <1>4 DEF Loaded, outboxVars
  <2>3. away \in BOOLEAN /\ (p.adrift => away)
        /\ (Card(p) /\ ~ away /\ ~ p.done => s.id = p.shown)
    BY <1>1 DEF OnCard, Card, PageState
  <2> HIDE DEF s, away
  <2>4. q \in PageState /\ SameCard(p, q)
    BY <1>1, <2>1, <2>3 DEF PageState, SameCard
  <2>5. q.adrift = away /\ q.leaving = p.leaving /\ q.reviewing = p.reviewing /\ q.held = s
    BY <1>1, <2>1, <2>3 DEF PageState
  <2> HIDE DEF q
  <2> QED BY <1>1, <2>2, <2>3, <2>4, <2>5, SameCardStep
<1> QED BY <1>2, <1>3, <1>4

LEMMA RevealKeepsInv ==
  ASSUME Inv, Reveal
  PROVE  Inv'
<1> DEFINE p == page
           q == [p EXCEPT !.revealed = TRUE]
<1>1. p \in PageState /\ (Card(p) /\ ~ p.adrift /\ ~ p.done => p.held.id = p.shown)
  BY DEF Inv, PageOK, CardOK
<1>2. page' = q /\ UNCHANGED <<serverVars, pending, gets, create, reviews, saved>>
  BY DEF Reveal, outboxVars
<1>3. q \in PageState /\ SameCard(p, q)
  BY <1>1 DEF PageState, SameCard
<1>4. q.adrift = p.adrift /\ q.leaving = p.leaving /\ q.reviewing = p.reviewing /\ q.held = p.held
  BY <1>1 DEF PageState
<1> HIDE DEF q
<1> QED BY <1>1, <1>2, <1>3, <1>4, SameCardStep

LEMMA ResumeKeepsInv ==
  ASSUME Inv, Patient, Resume
  PROVE  Inv'
<1> DEFINE h == [kind |-> "resume", at |-> "sent", reply |-> Nothing]
<1>1. /\ gets' = gets \cup {h} /\ page' = page /\ saved' = saved
      /\ UNCHANGED <<serverVars, pending, create, reviews>>
  BY DEF Resume, outboxVars
<1>2. create.at = "idle" /\ (\A g \in gets : g.kind # "resume") /\ ~ page.leaving /\ ~ Card(page)
  BY DEF Resume, Idle, Card
<1>3. GetOK(h) /\ h.kind = "resume"
  BY ReplyFacts DEF GetOK, GetState, Replies, Served
<1> HIDE DEF h
<1>4. WorkInv'
  BY <1>1, <1>2, <1>3 DEF Inv, WorkInv, Card, AboutCard, IsLast
<1> QED BY <1>1, <1>3, <1>4, HandlerStep DEF Inv, SavedInv

\* A page that is not waiting for a review comes to show lesson s.
LEMMA ShowStep ==
  ASSUME Inv, UNCHANGED <<serverVars, pending>>,
         NEW q \in PageState, page' = q, NEW s \in Snapshot, Served(s),
         Showing(page, q, s), ~ q.reviewing,
         saved' \in {saved, NoLesson},
         gets' \subseteq gets, \A g \in gets' : g.kind # "resume",
         NEW c, create' = c, c = create \/ CreateOK(c),
         reviews' \subseteq reviews, \A r \in reviews' : ~ r.own
  PROVE  Inv'
<1>1. PageOK(q) /\ ~ q.done
  BY ShowingOK DEF Showing
<1>2. WorkInv'
  BY <1>1, WorkSettles
<1> QED BY <1>1, <1>2, HandlerStep DEF Inv, SavedInv

LEMMA ResumedKeepsInv ==
  ASSUME Inv, NEW g \in gets, Resumed(g)
  PROVE  Inv'
<1>1. /\ g.kind = "resume" /\ gets' = gets \ {g} /\ GetOK(g)
      /\ UNCHANGED <<serverVars, pending, create, reviews>>
  BY DEF Resumed, outboxVars, Inv, RepliesInv
<1>2. /\ ~ page.reviewing /\ create.at = "idle" /\ ~ Card(page)
      /\ \A h \in gets' : h.kind # "resume"
      /\ \A r \in reviews : ~ r.own
  BY <1>1, NoOwnCall DEF Inv, WorkInv
<1>3. page \in PageState /\ PageOK(page)
  BY DEF Inv, PageOK
<1>4. CASE g.reply \in Snapshot /\ page' = Show(page, g.reply) /\ saved' = NoLesson
  <2>1. PICK q : q = Show(page, g.reply)
    OBVIOUS
  <2>2. /\ q \in PageState /\ Showing(page, q, g.reply) /\ ~ q.reviewing
        /\ Served(g.reply)
    BY <1>1, <1>2, <1>3, <1>4, <2>1, ShowFacts DEF GetOK
  <2> QED BY <1>1, <1>2, <1>4, <2>1, <2>2, ShowStep
<1>5. CASE page' = [page EXCEPT !.held = NotFound, !.phase = "ready"] /\ UNCHANGED saved
  <2> DEFINE q == [page EXCEPT !.held = NotFound, !.phase = "ready"]
  <2>1. q \in PageState /\ SameCard(page, q)
    BY <1>3 DEF PageState, SameCard
  <2>2. q.adrift = page.adrift /\ q.leaving = page.leaving /\ q.reviewing = page.reviewing
    BY <1>3 DEF PageState
  <2>3. page' = q
    BY <1>5
  <2> HIDE DEF q
  <2> QED BY <1>1, <1>2, <1>5, <2>1, <2>2, <2>3, SameCardStep
<1>6. CASE UNCHANGED <<page, saved>>
  <2>1. SameCard(page, page)
    BY DEF SameCard
  <2> QED BY <1>1, <1>2, <1>3, <1>6, <2>1, SameCardStep
<1> QED BY <1>4, <1>5, <1>6 DEF Resumed

LEMMA StartNextKeepsInv ==
  ASSUME Inv, Patient, StartNext
  PROVE  Inv'
<1> DEFINE c == [create EXCEPT !.at = "sent", !.after = page.result]
<1>1. /\ create' = c /\ page' = page /\ saved' = saved
      /\ UNCHANGED <<serverVars, pending, gets, reviews>>
  BY DEF StartNext, outboxVars
<1>2. (\A g \in gets : g.kind # "resume") /\ ~ page.leaving /\ ~ Card(page)
  BY DEF StartNext, Idle, Card
<1>3. c \in CreateState /\ c.reply = create.reply
  BY DEF Inv, RepliesInv, PageOK, PageState, CreateOK, CreateState
<1>4. CreateOK(c)
  BY <1>3 DEF CreateOK, Inv, RepliesInv
<1> HIDE DEF c
<1>5. ~ page.reviewing
  BY <1>2 DEF Inv, WorkInv
<1>6. WorkInv'
  BY <1>1, <1>2, <1>5 DEF Inv, WorkInv, Card, AboutCard, IsLast
<1> QED BY <1>1, <1>4, <1>6, HandlerStep DEF Inv, SavedInv

LEMMA IdleCreateOK == CreateOK(IdleCreate) /\ IdleCreate.at = "idle"
BY ReplyFacts DEF CreateOK, IdleCreate, CreateState, Replies, Served

LEMMA CreatedKeepsInv ==
  ASSUME Inv, Created
  PROVE  Inv'
<1>1. /\ create.at = "got" /\ create' = IdleCreate /\ CreateOK(create)
      /\ UNCHANGED <<serverVars, pending, gets, reviews>>
  BY DEF Created, outboxVars, Inv, RepliesInv
<1>2. /\ ~ page.reviewing /\ (\A g \in gets : g.kind # "resume")
      /\ \A r \in reviews : ~ r.own
  BY <1>1, NoOwnCall DEF Inv, WorkInv
<1>3. PageOK(page) /\ page \in PageState
  BY DEF Inv, PageOK
<1>4. CASE create.reply \in Snapshot /\ page' = Show(page, create.reply) /\ saved' = NoLesson
  <2>1. PICK q : q = Show(page, create.reply)
    OBVIOUS
  <2>2. /\ q \in PageState /\ Showing(page, q, create.reply) /\ ~ q.reviewing
        /\ Served(create.reply)
    BY <1>1, <1>2, <1>3, <1>4, <2>1, ShowFacts DEF CreateOK
  <2> QED BY <1>1, <1>2, <1>4, <2>1, <2>2, ShowStep, IdleCreateOK
<1>5. CASE UNCHANGED <<page, saved>>
  <2>1. WorkInv'
    BY <1>1, <1>2, <1>5, IdleCreateOK DEF Inv, WorkInv, Card, AboutCard, IsLast
  <2> QED BY <1>1, <1>3, <1>5, <2>1, HandlerStep, IdleCreateOK DEF Inv, SavedInv
<1> QED BY <1>4, <1>5 DEF Created

\* The page is left, gone, back or loaded anew.
LEMMA LeaveKeepsInv ==
  ASSUME Inv, Leave
  PROVE  Inv'
<1> DEFINE p == page
           q == [Clear(p) EXCEPT !.leaving = TRUE]
<1>1. page' = q /\ UNCHANGED <<serverVars, pending, gets, create, reviews, saved>>
  BY DEF Leave, outboxVars
<1>2. p \in PageState /\ WorkInv
  BY DEF Inv, PageOK
<1>3. /\ q \in PageState /\ ~ q.started /\ ~ q.done /\ q.result = NoLesson /\ q.leaving = TRUE
      /\ q.mounted = p.mounted /\ q.reviewing = p.reviewing
  <2>1. PICK e \in PageState :
          /\ e = Clear(p) /\ ~ e.started /\ ~ e.done /\ e.result = NoLesson
          /\ e.mounted = p.mounted /\ e.reviewing = p.reviewing
    BY <1>2, ClearFacts
  <2>2. q = [e EXCEPT !.leaving = TRUE]
    BY <2>1
  <2> HIDE DEF q
  <2> QED BY <2>1, <2>2 DEF PageState
<1> HIDE DEF q
<1>4. ~ Card(q) /\ PageOK(q) /\ \A r : AboutCard(q, r)
  BY <1>3, NoCardPage DEF Card
<1>5. WorkInv'
  BY <1>1, <1>2, <1>3, <1>4, WorkMoves
<1> QED BY <1>1, <1>4, <1>5, HandlerStep DEF Inv, SavedInv

LEMMA GoComposeKeepsInv ==
  ASSUME Inv, GoCompose
  PROVE  Inv'
<1> DEFINE p == page
           q == [p EXCEPT !.leaving = TRUE]
<1>1. p \in PageState /\ (Card(p) /\ ~ p.adrift /\ ~ p.done => p.held.id = p.shown)
  BY DEF Inv, PageOK, CardOK
<1>2. page' = q /\ UNCHANGED <<serverVars, pending, gets, create, reviews, saved>>
  BY DEF GoCompose, outboxVars
<1>3. q \in PageState /\ SameCard(p, q)
  BY <1>1 DEF PageState, SameCard
<1>4. q.adrift = p.adrift /\ q.leaving = TRUE /\ q.reviewing = p.reviewing /\ q.held = p.held
  BY <1>1 DEF PageState
<1> HIDE DEF q
<1> QED BY <1>1, <1>2, <1>3, <1>4, SameCardStep

LEMMA UnmountKeepsInv ==
  ASSUME Inv, Unmount \/ Return \/ Reload
  PROVE  Inv'
<1>1. page' = FreshPage \/ page' = [FreshPage EXCEPT !.mounted = FALSE]
  BY DEF Unmount, Return, Reload
<1>2. PICK q : page' = q /\ (q = FreshPage \/ q = [FreshPage EXCEPT !.mounted = FALSE])
  BY <1>1
<1>3. q \in PageState /\ ~ q.started /\ ~ q.done /\ ~ q.reviewing /\ q.result = NoLesson
  BY <1>2, FreshFacts DEF PageState
<1>4. PageOK(q)
  BY <1>3, NoCardPage DEF Card
<1>5. /\ UNCHANGED <<serverVars, pending, saved>>
      /\ \A g \in gets' : g = LoadSent
      /\ create' = create \/ create' = IdleCreate
  BY DEF Unmount, Return, Reload, outboxVars
<1>6. \A r \in reviews' : ~ r.own /\ (r \in reviews \/ CallOK(r))
  <2>1. CASE Unmount
    <3> SUFFICES ASSUME NEW s \in reviews, NEW r, r = [s EXCEPT !.own = FALSE]
                 PROVE  ~ r.own /\ CallOK(r)
      BY <2>1 DEF Unmount
    <3>1. CallOK(s) /\ s \in CallState
      BY DEF Inv, RepliesInv, CallOK
    <3>2. r \in CallState /\ r.own = FALSE /\ r.at = s.at /\ r.reply = s.reply /\ r.review = s.review
      BY <3>1 DEF CallState
    <3> QED BY <3>1, <3>2 DEF CallOK
  <2>2. CASE Return
    BY <2>2, NoOwnCall DEF Return, Inv, WorkInv
  <2>3. CASE Reload
    BY <2>3 DEF Reload
  <2> QED BY <2>1, <2>2, <2>3
<1>7. WorkInv'
  BY <1>1, <1>2, <1>3, <1>5, <1>6, LoadSentOK, WorkSettles
<1>8. \A g \in gets' : GetOK(g)
  BY <1>5, LoadSentOK
<1> QED BY <1>1, <1>2, <1>4, <1>5, <1>6, <1>7, <1>8, HandlerStep, IdleCreateOK DEF Inv, SavedInv

\* The result that was kept is shown.
LEMMA RestoreKeepsInv ==
  ASSUME Inv, RestoreResult
  PROVE  Inv'
<1> DEFINE p == page
           q == [p EXCEPT !.result = saved, !.started = TRUE, !.complete = TRUE,
                          !.done = TRUE, !.next = 0]
<1>1. /\ page' = q /\ UNCHANGED <<serverVars, pending, gets, create, reviews, saved>>
      /\ saved # NoLesson /\ ~ p.started
  BY DEF RestoreResult, Restorable, outboxVars
<1>2. p \in PageState /\ WorkInv /\ saved \in Lesson /\ Completed(saved)
  BY <1>1 DEF Inv, PageOK, SavedInv
<1>3. /\ q \in PageState /\ q.complete = TRUE /\ q.result = saved /\ q.mounted = p.mounted
      /\ q.reviewing = p.reviewing /\ q.leaving = p.leaving
  BY <1>2 DEF PageState
<1> HIDE DEF q
<1>4. ~ Card(q) /\ PageOK(q) /\ \A r : AboutCard(q, r)
  BY <1>1, <1>2, <1>3, NoCardPage DEF Card
<1>5. WorkInv'
  <2>1. p.reviewing => q.leaving
    BY <1>1, <1>2, <1>3 DEF WorkInv, Card
  <2> QED BY <1>1, <1>2, <1>3, <1>4, <2>1, WorkMoves
<1> QED BY <1>1, <1>4, <1>5, HandlerStep DEF Inv, SavedInv

LEMMA MembershipIsBoolean ==
  ASSUME NEW x, NEW S
  PROVE  \E b \in BOOLEAN : b = (x \in S)
<1>1. CASE x \in S
  <2>1. TRUE = (x \in S)
    BY <1>1
  <2> QED BY <2>1
<1>2. CASE x \notin S
  <2>1. FALSE = (x \in S)
    BY <1>2
  <2> WITNESS FALSE \in BOOLEAN
  <2> QED BY <2>1
<1> QED BY <1>1, <1>2

LEMMA DecisionFacts ==
  /\ page.reviewing \/ Current \notin page.rated => Decision = "blocked"
  /\ Decision = "next" => page.next = page.at + 1 /\ ~ page.at + 1 >= Size(page.shown)
  /\ Decision = "results" => page.at + 1 >= Size(page.shown) /\ page.done
<1>1. page.reviewing \/ Current \notin page.rated => Decision = "blocked"
  BY DEF Decision
<1>2. Decision = "next" => page.next = page.at + 1 /\ ~ page.at + 1 >= Size(page.shown)
  BY DEF Decision
<1>3. Decision = "results" => page.at + 1 >= Size(page.shown) /\ page.done
  BY DEF Decision
<1> QED BY <1>1, <1>2, <1>3

\* The learner goes on: to the next card, or to the results.
LEMMA AdvanceKeepsInv ==
  ASSUME Inv, Advance
  PROVE  Inv'
<1> DEFINE p == page
<1>1. p \in PageState /\ PageOK(p) /\ WorkInv /\ Card(p)
  BY DEF Inv, PageOK, Advance, OnCard, Card
<1>2. p.shown \in Lesson /\ p.at < Size(p.shown) /\ (~ p.adrift => CardOK(p)) /\ Size(p.shown) \in Nat
  BY <1>1, LessonFacts DEF PageOK
<1>3. ~ p.reviewing /\ UNCHANGED <<serverVars, pending, gets, create, reviews, saved>>
  BY DecisionFacts DEF Advance, outboxVars
<1>4. \A r \in reviews : ~ r.own
  BY <1>1, <1>3, NoOwnCall
<1>5. CASE Decision = "next" /\ page' = [p EXCEPT !.at = p.next, !.next = 0,
                                                  !.revealed = Items[p.shown][p.next + 1] \in p.rated]
  <2>1. p.next = p.at + 1 /\ p.next < Size(p.shown)
    BY <1>1, <1>2, <1>5, DecisionFacts DEF PageState
  <2>2. PICK b \in BOOLEAN : b = (Items[p.shown][p.next + 1] \in p.rated)
    BY MembershipIsBoolean
  <2> DEFINE q == [p EXCEPT !.at = p.next, !.next = 0, !.revealed = b]
  <2>3. page' = q
    BY <1>5, <2>2
  <2>4. /\ q \in PageState /\ q.at = p.next /\ q.next = 0 /\ q.shown = p.shown /\ q.rated = p.rated
        /\ q.done = p.done /\ q.held = p.held /\ q.adrift = p.adrift
    BY <1>1, <2>1 DEF PageState
  <2>5. /\ q.mounted = p.mounted /\ q.started = p.started /\ q.complete = p.complete
        /\ q.result = p.result /\ q.reviewing = p.reviewing /\ q.leaving = p.leaving
    BY <1>1 DEF PageState
  <2> HIDE DEF q
  <2>6. ~ q.adrift => CardOK(q)
    <3> SUFFICES ASSUME ~ q.adrift PROVE CardOK(q)
      OBVIOUS
    <3>1. CardOK(p) /\ ~ p.done
      BY <1>1, <1>2, <2>1, <2>4 DEF CardOK, PageState
    <3>2. Answered(p) = p.next /\ Answered(q) = p.next
      BY <1>1, <2>1, <2>4, <3>1 DEF Answered, PageState
    <3> QED BY <2>4, <3>1, <3>2 DEF CardOK
  <2>7. PageOK(q)
    BY <1>1, <1>2, <2>1, <2>4, <2>5, <2>6 DEF PageOK, Card
  <2>8. WorkInv'
    BY <1>1, <1>3, <1>4, <2>3, <2>4, <2>5, WorkMoves DEF Card
  <2> QED BY <1>3, <2>3, <2>7, <2>8, HandlerStep DEF Inv, SavedInv
<1>6. CASE Decision = "results" /\ page' = [p EXCEPT !.complete = TRUE, !.queued = NoWord]
  <2> DEFINE q == [p EXCEPT !.complete = TRUE, !.queued = NoWord]
  <2>1. p.done
    BY <1>6, DecisionFacts
  <2>2. p.result # NoLesson
    BY <1>1, <1>4, <2>1 DEF WorkInv
  <2>3. /\ q \in PageState /\ q.complete = TRUE /\ q.result = p.result /\ q.mounted = p.mounted
        /\ q.reviewing = p.reviewing /\ q.leaving = p.leaving
    BY <1>1 DEF PageState
  <2>4. page' = q
    BY <1>6
  <2> HIDE DEF q
  <2>5. ~ Card(q) /\ PageOK(q)
    BY <1>1, <2>2, <2>3, NoCardPage DEF Card, PageOK
  <2>6. WorkInv'
    BY <1>1, <1>3, <1>4, <2>2, <2>3, <2>4, <2>5, WorkMoves
  <2> QED BY <1>3, <2>4, <2>5, <2>6, HandlerStep DEF Inv, SavedInv
<1> QED BY <1>5, <1>6 DEF Advance

\* rateCurrent is called: its request is about the card on screen.
LEMMA RateKeepsInv ==
  ASSUME Inv, Patient, Rate
  PROVE  Inv'
<1> DEFINE p == page
           w == [lesson |-> p.held.id, version |-> p.held.index + 1, word |-> Current]
           r == [review |-> w, rated |-> p.rated, own |-> TRUE,
                 again |-> w \in pending \cup settled, at |-> "sent", reply |-> Nothing]
           q == [p EXCEPT !.reviewing = TRUE]
<1>1. /\ reviews' = reviews \cup {r} /\ page' = q
      /\ pending' \subseteq pending \cup {w}
      /\ UNCHANGED <<serverVars, gets, create, saved>>
  BY DEF Rate
<1>2. /\ Card(p) /\ Current \notin p.rated /\ ~ p.reviewing /\ p.held # NotFound
      /\ create.at = "idle" /\ \A g \in gets : g.kind # "resume"
  BY DEF Rate, CanRate, OnCard, Card, Idle
<1>3. p \in PageState /\ PageOK(p) /\ WorkInv
  BY DEF Inv, PageOK
<1>4. p.shown \in Lesson /\ p.at \in Nat /\ p.at < Size(p.shown) /\ Size(p.shown) \in Nat
      /\ Current = Items[p.shown][p.at + 1]
  BY <1>2, <1>3, LessonFacts DEF PageOK, PageState, Current
<1>5. p.held \in Snapshot /\ Current \in Word
  BY <1>2, <1>3, <1>4, LessonFacts DEF PageState
<1>6. w \in Review
  BY <1>5 DEF Review, Snapshot
<1>7. w.lesson = p.held.id /\ w.word = Current
  OBVIOUS
<1> HIDE DEF w
<1>8. /\ r.review = w /\ r.rated = p.rated /\ r.own = TRUE /\ r.at = "sent" /\ r.reply = Nothing
      /\ r \in CallState
  <2>1. PICK b \in BOOLEAN : b = (w \in pending \cup settled)
    BY MembershipIsBoolean
  <2>2. p.rated \subseteq Word /\ Nothing \in Replies
    BY <1>3 DEF PageState, Replies
  <2> QED BY <1>6, <2>1, <2>2 DEF CallState
<1>9. CallOK(r)
  BY <1>8 DEF CallOK
<1> HIDE DEF r
<1>10. q \in PageState /\ SameCard(p, q)
  BY <1>3 DEF PageState, SameCard
<1>11. q.adrift = p.adrift /\ q.leaving = p.leaving /\ q.held = p.held /\ q.reviewing = TRUE
  BY <1>3 DEF PageState
<1> HIDE DEF q
<1>12. PageOK(q) /\ (Card(q) <=> Card(p))
  BY <1>3, <1>10, <1>11, PageKept DEF PageOK, CardOK
<1>13. AboutCard(q, r)
  <2> SUFFICES ASSUME ~ p.adrift
               PROVE  /\ r.review.lesson = p.shown /\ r.review.word = Items[p.shown][p.at + 1]
                      /\ r.rated = p.rated /\ ~ p.done /\ p.next = 0
    BY <1>10, <1>11 DEF AboutCard, SameCard
  <2>1. CardOK(p)
    BY <1>2, <1>3 DEF PageOK
  <2>2. ~ (p.done \/ p.next # 0)
    <3> SUFFICES ASSUME p.done \/ p.next # 0 PROVE FALSE
      OBVIOUS
    <3>1. Answered(p) = p.at + 1
      BY DEF Answered
    <3> QED BY <1>2, <1>4, <2>1, <3>1 DEF CardOK
  <2> QED BY <1>4, <1>7, <1>8, <2>1, <2>2 DEF CardOK
<1>14. WorkInv'
  <2>1. \A s \in reviews : ~ s.own
    BY <1>2, <1>3, NoOwnCall
  <2>2. p.mounted /\ q.mounted = p.mounted /\ q.done = p.done /\ q.result = p.result
    BY <1>2, <1>10 DEF Card, SameCard
  <2>3. \A s \in reviews' : s.own => s = r
    BY <1>1, <2>1
  <2>4. q.done => q.result # NoLesson
    BY <1>3, <2>1, <2>2 DEF WorkInv
  <2> QED BY <1>1, <1>2, <1>11, <1>12, <1>13, <2>2, <2>3, <2>4 DEF WorkInv, Card, AboutCard, IsLast
<1>15. ServerInv' /\ Grows
  BY <1>1, <1>6, StillStands DEF Inv, ServerInv
<1>16. RepliesInv'
  BY <1>1, <1>9, <1>15, CallGrows, RepliesStand DEF Inv
<1>17. PageOK(page)'
  <2>1. PICK z : z = q
    OBVIOUS
  <2>2. PageOK(z)'
    BY <1>12, <1>15, <2>1, PageGrows DEF Inv
  <2>3. page' = z
    BY <1>1, <2>1
  <2> QED BY <2>2, <2>3 DEF PageOK, Card, CardOK, Answered, Completed
<1> QED BY <1>1, <1>14, <1>15, <1>16, <1>17, SavedGrows DEF Inv

\* The page's own call, which found nothing, returns.
LEMMA CallReturns ==
  ASSUME Inv, NEW r \in reviews, r.own, r.at # "progress", reviews' = reviews \ {r},
         UNCHANGED <<serverVars, pending, gets, create, saved>>,
         NEW q \in PageState, page' = q, SameCard(page, q), ~ q.reviewing,
         q.adrift = page.adrift, q.held = page.held
  PROVE  Inv'
<1>1. WorkInv /\ page.reviewing /\ \A g \in gets : g.kind # "resume"
  BY DEF Inv, WorkInv
<1>2. PageOK(q)
  BY PageKept DEF Inv, PageOK, CardOK
<1>3. \A y \in reviews' : ~ y.own
  BY <1>1 DEF WorkInv
<1>4. q.done => q.result # NoLesson
  BY <1>1 DEF WorkInv, SameCard
<1>5. WorkInv'
  BY <1>1, <1>3, <1>4, WorkSettles
<1> QED BY <1>2, <1>5, HandlerStep DEF Inv, SavedInv

\* What the reply of a completed lesson says is so.
LEMMA LastIsCompleted ==
  ASSUME ServerInv, NEW r \in CallState, Taken(r.review, r.reply), IsLast(r.reply)
  PROVE  r.reply.id \in Lesson /\ Completed(r.reply.id)
<1>1. /\ r.review.lesson \in Lesson /\ r.review.version \in Nat
      /\ r.reply.id = r.review.lesson /\ r.reply.index = r.review.version
      /\ r.review.version <= index[r.review.lesson]
  BY AfterIsSnapshot DEF CallState, Taken, Review
<1>2. /\ index[r.reply.id] \in Nat /\ Size(r.reply.id) \in Nat
      /\ index[r.reply.id] <= Size(r.reply.id)
      /\ (index[r.reply.id] = Size(r.reply.id) => status[r.reply.id] = "completed")
  BY <1>1, LessonFacts DEF ServerInv
<1> QED BY <1>1, <1>2 DEF IsLast, Completed

\* A saved review is shown.
Recorded(p, q, r) ==
  /\ q.mounted = p.mounted /\ q.started = p.started /\ q.complete = p.complete
  /\ q.shown = p.shown /\ q.at = p.at /\ q.result = p.result /\ q.adrift = p.adrift
  /\ q.reviewing = p.reviewing /\ q.leaving = p.leaving
  /\ q.rated = r.rated \cup {r.review.word}
  /\ q.done <=> IsLast(r.reply)
  /\ q.next = IF IsLast(r.reply) THEN 0 ELSE r.reply.index
  /\ ~ IsLast(r.reply) /\ p.held # NotFound => q.held.id = p.held.id

LEMMA SnapshotMoves ==
  ASSUME NEW s \in Snapshot, NEW n \in Nat
  PROVE  [s EXCEPT !.index = n] \in Snapshot /\ [s EXCEPT !.index = n].id = s.id
BY DEF Snapshot

GoingOn(e, n, h) == [e EXCEPT !.done = FALSE, !.next = n, !.held = h]

LEMMA GoingOnFacts ==
  ASSUME NEW e \in PageState, NEW n \in Nat, NEW h \in Snapshot \cup {NotFound}
  PROVE  /\ GoingOn(e, n, h) \in PageState /\ ~ GoingOn(e, n, h).done
         /\ GoingOn(e, n, h).next = n /\ GoingOn(e, n, h).held = h
BY DEF GoingOn, PageState

LEMMA RecordFacts ==
  ASSUME NEW p \in PageState, NEW r \in CallState, r.reply \in Snapshot
  PROVE  Record(p, r) \in PageState /\ Recorded(p, Record(p, r), r)
<1> DEFINE e == [p EXCEPT !.rated = r.rated \cup {r.review.word}]
<1>1. /\ r.reply.index \in Nat /\ r.rated \cup {r.review.word} \subseteq Word
  BY DEF Snapshot, CallState, Review
<1>2. /\ e \in PageState /\ e.rated = r.rated \cup {r.review.word} /\ e.held = p.held
      /\ e.mounted = p.mounted /\ e.started = p.started /\ e.complete = p.complete
      /\ e.shown = p.shown /\ e.at = p.at /\ e.result = p.result /\ e.adrift = p.adrift
      /\ e.reviewing = p.reviewing /\ e.leaving = p.leaving
  BY <1>1 DEF PageState
<1>3. CASE IsLast(r.reply)
  <2> DEFINE q == [e EXCEPT !.done = TRUE, !.next = 0, !.held = NotFound]
  <2>1. (r.reply.index = Size(r.reply.id)) = TRUE
    BY <1>3 DEF IsLast
  <2>2. Record(p, r) = q
    BY <2>1 DEF Record, PageState
  <2> HIDE DEF e
  <2>3. q \in PageState /\ q.done = TRUE /\ q.next = 0
    BY <1>2 DEF PageState
  <2>4. Recorded(p, q, r)
    BY <1>2, <1>3, <2>3 DEF PageState, Recorded
  <2> QED BY <2>2, <2>3, <2>4
<1>4. CASE ~ IsLast(r.reply)
  <2>1. (r.reply.index = Size(r.reply.id)) = FALSE
    BY <1>4 DEF IsLast
  <2>2. PICK h \in Snapshot \cup {NotFound} :
          /\ h = IF p.held = NotFound THEN NotFound ELSE [p.held EXCEPT !.index = r.reply.index]
          /\ p.held # NotFound => h.id = p.held.id
    <3>1. p.held \in Snapshot \cup {NotFound}
      BY DEF PageState
    <3>2. CASE p.held = NotFound
      BY <3>2
    <3>3. CASE p.held # NotFound
      <4>1. /\ [p.held EXCEPT !.index = r.reply.index] \in Snapshot
            /\ [p.held EXCEPT !.index = r.reply.index].id = p.held.id
        BY <1>1, <3>1, <3>3, SnapshotMoves
      <4> QED BY <3>3, <4>1
    <3> QED BY <3>2, <3>3
  <2> DEFINE q == [e EXCEPT !.done = FALSE, !.next = r.reply.index, !.held = h]
  <2>3. Record(p, r) = q
    BY <2>1, <2>2 DEF Record, PageState
  <2> HIDE DEF e
  <2>4. q \in PageState /\ ~ q.done /\ q.next = r.reply.index /\ q.held = h
    <3>1. PICK f \in PageState : f = e
      BY <1>2
    <3>2. PICK n \in Nat : n = r.reply.index
      BY <1>1
    <3>3. PICK g : g = GoingOn(f, n, h)
      OBVIOUS
    <3>4. g \in PageState /\ ~ g.done /\ g.next = n /\ g.held = h
      BY <2>2, <3>3, GoingOnFacts
    <3>5. q = g
      BY <3>1, <3>2, <3>3 DEF GoingOn
    <3> HIDE DEF q
    <3> QED BY <3>2, <3>4, <3>5
  <2>5. Recorded(p, q, r)
    BY <1>2, <1>4, <2>2, <2>4 DEF PageState, Recorded
  <2> QED BY <2>3, <2>4, <2>5
<1> QED BY <1>3, <1>4

LEMMA RecordedOK ==
  ASSUME ServerInv, NEW p \in PageState, PageOK(p), NEW r \in CallState,
         Taken(r.review, r.reply), AboutCard(p, r),
         NEW q \in PageState, Recorded(p, q, r)
  PROVE  PageOK(q)
<1>1. Card(q) <=> Card(p)
  BY DEF Card, Recorded
<1>2. ASSUME Card(p), ~ p.adrift
      PROVE  CardOK(q)
  <2> DEFINE l == p.shown
             v == r.review.version
  <2>1. /\ l \in Lesson /\ p.at \in Nat /\ p.at < Size(l) /\ CardOK(p)
        /\ r.review.lesson = l /\ r.review.word = Items[l][p.at + 1] /\ r.rated = p.rated
        /\ ~ p.done /\ p.next = 0
    BY <1>2 DEF PageOK, PageState, AboutCard
  <2>2. /\ r.reply.id = l /\ r.reply.index = v /\ v \in Nat \ {0} /\ v <= index[l]
        /\ Items[l][v] = Items[l][p.at + 1]
    BY <2>1, AfterIsSnapshot DEF Taken, CallState, Review
  <2>3. index[l] \in Nat /\ Size(l) \in Nat /\ index[l] <= Size(l)
    BY <2>1, LessonFacts DEF ServerInv
  <2>4. v = p.at + 1
    BY <2>1, <2>2, <2>3, LessonFacts
  <2>5. p.rated = {Items[l][k] : k \in 1 .. p.at} /\ p.held.id = l
    BY <2>1 DEF CardOK, Answered
  <2>6. p.held # NotFound
    BY <2>1, <2>5, ReplyFacts, NoLessonIsNone
  <2>7. Answered(q) = p.at + 1
    BY <2>1, <2>2, <2>4 DEF Recorded, Answered, IsLast, PageState
  <2>8. q.rated = {Items[l][k] : k \in 1 .. p.at + 1}
    <3>1. 1 .. p.at + 1 = (1 .. p.at) \cup {p.at + 1}
      BY <2>1
    <3> QED BY <2>1, <2>5, <3>1 DEF Recorded
  <2>9. q.shown = l /\ q.at = p.at /\ (q.done <=> IsLast(r.reply))
    BY DEF Recorded
  <2>10. IsLast(r.reply) <=> p.at + 1 = Size(l)
    BY <2>2, <2>4 DEF IsLast
  <2> HIDE DEF l, v
  <2>11. q.next # 0 => q.next = p.at + 1 /\ q.next < Size(l)
    BY <2>1, <2>2, <2>3, <2>4, <2>10 DEF Recorded
  <2>12. ~ q.done => q.held.id = l
    BY <2>5, <2>6, <2>9 DEF Recorded
  <2> QED BY <2>2, <2>4, <2>7, <2>8, <2>9, <2>10, <2>11, <2>12 DEF CardOK
<1> QED BY <1>1, <1>2 DEF PageOK, Recorded

LEMMA HandledKeepsInv ==
  ASSUME Inv, NEW r \in reviews, ReviewHandled(r)
  PROVE  Inv'
<1>1. /\ CallOK(r) /\ r \in CallState /\ r.at = "got" /\ WorkInv /\ PageOK(page) /\ page \in PageState
      /\ UNCHANGED <<serverVars, pending, gets, create, saved>>
  BY DEF ReviewHandled, outboxVars, Inv, RepliesInv, CallOK, PageOK
<1>2. SavedInv'
  BY <1>1 DEF Inv, SavedInv, Completed, serverVars
<1>3. CASE r.reply \in Snapshot /\ page' = (IF r.own THEN Record(page, r) ELSE page)
           /\ reviews' = (reviews \ {r}) \cup {[r EXCEPT !.at = "progress"]}
  <2>1. PICK x \in CallState : x = [r EXCEPT !.at = "progress"]
    BY <1>1 DEF CallState
  <2>2. /\ x.own = r.own /\ x.review = r.review /\ x.reply = r.reply /\ x.at = "progress"
        /\ Taken(r.review, r.reply)
    BY <1>1, <1>3, <2>1 DEF CallState, CallOK
  <2>3. CallOK(x)
    BY <1>3, <2>2 DEF CallOK
  <2>4. CASE ~ r.own
    BY <1>1, <1>2, <1>3, <2>1, <2>2, <2>3, <2>4, StaleCallKeepsInv DEF CallState
  <2>5. CASE r.own
    <3>1. PICK q \in PageState : q = Record(page, r) /\ Recorded(page, q, r)
      BY <1>1, <1>3, RecordFacts
    <3>2. page' = q
      BY <1>3, <2>5, <3>1
    <3>3. PageOK(q)
      BY <1>1, <2>2, <2>5, <3>1, RecordedOK DEF Inv, WorkInv
    <3>4. \A y \in reviews' : (y \in reviews /\ ~ y.own) \/ y = x
      BY <1>1, <1>3, <2>1, <2>5 DEF WorkInv
    <3>5. WorkInv'
      <4>1. q.reviewing = page.reviewing /\ q.mounted = page.mounted /\ q.leaving = page.leaving
            /\ (Card(q) <=> Card(page)) /\ (q.done <=> IsLast(x.reply))
        BY <2>2, <3>1 DEF Recorded, Card
      <4>2. x \in reviews'
        BY <1>3, <2>1
      <4> QED BY <1>1, <2>2, <2>5, <3>2, <3>4, <4>1, <4>2 DEF WorkInv, Card, AboutCard, IsLast
    <3> QED BY <1>1, <2>3, <3>2, <3>3, <3>4, <3>5, HandlerStep DEF Inv, SavedInv
  <2> QED BY <2>4, <2>5
<1>4. CASE r.reply = Refused /\ page' = page
           /\ reviews' = (reviews \ {r}) \cup {[r EXCEPT !.at = "resync"]}
  <2>1. PICK x \in CallState : x = [r EXCEPT !.at = "resync"]
    BY <1>1 DEF CallState
  <2>2. /\ x.own = r.own /\ x.review = r.review /\ x.rated = r.rated /\ x.at = "resync"
    BY <1>1, <2>1 DEF CallState
  <2>3. CallOK(x)
    BY <2>2 DEF CallOK
  <2>4. ServerInv' /\ Grows
    BY <1>1, StillStands DEF Inv, ServerInv
  <2>5. CallOK(x)'
    BY <2>3, <2>4, CallGrows DEF Inv
  <2> QED BY <1>1, <1>4, <2>1, <2>2, <2>4, <2>5, CallMoves
<1>5. CASE /\ r.reply = Failed /\ reviews' = reviews \ {r}
           /\ page' = IF ~ r.own THEN page
                      ELSE [page EXCEPT !.reviewing = FALSE,
                                        !.queued = IF OnCard /\ Current = r.review.word
                                                   THEN r.review.word ELSE @]
  <2>1. CASE ~ r.own
    BY <1>1, <1>2, <1>5, <2>1, StaleCallKeepsInv DEF CallState
  <2>2. CASE r.own
    <3>1. PICK w \in Word \cup {NoWord} :
            w = IF OnCard /\ Current = r.review.word THEN r.review.word ELSE page.queued
      BY <1>1 DEF CallState, Review, PageState
    <3>2. PICK q : q = [page EXCEPT !.reviewing = FALSE, !.queued = w]
      OBVIOUS
    <3>3. page' = q
      BY <1>5, <2>2, <3>1, <3>2
    <3>4. q \in PageState /\ SameCard(page, q)
      <4>1. q \in PageState
        BY <1>1, <3>1, <3>2 DEF PageState
      <4>2. SameCard(page, q)
        BY <1>1, <3>2 DEF PageState, SameCard
      <4> QED BY <4>1, <4>2
    <3>5. ~ q.reviewing /\ q.adrift = page.adrift /\ q.held = page.held
      BY <1>1, <3>2 DEF PageState
    <3> QED BY <1>1, <1>5, <2>2, <3>3, <3>4, <3>5, CallReturns
  <2> QED BY <2>1, <2>2
<1> QED BY <1>3, <1>4, <1>5 DEF ReviewHandled

\* rateCurrent returns, with the result of a lesson that is completed.
LEMMA EndsKeepsInv ==
  ASSUME Inv, NEW r \in reviews, ReviewEnds(r)
  PROVE  Inv'
<1>1. /\ CallOK(r) /\ r \in CallState /\ r.at = "progress" /\ Taken(r.review, r.reply)
      /\ WorkInv /\ PageOK(page) /\ page \in PageState /\ SavedInv
      /\ UNCHANGED <<serverVars, pending, gets, create>>
  BY DEF ReviewEnds, outboxVars, Inv, RepliesInv, CallOK, PageOK
<1>2. reviews' = reviews \ {r} /\ saved' = ResultOf(r, saved)
  BY DEF ReviewEnds
<1>3. ASSUME NEW l \in Lesson \cup {NoLesson}, l # NoLesson => Completed(l)
      PROVE  /\ ResultOf(r, l) \in Lesson \cup {NoLesson}
             /\ ResultOf(r, l) # NoLesson => Completed(ResultOf(r, l))
             /\ IsLast(r.reply) \/ l # NoLesson => ResultOf(r, l) # NoLesson
  <2>1. CASE IsLast(r.reply)
    BY <1>1, <2>1, LastIsCompleted, NoLessonIsNone DEF ResultOf, IsLast, Inv
  <2>2. CASE ~ IsLast(r.reply)
    BY <1>3, <2>2 DEF ResultOf, IsLast
  <2> QED BY <2>1, <2>2
<1>4. PICK k \in Lesson \cup {NoLesson} : saved' = k /\ (k # NoLesson => Completed(k))
  BY <1>1, <1>2, <1>3 DEF SavedInv
<1>5. CASE ~ r.own
  <2>1. page' = page /\ r.own = FALSE
    BY <1>1, <1>5 DEF ReviewEnds, CallState
  <2>2. SavedInv'
    BY <1>1, <1>4 DEF SavedInv, Completed, serverVars
  <2> QED BY <1>1, <1>2, <1>5, <2>1, <2>2, StaleCallKeepsInv
<1>6. CASE r.own
  <2>1. page.result \in Lesson \cup {NoLesson} /\ (page.result # NoLesson => Completed(page.result))
    BY <1>1 DEF PageOK, PageState
  <2>2. PICK m \in Lesson \cup {NoLesson} :
          /\ m = ResultOf(r, page.result) /\ (m # NoLesson => Completed(m))
          /\ (IsLast(r.reply) \/ page.result # NoLesson) => m # NoLesson
    BY <1>3, <2>1
  <2>3. PICK q : q = [page EXCEPT !.reviewing = FALSE, !.result = m]
    OBVIOUS
  <2>4. page' = q
    BY <1>6, <2>2, <2>3 DEF ReviewEnds
  <2>5. /\ q \in PageState /\ ~ q.reviewing /\ q.result = m /\ q.adrift = page.adrift
        /\ q.held = page.held /\ q.next = page.next
    BY <1>1, <2>3 DEF PageState
  <2>6. /\ q.mounted = page.mounted /\ q.started = page.started /\ q.complete = page.complete
        /\ q.shown = page.shown /\ q.at = page.at /\ q.rated = page.rated /\ q.done = page.done
    BY <1>1, <2>3 DEF PageState
  <2>7. PageOK(q)
    <3>1. Card(q) <=> Card(page)
      BY <2>6 DEF Card
    <3>2. CardOK(page) => CardOK(q)
      BY <2>5, <2>6 DEF CardOK, Answered
    <3> QED BY <1>1, <2>2, <2>5, <2>6, <3>1, <3>2 DEF PageOK
  <2>8. \A y \in reviews' : ~ y.own
    BY <1>1, <1>2, <1>6 DEF WorkInv
  <2>9. q.done => q.result # NoLesson
    BY <1>1, <1>6, <2>2, <2>5, <2>6 DEF WorkInv
  <2>10. WorkInv'
    <3>1. \A g \in gets' : g.kind # "resume"
      BY <1>1, <1>6 DEF WorkInv
    <3> QED BY <2>4, <2>5, <2>8, <2>9, <3>1, WorkSettles
  <2> QED BY <1>1, <1>2, <1>4, <2>4, <2>7, <2>10, HandlerStep
<1> QED BY <1>5, <1>6

\* The lesson that was read again comes on screen.
LEMMA ResyncedKeepsInv ==
  ASSUME Inv, NEW r \in reviews, Resynced(r)
  PROVE  Inv'
<1>1. /\ CallOK(r) /\ r \in CallState /\ r.at = "resynced" /\ Served(r.reply)
      /\ WorkInv /\ PageOK(page) /\ page \in PageState /\ SavedInv
      /\ reviews' = reviews \ {r}
      /\ UNCHANGED <<serverVars, pending, gets, create>>
  BY DEF Resynced, outboxVars, Inv, RepliesInv, CallOK, PageOK
<1>2. CASE ~ r.own
  <2>1. page' = page /\ r.own = FALSE /\ saved' \in {saved, NoLesson}
    BY <1>1, <1>2 DEF Resynced, CallState
  <2>2. SavedInv'
    BY <1>1, <2>1 DEF SavedInv, Completed, serverVars
  <2> QED BY <1>1, <1>2, <2>1, <2>2, StaleCallKeepsInv
<1>3. CASE r.own
  <2>1. /\ \A y \in reviews' : ~ y.own
        /\ \A g \in gets' : g.kind # "resume"
        /\ page.reviewing
    BY <1>1, <1>3 DEF WorkInv
  <2>2. CASE r.reply \in Snapshot /\ page' = [Show(page, r.reply) EXCEPT !.reviewing = FALSE]
             /\ saved' = NoLesson
    <3>1. PICK e \in PageState : e = Show(page, r.reply) /\ Showing(page, e, r.reply)
      BY <1>1, <2>2, ShowFacts
    <3>2. PICK q : q = [e EXCEPT !.reviewing = FALSE]
      OBVIOUS
    <3>3. q \in PageState /\ ~ q.reviewing /\ Showing(page, q, r.reply)
      BY <3>1, <3>2 DEF PageState, Showing
    <3>4. page' = q
      BY <2>2, <3>1, <3>2
    <3> QED BY <1>1, <2>1, <2>2, <3>3, <3>4, ShowStep
  <2>3. CASE page' = [Clear(page) EXCEPT !.held = NotFound, !.leaving = TRUE, !.reviewing = FALSE]
             /\ UNCHANGED saved
    <3>1. PICK e \in PageState : e = Clear(page) /\ e.started = FALSE /\ e.done = FALSE /\ e.result = NoLesson
      BY <1>1, ClearFacts
    <3>2. PICK q : q = [e EXCEPT !.held = NotFound, !.leaving = TRUE, !.reviewing = FALSE]
      OBVIOUS
    <3>3. q \in PageState /\ ~ q.reviewing /\ ~ q.started /\ ~ q.done /\ q.result = NoLesson
      BY <3>1, <3>2 DEF PageState
    <3>4. page' = q
      BY <2>3, <3>1, <3>2
    <3>5. PageOK(q)
      BY <3>3, NoCardPage DEF Card
    <3>6. WorkInv'
      BY <2>1, <3>3, <3>4, WorkSettles
    <3> QED BY <1>1, <2>3, <3>4, <3>5, <3>6, HandlerStep DEF SavedInv
  <2>4. CASE page' = [page EXCEPT !.reviewing = FALSE] /\ UNCHANGED saved
    <3>1. PICK q : q = [page EXCEPT !.reviewing = FALSE]
      OBVIOUS
    <3>2. q \in PageState /\ SameCard(page, q)
      BY <1>1, <3>1 DEF PageState, SameCard
    <3>3. ~ q.reviewing /\ q.adrift = page.adrift /\ q.held = page.held
      BY <1>1, <3>1 DEF PageState
    <3>4. page' = q
      BY <2>4, <3>1
    <3> QED BY <1>1, <1>3, <2>4, <3>2, <3>3, <3>4, CallReturns
  <2> QED BY <1>3, <2>2, <2>3, <2>4 DEF Resynced
<1> QED BY <1>2, <1>3

-----------------------------------------------------------------------------
(* The theorems                                                             *)

LEMMA InitInv ==
  ASSUME Init
  PROVE  Inv
<1>1. ServerInv
  <2>1. status \in [Lesson -> {"absent", "active", "completed", "discarded"}]
        /\ index \in [Lesson -> Nat]
    BY DEF Init
  <2>2. \A l \in Lesson : index[l] <= Size(l) /\ index[l] # Size(l)
    BY LessonFacts DEF Init
  <2> QED BY <2>1, <2>2 DEF Init, ServerInv
<1>2. RepliesInv
  BY LoadSentOK, IdleCreateOK DEF Init, RepliesInv
<1>3. PageOK(page)
  BY FreshFacts, NoCardPage DEF Init, Card
<1>4. WorkInv
  BY FreshFacts, LoadSentOK DEF Init, WorkInv
<1> QED BY <1>1, <1>2, <1>3, <1>4 DEF Init, Inv, SavedInv

LEMMA NextKeepsInv ==
  ASSUME Inv, Patient, [Next]_vars
  PROVE  Inv'
<1>1. CASE UNCHANGED vars
  <2>1. ServerInv' /\ Grows
    BY <1>1, StillStands DEF vars, serverVars, Inv, ServerInv
  <2> QED BY <1>1, <2>1, OutsideStep DEF vars
<1>2. CASE OtherDevice
  BY <1>2, OtherDeviceKeepsInv
<1>3. CASE \E q \in pending : Deliver(q)
  BY <1>3, DeliverKeepsInv
<1>4. CASE \E g \in gets : GetAnswered(g) \/ Loaded(g) \/ Resumed(g)
  BY <1>4, GetAnsweredKeepsInv, LoadKeepsInv, ResumedKeepsInv
<1>5. CASE SessionRefreshed \/ RetryLoad
  BY <1>5, LoadKeepsInv
<1>6. CASE Resume \/ Reveal \/ Rate
  BY <1>6, ResumeKeepsInv, RevealKeepsInv, RateKeepsInv
<1>7. CASE \E r \in reviews : ReviewStep(r)
  BY <1>7, AnsweredKeepsInv, HandledKeepsInv, EndsKeepsInv, ResyncKeepsInv, ResyncedKeepsInv
     DEF ReviewStep
<1>8. CASE Advance \/ RestoreResult
  BY <1>8, AdvanceKeepsInv, RestoreKeepsInv
<1>9. CASE StartNext \/ CreateAnswered \/ Created
  BY <1>9, StartNextKeepsInv, CreateKeepsInv, CreatedKeepsInv
<1>10. CASE Leave \/ GoCompose
  BY <1>10, LeaveKeepsInv, GoComposeKeepsInv
<1>11. CASE Unmount \/ Return \/ Reload
  BY <1>11, UnmountKeepsInv
<1> QED BY <1>1, <1>2, <1>3, <1>4, <1>5, <1>6, <1>7, <1>8, <1>9, <1>10, <1>11 DEF Next

\* A card whose answer is not saved is not rated, and one whose answer is can
\* be left.
LEMMA CardFollows ==
  ASSUME Inv
  PROVE  CardFollowsServer
<1> SUFFICES ASSUME Sound
             PROVE  /\ page.at <= index[page.shown]
                    /\ page.rated \subseteq Reviewed(page.shown)
                    /\ \A p \in 1 .. page.at : Items[page.shown][p] \in page.rated
                    /\ (Current \in page.rated /\ ~ page.reviewing => Decision # "blocked")
  BY DEF CardFollowsServer
<1> DEFINE l == page.shown
<1>1. l \in Lesson /\ page.at \in Nat /\ page.next \in Nat /\ page.at < Size(l) /\ CardOK(page)
  BY DEF Inv, PageOK, Sound, OnCard, Card, PageState
<1>2. index[l] \in Nat /\ index[l] <= Size(l) /\ Size(l) \in Nat
  BY <1>1, LessonFacts DEF Inv, ServerInv
<1>3. Answered(page) \in {page.at, page.at + 1} /\ Answered(page) <= index[l]
      /\ page.rated = {Items[l][p] : p \in 1 .. Answered(page)}
  BY <1>1 DEF Answered, CardOK
<1>4. page.at <= index[l] /\ (\A p \in 1 .. page.at : Items[l][p] \in page.rated)
      /\ page.rated \subseteq Reviewed(l)
  BY <1>1, <1>2, <1>3 DEF Reviewed
<1>5. ASSUME Current \in page.rated, ~ page.reviewing
      PROVE  Decision # "blocked"
  <2>1. Answered(page) = page.at + 1
    <3> SUFFICES ASSUME Answered(page) = page.at PROVE FALSE
      BY <1>3
    <3>1. PICK p \in 1 .. page.at : Items[l][page.at + 1] = Items[l][p]
      BY <1>3, <1>5 DEF Current
    <3> QED BY <1>1, <1>2, <3>1, LessonFacts
  <2>2. page.done \/ page.next # 0
    BY <1>1, <2>1 DEF Answered
  <2>3. CASE page.done
    BY <1>1, <1>2, <1>5, <2>3 DEF Decision, CardOK
  <2>4. CASE ~ page.done
    BY <1>1, <1>2, <1>5, <2>2, <2>4 DEF Decision, CardOK
  <2> QED BY <2>3, <2>4
<1> QED BY <1>4, <1>5

LEMMA InvHolds == Patient /\ Spec => []Inv
<1> SUFFICES ASSUME Patient PROVE Spec => []Inv
  OBVIOUS
<1>1. Init => Inv
  BY InitInv
<1>2. Inv /\ [Next]_vars => Inv'
  BY NextKeepsInv
<1> QED BY <1>1, <1>2, PTL DEF Spec

\* However late and in whatever order the replies to its loads, resumes, reviews
\* and resynchronisations come, and whatever other devices do to the lesson, the
\* page of a patient learner shows as rated only what the server has recorded, is
\* never ahead of it, and never leaves a saved answer with no way on.
THEOREM CardsFollowTheServer == Patient /\ Spec => []CardFollowsServer
<1>1. Inv => CardFollowsServer
  BY CardFollows
<1> QED BY <1>1, InvHolds, PTL

\* A result that is shown, or kept in the storage of the tab, is of a lesson the
\* server has completed, and the screen of the results has one to show.
THEOREM ResultsAreEarned == Patient /\ Spec => []ResultIsOfCompletedLesson
<1>1. Inv => ResultIsOfCompletedLesson
  BY DEF Inv, SavedInv, PageOK, ResultIsOfCompletedLesson
<1> QED BY <1>1, InvHolds, PTL
=============================================================================
