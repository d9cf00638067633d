---------------------------- MODULE LessonServer ----------------------------
(***************************************************************************)
(* The HTTP handlers over the lesson tables, one step per database         *)
(* statement or transaction they issue.  A review carrying an              *)
(* Idempotency-Key is not one transaction (lesson_review_idempotency.go):  *)
(* the key is looked up, the review committed, and the response stored by  *)
(* three separate statements, with a recovery query when the review is     *)
(* refused.  Handlers run concurrently and may stop between any two        *)
(* statements: the process exits, or the client goes away and the request  *)
(* context it cancels aborts the next query.                               *)
(***************************************************************************)
EXTENDS LessonStore

CONSTANTS
  Request,    \* review requests being handled
  Reader,     \* create and read requests being handled
  NoRequest,
  NoResult,
  NoRow

ASSUME ServerAssumption ==
  /\ NoResult \notin [event : Nat, schedule : Nat, index : Nat, version : Nat,
                      completed : BOOLEAN]

VARIABLES
  idem,      \* lesson_review_idempotency: unexpired rows by key
  pc,        \* per review request, the next statement of its handler
  req,       \* the request it carries
  result,    \* the LessonReviewResult it holds or has answered with
  reply,     \* the error it answers with, "ok", or "none" yet
  reader,    \* per create or read request, the lesson it is about to fetch
  purging    \* custom words whose delete has run its first statement

requestVars == <<pc, req, result, reply>>
serverVars  == <<idem, pc, req, result, reply, reader, purging>>
vars == <<status, config, items, index, version, reviewed, recent, words,
          userWord, events, nextId, idem, pc, req, result, reply, reader,
          purging>>

Result == [event : Nat, schedule : Nat, index : Nat, version : Nat,
           completed : BOOLEAN]

\* The requests clients send: at most one per review of a lesson's items, at
\* a version a lesson of LessonSize items can have.
ReviewRequests == [key : Key \cup {NoKey}, lesson : Lesson, word : Word,
                   version : 1 .. LessonSize + 1, config : Config, answer : Answer]

\* request_hash covers every field but the key.
Fingerprint(q) == [q EXCEPT !.key = NoKey]
Row == [hash : ReviewRequest, result : Result]

Recoverable == {"ErrLessonVersionConflict", "ErrLessonItemAlreadyReviewed",
                "ErrLessonItemOutOfOrder", "ErrLessonItemNotFound"}
Replies == Recoverable \cup {"none", "ok", "ErrLessonModeMismatch",
                             "ErrIdempotencyKeyReused", "internal_error"}

\* "fetch" after the first read of ActiveLesson, "fetchNew" after a create;
\* "missing" answers 404, "failed" answers 500.
ReaderState == {"idle", "fetch", "fetchNew", "attach", "found", "missing", "failed"}
IdleReader == [state |-> "idle", lesson |-> NoLesson, count |-> 0, version |-> 0]

ServerTypeOK ==
  /\ idem \in [Key -> Row \cup {NoRow}]
  /\ pc \in [Request -> {"idle", "load", "review", "recover", "store", "compare", "done"}]
  /\ req \in [Request -> ReviewRequest \cup {NoRequest}]
  /\ \A r \in Request : pc[r] # "idle" => req[r] \in ReviewRequest
  /\ \A r \in Request : pc[r] \in {"load", "recover", "store", "compare"} => req[r].key \in Key
  /\ result \in [Request -> Result \cup {NoResult}]
  /\ \A r \in Request : pc[r] \in {"store", "compare"} => result[r] \in Result
  /\ reply \in [Request -> Replies]
  /\ reader \in [Reader -> [state : ReaderState, lesson : Lesson \cup {NoLesson},
                            count : 0 .. LessonSize, version : Nat]]
  /\ \A d \in Reader :
       reader[d].state \in {"fetch", "fetchNew", "attach", "found"} => reader[d].lesson \in Lesson
  /\ purging \in SUBSET CustomWord

\* The tables, and the rows, requests and lessons in the handlers' hands,
\* keep their types: positions and current_index fit the lesson, a handler
\* past its first statement holds a request, one that reads or writes a row
\* has a key, and one about to store a response holds a response.
TypeOK == StoreTypeOK /\ ServerTypeOK

Init ==
  /\ StoreInit
  /\ idem = [k \in Key |-> NoRow]
  /\ pc = [r \in Request |-> "idle"]
  /\ req = [r \in Request |-> NoRequest]
  /\ result = [r \in Request |-> NoResult]
  /\ reply = [r \in Request |-> "none"]
  /\ reader = [d \in Reader |-> IdleReader]
  /\ purging = {}

-----------------------------------------------------------------------------
(* ReviewLessonWordIdempotent                                               *)

\* A client sends a review of a lesson it has seen, at a version it has seen.
Submit(r, q) ==
  /\ pc[r] = "idle"
  /\ status[q.lesson] # "absent"
  /\ q.version \in 1 .. version[q.lesson]
  /\ req' = [req EXCEPT ![r] = q]
  /\ \/ q.key = NoKey /\ pc' = [pc EXCEPT ![r] = "review"]
     \/ q.key # NoKey /\ pc' = [pc EXCEPT ![r] = "load"]
  /\ UNCHANGED <<storeVars, idem, result, reply, reader, purging>>

Finish(r, answer) ==
  /\ pc' = [pc EXCEPT ![r] = "done"]
  /\ reply' = [reply EXCEPT ![r] = answer]

\* loadIdempotentLessonReview
Load(r) ==
  LET row == idem[req[r].key] IN
  /\ pc[r] = "load"
  /\ \/ /\ row = NoRow
        /\ pc' = [pc EXCEPT ![r] = "review"]
        /\ UNCHANGED <<result, reply>>
     \/ /\ row # NoRow
        /\ row.hash # Fingerprint(req[r])
        /\ Finish(r, "ErrIdempotencyKeyReused")
        /\ UNCHANGED result
     \/ /\ row # NoRow
        /\ row.hash = Fingerprint(req[r])
        /\ Finish(r, "ok")
        /\ result' = [result EXCEPT ![r] = row.result]
  /\ UNCHANGED <<storeVars, idem, req, reader, purging>>

\* ReviewLessonWord commits; without a key its result is the answer.
Review(r) ==
  /\ pc[r] = "review"
  /\ CommitReview(req[r])
  /\ result' = [result EXCEPT ![r] = ReviewResult(req[r])]
  /\ \/ req[r].key = NoKey /\ Finish(r, "ok")
     \/ /\ req[r].key # NoKey
        /\ pc' = [pc EXCEPT ![r] = "store"]
        /\ UNCHANGED reply
  /\ UNCHANGED <<idem, req, reader, purging>>

\* Faulty variant: only a version conflict is looked up, so the review that
\* completed its lesson is not found again.
RefuseUnlessConflict(r) ==
  LET error == ReviewError(req[r]) IN
  /\ pc[r] = "review"
  /\ error # "none"
  /\ reply' = [reply EXCEPT ![r] = error]
  /\ pc' = [pc EXCEPT ![r] =
              IF req[r].key # NoKey /\ error = "ErrLessonVersionConflict"
              THEN "recover" ELSE "done"]
  /\ UNCHANGED <<storeVars, idem, req, result, reader, purging>>

\* ReviewLessonWord refuses; a conflict may be the trace of an earlier copy
\* of this very request, which only a request with a key looks for.
Refuse(r) ==
  LET error == ReviewError(req[r]) IN
  /\ pc[r] = "review"
  /\ error # "none"
  /\ reply' = [reply EXCEPT ![r] = error]
  /\ pc' = [pc EXCEPT ![r] =
              IF req[r].key # NoKey /\ error \in Recoverable THEN "recover" ELSE "done"]
  /\ UNCHANGED <<storeVars, idem, req, result, reader, purging>>

\* Faulty variant: the answers are not compared.
CommittedAnyAnswer(q) ==
  {e \in events : /\ version[q.lesson] = q.version + 1
                  /\ q.word \in Range(items[q.lesson])
                  /\ e.id = reviewed[q.lesson][q.word]}

\* The review event recoverCommittedLessonReview accepts as the request's.
Committed(q) ==
  {e \in events : /\ version[q.lesson] = q.version + 1
                  /\ q.word \in Range(items[q.lesson])
                  /\ e.id = reviewed[q.lesson][q.word]
                  /\ e.word = q.word
                  /\ e.config = q.config
                  /\ e.answer = q.answer
                  /\ index[q.lesson] > PositionOf(q.lesson, q.word)}

Recover(r) ==
  LET q == req[r] IN
  /\ pc[r] = "recover"
  /\ \/ \E e \in Committed(q) :
          /\ result' = [result EXCEPT ![r] =
                          [event |-> e.id, schedule |-> userWord[q.word],
                           index |-> index[q.lesson],
                           version |-> version[q.lesson],
                           completed |-> status[q.lesson] = "completed"]]
          /\ pc' = [pc EXCEPT ![r] = "store"]
          /\ reply' = [reply EXCEPT ![r] = "none"]
     \/ /\ Committed(q) = {}
        /\ pc' = [pc EXCEPT ![r] = "done"]
        /\ UNCHANGED <<result, reply>>
  /\ UNCHANGED <<storeVars, idem, req, reader, purging>>

\* storeIdempotentLessonReview: an unexpired row wins.
Store(r) ==
  LET q == req[r]
      row == idem[q.key]
  IN
  /\ pc[r] = "store"
  /\ \/ /\ q.word \notin words      \* the foreign key on words
        /\ Finish(r, "internal_error")
        /\ UNCHANGED idem
     \/ /\ q.word \in words
        /\ row = NoRow
        /\ idem' = [idem EXCEPT ![q.key] = [hash |-> Fingerprint(q), result |-> result[r]]]
        /\ Finish(r, "ok")
     \/ /\ q.word \in words
        /\ row # NoRow
        /\ pc' = [pc EXCEPT ![r] = "compare"]
        /\ UNCHANGED <<idem, reply>>
  /\ UNCHANGED <<storeVars, req, result, reader, purging>>

\* The response holds only if the row that won, read again, is still there and
\* of the same request and version.
Compare(r) ==
  LET row == idem[req[r].key] IN
  /\ pc[r] = "compare"
  /\ Finish(r, IF /\ row # NoRow
                  /\ row.hash = Fingerprint(req[r])
                  /\ row.result.version = result[r].version
               THEN "ok" ELSE "ErrIdempotencyKeyReused")
  /\ UNCHANGED <<storeVars, idem, req, result, reader, purging>>

Forget(r) ==
  /\ pc' = [pc EXCEPT ![r] = "idle"]
  /\ req' = [req EXCEPT ![r] = NoRequest]
  /\ result' = [result EXCEPT ![r] = NoResult]
  /\ reply' = [reply EXCEPT ![r] = "none"]
  /\ UNCHANGED <<storeVars, idem, reader, purging>>

\* The answer has been sent, whether or not the client receives it.
Answered(r) == pc[r] = "done" /\ Forget(r)

\* The process exits or the client goes away between two statements.
Abort(r) == pc[r] \in {"load", "review", "recover", "store", "compare"} /\ Forget(r)

-----------------------------------------------------------------------------
(* The expiry of a key, and the handlers of one transaction.                *)

\* The 30 days of a row have passed: the lookup ignores it and an insert
\* overwrites it, so an expired row and a deleted one are the same.
Expire(k) ==
  /\ idem[k] # NoRow
  /\ idem' = [idem EXCEPT ![k] = NoRow]
  /\ UNCHANGED <<storeVars, requestVars, reader, purging>>

\* POST /words/{id}/review
Practice(w, c, a) ==
  /\ ReviewWord(w, c, a)
  /\ UNCHANGED serverVars

TimePasses ==
  /\ WindowPasses
  /\ UNCHANGED serverVars

-----------------------------------------------------------------------------
(* CreateLesson and ActiveLesson: the id is settled in one transaction and  *)
(* the lesson is fetched by later ones.                                     *)

StartFetch(d, l, state) ==
  reader' = [reader EXCEPT ![d] = [IdleReader EXCEPT !.state = state, !.lesson = l]]

\* CreateProgressiveLesson, answered with the active lesson it duplicates or
\* with a new one.  A request refused for its words changes nothing.
Create(d, c, selected, explicit) ==
  LET duplicates == DuplicateOf(c, selected, explicit) IN
  /\ reader[d].state = "idle"
  /\ \/ \E l \in duplicates : StartFetch(d, l, "fetchNew") /\ UNCHANGED storeVars
     \/ /\ duplicates = {}
        /\ \E l \in Lesson : StartFetch(d, l, "fetchNew") /\ InsertLesson(l, c, selected)
  /\ UNCHANGED <<idem, requestVars, purging>>

\* The first read of ActiveLesson.
LookUp(d) ==
  /\ reader[d].state = "idle"
  /\ \/ \E l \in Active : StartFetch(d, l, "fetch")
     \/ /\ Active = {}
        /\ reader' = [reader EXCEPT ![d].state = "missing"]
  /\ UNCHANGED <<storeVars, idem, requestVars, purging>>

\* lessonByID(id, "active"), a repeatable-read snapshot.  A lesson that is no
\* longer active is "not found" to a reader and an internal error to a creator.
Fetch(d) ==
  LET l == reader[d].lesson IN
  /\ reader[d].state \in {"fetch", "fetchNew"}
  /\ \/ /\ status[l] # "active"
        /\ reader' = [reader EXCEPT ![d].state = IF @ = "fetch" THEN "missing" ELSE "failed"]
     \/ /\ status[l] = "active"
        /\ ~ ValidLessonState(l)
        /\ reader' = [reader EXCEPT ![d].state = "failed"]
     \/ /\ status[l] = "active"
        /\ ValidLessonState(l)
        /\ reader' = [reader EXCEPT ![d] =
                        [@ EXCEPT !.state = "attach",
                                  !.count = Cardinality(DOMAIN items[l]),
                                  !.version = version[l]]]
  /\ UNCHANGED <<storeVars, idem, requestVars, purging>>

\* attachLessonSelectionReasons reads the items again, outside the snapshot,
\* and demands the positions it has just served.
Attach(d) ==
  LET l == reader[d].lesson IN
  /\ reader[d].state = "attach"
  /\ reader' = [reader EXCEPT ![d].state =
                  IF DOMAIN items[l] = 0 .. reader[d].count - 1 THEN "found" ELSE "failed"]
  /\ UNCHANGED <<storeVars, idem, requestVars, purging>>

Served(d) ==
  /\ reader[d].state \in {"found", "missing", "failed"}
  /\ reader' = [reader EXCEPT ![d] = IdleReader]
  /\ UNCHANGED <<storeVars, idem, requestVars, purging>>

\* DELETE /lessons/{id} by a client that was served the lesson, with the
\* version it was served as If-Match.  A refused discard changes nothing.
DiscardServed(d) ==
  /\ reader[d].state = "found"
  /\ DiscardLesson(reader[d].lesson, reader[d].version)
  /\ reader' = [reader EXCEPT ![d] = IdleReader]
  /\ UNCHANGED <<idem, requestVars, purging>>

-----------------------------------------------------------------------------
(* DeleteCustomWord and DeleteCustomPhrase                                  *)

\* lesson_review_idempotency rows cascade with the word.
DropRows(w) ==
  idem' = [k \in Key |-> IF idem[k] # NoRow /\ idem[k].hash.word = w THEN NoRow ELSE idem[k]]

DeleteWithLesson(w) ==
  /\ DeleteWordInLesson(w)
  /\ DropRows(w)
  /\ UNCHANGED <<requestVars, reader, purging>>

\* The first statement finds no active lesson with the word and locks nothing.
BeginDelete(w) ==
  /\ w \in words \cap CustomWord
  /\ ActiveHolding(w) = {}
  /\ purging' = purging \cup {w}
  /\ UNCHANGED <<storeVars, idem, requestVars, reader>>

FinishDelete(w) ==
  /\ w \in purging
  /\ DeleteWord(w)
  /\ DropRows(w)
  /\ purging' = purging \ {w}
  /\ UNCHANGED <<requestVars, reader>>

-----------------------------------------------------------------------------
Handler(r) ==
  \/ Load(r) \/ Review(r) \/ Refuse(r) \/ Recover(r) \/ Store(r)
  \/ Compare(r) \/ Answered(r) \/ Abort(r)

Next ==
  \/ \E r \in Request, q \in ReviewRequests : Submit(r, q)
  \/ \E r \in Request : Handler(r)
  \/ \E k \in Key : Expire(k)
  \/ \E w \in Word, c \in Config, a \in Answer : Practice(w, c, a)
  \/ TimePasses
  \/ \E d \in Reader, c \in Config, explicit \in BOOLEAN :
       \E selected \in Selection(Word) : Create(d, c, selected, explicit)
  \/ \E d \in Reader : LookUp(d) \/ Fetch(d) \/ Attach(d) \/ Served(d)
                         \/ DiscardServed(d)
  \/ \E w \in CustomWord : DeleteWithLesson(w) \/ BeginDelete(w) \/ FinishDelete(w)

Spec == Init /\ [][Next]_vars

-----------------------------------------------------------------------------
(* Properties                                                               *)

\* The result o answers the request q with the event of the review of that
\* lesson, word and answer, and the version after q's.  The event need not be
\* of q's own version: the recovery query compares the item, not the version
\* the review was made at, and accepts a repeated answer to an earlier item.
Answers(o, q) ==
  /\ o.version = q.version + 1
  /\ \E e \in events :
       /\ e.id = o.event
       /\ e.lesson = q.lesson /\ e.word = q.word /\ e.version <= q.version
       /\ e.config = q.config /\ e.answer = q.answer

\* Every successful answer, replayed, recovered or first, and every stored
\* response names the committed review event of that lesson, word and answer,
\* as long as the word exists.
RepliesAreCommitted ==
  /\ \A r \in Request :
       pc[r] = "done" /\ reply[r] = "ok" /\ req[r].word \in words => Answers(result[r], req[r])
  /\ \A k \in Key : idem[k] # NoRow => Answers(idem[k].result, idem[k].hash)

\* A keyed request is never refused as a conflict while its own review is the
\* last change of the lesson: the recovery query finds it.
RecoveredUntilLessonMoves ==
  \A r \in Request :
    LET q == req[r] IN
    pc[r] = "done" /\ reply[r] \in Recoverable /\ q.key # NoKey =>
      ~ \E e \in events : /\ version[q.lesson] = q.version + 1
                         /\ e.lesson = q.lesson /\ e.version = q.version
                         /\ e.word = q.word /\ e.config = q.config /\ e.answer = q.answer

\* Every lesson mutation increments the version by one, in whatever order the
\* handlers run (000008_lesson_optimistic_concurrency).
VersionCountsMutations == [][VersionCounted]_vars

\* A discard never throws away a review its client had not been shown.
DiscardHasSeenEveryReview ==
  [][\A d \in Reader :
       reader[d].state = "found" /\ DiscardServed(d) =>
         \A e \in events : e.lesson = reader[d].lesson => e.version < reader[d].version]_vars

\* The lesson tables implement the linear lesson the documents promise: the
\* rows are read as phase, length, position and number of recorded answers.
phaseOf == [l \in Lesson |->
             CASE status[l] = "absent"    -> "none"
               [] status[l] = "active"    -> "open"
               [] status[l] = "completed" -> "finished"
               [] status[l] = "discarded" -> "dropped"]

Linear == INSTANCE LinearLesson WITH
  phase    <- phaseOf,
  size     <- [l \in Lesson |-> Cardinality(DOMAIN items[l])],
  done     <- index,
  recorded <- [l \in Lesson |-> Cardinality({e \in events : e.lesson = l})]

\* Every step of the concurrent handlers is a step of the linear lesson or
\* leaves it unchanged (for lessons of words that are not deleted).
ImplementsLinearLesson == Linear!Spec

-----------------------------------------------------------------------------
(* A claim of a comment that the code does not keep                         *)

\* custom_repository.go:105: a lesson cannot remain active with an item
\* cascaded away by the deletion of its word.
NoActiveLessonLosesItems == \A l \in Active : DOMAIN items[l] # {} /\ Contiguous(l)
=============================================================================
