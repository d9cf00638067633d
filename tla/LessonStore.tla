---------------------------- MODULE LessonStore ----------------------------
(***************************************************************************)
(* The lesson tables of one user and the transactions that write them:     *)
(* lesson_sessions, lesson_session_items, review_events, user_words and    *)
(* words (backend/internal/learning, backend/internal/words).              *)
(*                                                                         *)
(* Every query of the source is keyed by user_id, so the rows of two users *)
(* never meet and one user is enough.  A transaction that locks the lesson *)
(* row with FOR UPDATE before it reads anything else is one step here.     *)
(*                                                                         *)
(* Data abstraction.  The creation parameters of a lesson (source, mode,   *)
(* size, topic, ratio, kind) are one value of Config, compared as a whole. *)
(* What the learner answered (rating, response time, text) is one value of *)
(* Answer.  A review_events row is identified by its serial id, which      *)
(* stands for its reviewed_at timestamp too: lesson_session_items          *)
(* .reviewed_at and the schedule columns of user_words hold the id of the  *)
(* review that wrote them, 0 when none did.                                *)
(***************************************************************************)
EXTENDS Integers, FiniteSetsExt, Functions

CONSTANTS
  Lesson,       \* ids of lesson_sessions rows
  NoLesson,     \* "no lesson": the origin of a review outside lessons
  Word,         \* the learning items assigned to the user
  CustomWord,   \* those the user owns and may delete
  Config,       \* creation parameters, the answer mode among them
  Answer,       \* contents of an answer
  Key,          \* Idempotency-Key values
  NoKey,        \* the header is absent
  LessonSize,   \* the most items one lesson holds
  MaxPractice   \* bound: reviews outside lessons

ASSUME StoreAssumption ==
  /\ NoLesson \notin Lesson
  /\ NoKey \notin Key
  /\ CustomWord \subseteq Word
  /\ LessonSize \in Nat \ {0}
  /\ MaxPractice \in Nat

VARIABLES
  status,    \* lesson_sessions.status; "absent" before the row is inserted
  config,    \* the creation parameters of the row
  items,     \* lesson_session_items: position -> word, positions from 0
  index,     \* lesson_sessions.current_index
  version,   \* lesson_sessions.version
  reviewed,  \* per lesson and word: the review that rated the item, or 0
  recent,    \* the active lesson was created at most ten seconds ago
  words,     \* rows of words and user_words that exist
  userWord,  \* user_words: the review that wrote the schedule, or 0
  events,    \* review_events
  nextId     \* the next value of the review_events serial

lessonVars == <<status, config, items, index, version, reviewed, recent>>
learnVars  == <<words, userWord, events, nextId>>
storeVars  == <<status, config, items, index, version, reviewed, recent,
                words, userWord, events, nextId>>

Status == {"absent", "active", "completed", "discarded"}

\* lesson, version and key are history: the row the transaction had locked and
\* the key its request carried.  The table has no such columns, and no action
\* reads them.
Event == [id : Nat \ {0}, lesson : Lesson \cup {NoLesson}, word : Word,
          version : Nat, config : Config, answer : Answer, key : Key \cup {NoKey}]

\* The lists of words a lesson may be made of.
Selection(W) ==
  UNION {Injection(0 .. n - 1, W) : n \in 1 .. LessonSize}

StoreTypeOK ==
  /\ status \in [Lesson -> Status]
  /\ config \in [Lesson -> Config]
  /\ items \in [Lesson -> UNION {[P -> Word] : P \in SUBSET (0 .. LessonSize - 1)}]
  /\ index \in [Lesson -> 0 .. LessonSize]
  /\ version \in [Lesson -> Nat]
  /\ reviewed \in [Lesson -> [Word -> Nat]]
  /\ recent \in BOOLEAN
  /\ words \in SUBSET Word
  /\ userWord \in [Word -> Nat]
  /\ events \in SUBSET Event
  /\ nextId \in Nat \ {0}

StoreInit ==
  /\ status = [l \in Lesson |-> "absent"]
  /\ config \in {[l \in Lesson |-> c] : c \in Config}
  /\ items = [l \in Lesson |-> [p \in {} |-> 0]]
  /\ index = [l \in Lesson |-> 0]
  /\ version = [l \in Lesson |-> 0]
  /\ reviewed = [l \in Lesson |-> [w \in Word |-> 0]]
  /\ recent = FALSE
  /\ words = Word
  /\ userWord = [w \in Word |-> 0]
  /\ events = {}
  /\ nextId = 1

Active == {l \in Lesson : status[l] = "active"}
ActiveHolding(w) == {l \in Active : w \in Range(items[l])}

-----------------------------------------------------------------------------
(* CreateProgressiveLesson: one transaction under the user's advisory lock. *)

\* The active lesson a repeated create request is answered with: same
\* parameters, created within the window, and the same words when the
\* request names them.
DuplicateOf(c, selected, explicit) ==
  {l \in Active : recent /\ config[l] = c /\ (explicit => items[l] = selected)}

\* Every active lesson is discarded and the new one inserted.  The foreign
\* key on words rejects an item whose word is gone.
InsertLesson(l, c, selected) ==
  /\ status[l] = "absent"
  /\ selected \in Selection(words)
  /\ status' = [k \in Lesson |-> IF k = l THEN "active"
                                ELSE IF k \in Active THEN "discarded"
                                ELSE status[k]]
  /\ version' = [k \in Lesson |-> IF k = l THEN 1
                                 ELSE IF k \in Active THEN version[k] + 1
                                 ELSE version[k]]
  /\ config' = [config EXCEPT ![l] = c]
  /\ items' = [items EXCEPT ![l] = selected]
  /\ recent' = TRUE
  /\ UNCHANGED <<index, reviewed, learnVars>>

\* duplicateLessonCreationWindow has passed since the last insert.
WindowPasses ==
  /\ recent
  /\ recent' = FALSE
  /\ UNCHANGED <<status, config, items, index, version, reviewed, learnVars>>

-----------------------------------------------------------------------------
(* DiscardLesson and the discard inside other transactions.                 *)

Discard(S) ==
  /\ status' = [l \in Lesson |-> IF l \in S THEN "discarded" ELSE status[l]]
  /\ version' = [l \in Lesson |-> IF l \in S THEN version[l] + 1 ELSE version[l]]

\* Faulty variant: If-Match is not compared.
DiscardLessonUnmatched(l, expected) ==
  /\ status[l] = "active"
  /\ Discard({l})
  /\ UNCHANGED <<config, items, index, reviewed, recent, learnVars>>

\* expected is the version the client read, sent as If-Match.
DiscardLesson(l, expected) ==
  /\ status[l] = "active"
  /\ version[l] = expected
  /\ Discard({l})
  /\ UNCHANGED <<config, items, index, reviewed, recent, learnVars>>

-----------------------------------------------------------------------------
(* ReviewLessonWord: the checks in the order the code makes them, then the  *)
(* writes of the transaction.  q is the request.                            *)

ReviewRequest == [key : Key \cup {NoKey}, lesson : Lesson, word : Word,
                  version : Nat, config : Config, answer : Answer]

PositionOf(l, w) == CHOOSE p \in DOMAIN items[l] : items[l][p] = w

\* Faulty variants: the version is trusted to protect the items, and the
\* order of the items is not checked.
ReviewErrorByVersion(q) ==
  LET l == q.lesson IN
  IF status[l] # "active" \/ q.word \notin Range(items[l]) THEN "ErrLessonItemNotFound"
  ELSE IF version[l] # q.version THEN "ErrLessonVersionConflict"
  ELSE "none"
ReviewErrorAnyOrder(q) ==
  LET l == q.lesson IN
  IF status[l] # "active" \/ q.word \notin Range(items[l]) THEN "ErrLessonItemNotFound"
  ELSE IF version[l] # q.version THEN "ErrLessonVersionConflict"
  ELSE IF reviewed[l][q.word] # 0 THEN "ErrLessonItemAlreadyReviewed"
  ELSE "none"

ReviewError(q) ==
  LET l == q.lesson IN
  IF status[l] # "active" THEN "ErrLessonItemNotFound"
  ELSE IF version[l] # q.version THEN "ErrLessonVersionConflict"
  ELSE IF config[l] # q.config THEN "ErrLessonModeMismatch"
  ELSE IF q.word \notin Range(items[l]) THEN "ErrLessonItemNotFound"
  ELSE IF reviewed[l][q.word] # 0 THEN "ErrLessonItemAlreadyReviewed"
  ELSE IF PositionOf(l, q.word) # index[l] THEN "ErrLessonItemOutOfOrder"
  ELSE "none"

Unrated(l) == {p \in DOMAIN items[l] : reviewed[l][items[l][p]] = 0}

\* Faulty variant: the next item is looked for before this one is rated.
NextIndexTooEarly(l, p) == Min(Unrated(l))

\* current_index after the item at position p of lesson l is rated.
NextIndex(l, p) ==
  LET left == Unrated(l) \ {p} IN
  IF left = {} THEN Cardinality(DOMAIN items[l]) ELSE Min(left)

\* LessonReviewResult: the event, the schedule of the word (by the review
\* that wrote it) and the state of the lesson.
ReviewResult(q) ==
  LET p == PositionOf(q.lesson, q.word) IN
  [event |-> nextId, schedule |-> nextId,
   index |-> NextIndex(q.lesson, p),
   version |-> q.version + 1,
   completed |-> Unrated(q.lesson) = {p}]

CommitReview(q) ==
  LET l == q.lesson
      p == PositionOf(l, q.word)
  IN
  /\ ReviewError(q) = "none"
  /\ reviewed' = [reviewed EXCEPT ![l][q.word] = nextId]
  /\ events' = events \cup {[id |-> nextId, lesson |-> l, word |-> q.word,
                              version |-> q.version, config |-> q.config,
                              answer |-> q.answer, key |-> q.key]}
  /\ userWord' = [userWord EXCEPT ![q.word] = nextId]
  /\ nextId' = nextId + 1
  /\ index' = [index EXCEPT ![l] = NextIndex(l, p)]
  /\ version' = [version EXCEPT ![l] = @ + 1]
  /\ status' = [status EXCEPT ![l] = IF Unrated(l) = {p} THEN "completed" ELSE "active"]
  /\ UNCHANGED <<config, items, recent, words>>

-----------------------------------------------------------------------------
(* Reviews outside lessons and the removal of a word.                       *)

PracticeEvents == {e \in events : e.lesson = NoLesson}

\* ReviewWord: a review of one word outside any lesson.
ReviewWord(w, c, a) ==
  /\ w \in words
  /\ Cardinality(PracticeEvents) < MaxPractice
  /\ events' = events \cup {[id |-> nextId, lesson |-> NoLesson, word |-> w,
                              version |-> 0, config |-> c, answer |-> a, key |-> NoKey]}
  /\ userWord' = [userWord EXCEPT ![w] = nextId]
  /\ nextId' = nextId + 1
  /\ UNCHANGED <<lessonVars, words>>

\* delete from words, with the rows that cascade from it: the items of every
\* lesson, the schedule and the review events of the word.
RemoveWord(w) ==
  /\ words' = words \ {w}
  /\ items' = [l \in Lesson |->
                 Restrict(items[l], {p \in DOMAIN items[l] : items[l][p] # w})]
  /\ reviewed' = [l \in Lesson |-> [reviewed[l] EXCEPT ![w] = 0]]
  /\ userWord' = [userWord EXCEPT ![w] = 0]
  /\ events' = {e \in events : e.word # w}

\* DeleteCustomWord when its first statement finds an active lesson with the
\* word: the row it discards stays locked until the commit, so a concurrent
\* create waits and the two statements are one step.
DeleteWordInLesson(w) ==
  /\ w \in words \cap CustomWord
  /\ ActiveHolding(w) # {}
  /\ Discard(ActiveHolding(w))
  /\ RemoveWord(w)
  /\ UNCHANGED <<config, index, recent, nextId>>

\* The second statement when the first found nothing to discard or lock.
DeleteWord(w) ==
  /\ RemoveWord(w)
  /\ UNCHANGED <<status, config, index, version, recent, nextId>>

-----------------------------------------------------------------------------
(* validLessonState: what lessonByID demands of a row it serves.            *)

Contiguous(l) == DOMAIN items[l] = 0 .. Cardinality(DOMAIN items[l]) - 1

Rated(l, p) == reviewed[l][items[l][p]] # 0

ValidLessonState(l) ==
  /\ DOMAIN items[l] # {}
  /\ Contiguous(l)
  /\ \/ /\ status[l] = "active"
        /\ index[l] \in DOMAIN items[l]
        /\ \A p \in DOMAIN items[l] : Rated(l, p) <=> p < index[l]
     \/ /\ status[l] = "completed"
        /\ index[l] = Cardinality(DOMAIN items[l])
        /\ \A p \in DOMAIN items[l] : Rated(l, p)
     \/ /\ status[l] = "discarded"
        /\ index[l] <= Cardinality(DOMAIN items[l])

-----------------------------------------------------------------------------
(* Properties of the tables.                                               *)

\* A user never has two lessons open, whatever creates, discards and deletes
\* race (lesson_sessions_one_active_per_user_idx never has to refuse a row).
OneActiveLesson == \A l, k \in Active : l = k

\* A lesson is answered strictly in order: what is rated is exactly what lies
\* before current_index, and a completed lesson has no unrated item.  It
\* holds through duplicated, stale and reordered requests, and when items
\* vanish with a deleted word.
LinearProgress ==
  \A l \in Lesson :
    /\ status[l] = "active" =>
         \A p \in DOMAIN items[l] : Rated(l, p) <=> p < index[l]
    /\ status[l] = "completed" => \A p \in DOMAIN items[l] : Rated(l, p)

\* No stored lesson is one lessonByID fails closed on.
LessonsServable == \A l \in Lesson : status[l] # "absent" => ValidLessonState(l)

\* Concurrent copies and retries of a review leave one review event: a lesson
\* has at most one per item and one per version, and every rated item has
\* the event it was rated by.
ReviewedOnce ==
  /\ \A e, f \in events :
       /\ e.lesson \in Lesson /\ e.lesson = f.lesson
       /\ e.word = f.word \/ e.version = f.version
       => e = f
  /\ \A l \in Lesson, w \in Word :
       reviewed[l][w] # 0 =>
         \E e \in events : e.id = reviewed[l][w] /\ e.lesson = l /\ e.word = w

\* Every lesson mutation increments the version by one and nothing lowers it;
\* a cascade that removes an item is not a mutation of the lesson row.
VersionCounted ==
  \A l \in Lesson :
    /\ version'[l] \in {version[l], version[l] + 1}
    /\ \/ status'[l] # status[l]
       \/ index'[l] # index[l]
       \/ \E w \in Word : reviewed[l][w] = 0 /\ reviewed'[l][w] # 0
       => version'[l] = version[l] + 1
=============================================================================
