-------------------------- MODULE LessonServerProofs --------------------------
(***************************************************************************)
(* Theorems of LessonServer, for every number of lessons, words, requests  *)
(* and keys.  First what each transaction of LessonStore preserves; then   *)
(* the concurrent handlers: a handler step either runs one transaction or  *)
(* leaves the tables alone (LEMMA HandlersRunTransactions), so an invariant*)
(* of the tables is proved once per transaction and not once per handler.  *)
(***************************************************************************)
EXTENDS LessonServer, FiniteSetTheorems, WellFoundedInduction, TLAPS

USE StoreAssumption

\* One transaction of the lesson tables.
Transaction ==
  \/ \E l \in Lesson, c \in Config : \E selected \in Selection(Word) : InsertLesson(l, c, selected)
  \/ WindowPasses
  \/ \E l \in Lesson : DiscardLesson(l, version[l])
  \/ \E q \in ReviewRequest : CommitReview(q)
  \/ \E w \in Word, c \in Config, a \in Answer : ReviewWord(w, c, a)
  \/ \E w \in CustomWord : DeleteWordInLesson(w)
  \/ \E w \in CustomWord : DeleteWord(w)

-----------------------------------------------------------------------------
(* Helpers: the least element, the items of a lesson, the next index.       *)

\* Min returns the least element of a set of naturals (NextIndex).
LEMMA MinIsLeast ==
  ASSUME NEW S \in SUBSET Nat, S # {}
  PROVE  /\ Min(S) \in S
         /\ \A n \in S : Min(S) <= n
<1>1. IsWellFoundedOn(OpToRel(<, Nat), Nat)
  BY NatLessThanWellFounded
<1>2. PICK m \in S : \A n \in S : ~ (<<n, m>> \in OpToRel(<, Nat))
  BY <1>1, WFMin
<1>3. \A n \in S : m <= n
  <2> SUFFICES ASSUME NEW n \in S, n < m
               PROVE  FALSE
    BY SMT
  <2>1. ~ (<<n, m>> \in OpToRel(<, Nat))
    BY <1>2
  <2>2. <<n, m>> \in {ss \in Nat \X Nat : ss[1] < ss[2]}
    BY SMT
  <2>3. {ss \in Nat \X Nat : ss[1] < ss[2]} = OpToRel(<, Nat)
    BY Zenon DEF OpToRel
  <2> QED BY <2>1, <2>2, <2>3
<1> QED BY <1>3 DEF Min

\* The positions of a lesson's items are finitely many, below LessonSize.
LEMMA Positions ==
  ASSUME StoreTypeOK, NEW l \in Lesson
  PROVE  /\ items[l] \in [DOMAIN items[l] -> Word]
         /\ DOMAIN items[l] \subseteq 0 .. LessonSize - 1
         /\ IsFiniteSet(DOMAIN items[l])
         /\ Cardinality(DOMAIN items[l]) \in 0 .. LessonSize
<1>1. PICK P \in SUBSET (0 .. LessonSize - 1) : items[l] \in [P -> Word]
  BY DEF StoreTypeOK
<1>2. DOMAIN items[l] = P
  BY <1>1
<1>3. /\ IsFiniteSet(0 .. LessonSize - 1)
      /\ Cardinality(0 .. LessonSize - 1) = LessonSize
  BY FS_Interval
<1>4. /\ IsFiniteSet(P)
      /\ Cardinality(P) <= LessonSize
  BY <1>3, FS_Subset
<1>5. Cardinality(P) \in Nat
  BY <1>4, FS_CardinalityType
<1> QED BY <1>1, <1>2, <1>4, <1>5

\* A word of a lesson has a position, and PositionOf is one.
LEMMA PositionHolds ==
  ASSUME NEW l \in Lesson, NEW w \in Range(items[l])
  PROVE  /\ PositionOf(l, w) \in DOMAIN items[l]
         /\ items[l][PositionOf(l, w)] = w
BY DEF Range, PositionOf

\* NextIndex is a position of the lesson or its length.
LEMMA NextIndexType ==
  ASSUME StoreTypeOK, NEW l \in Lesson, NEW p
  PROVE  NextIndex(l, p) \in 0 .. LessonSize
<1> DEFINE left == Unrated(l) \ {p}
<1>1. left \subseteq 0 .. LessonSize - 1
  BY Positions DEF Unrated
<1>2. CASE left = {}
  BY <1>2, Positions DEF NextIndex
<1>3. CASE left # {}
  <2>1. left \in SUBSET Nat
    BY <1>1
  <2>2. Min(left) \in left
    BY <1>3, <2>1, MinIsLeast
  <2>3. Min(left) \in 0 .. LessonSize
    BY <1>1, <2>2
  <2> QED BY <1>3, <2>3 DEF NextIndex
<1> QED BY <1>2, <1>3

\* A selection has no word twice, and its positions fit a lesson.
LEMMA SelectionIsItems ==
  ASSUME NEW W \in SUBSET Word, NEW s \in Selection(W)
  PROVE  /\ s \in UNION {[P -> Word] : P \in SUBSET (0 .. LessonSize - 1)}
         /\ \A p \in DOMAIN s : s[p] \in Word /\ p \in Nat
         /\ IsInjective(s)
<1>1. PICK n \in 1 .. LessonSize : s \in Injection(0 .. n - 1, W)
  BY DEF Selection
<1>2. 0 .. n - 1 \in SUBSET (0 .. LessonSize - 1)
  BY SMT
<1>3. s \in [0 .. n - 1 -> Word]
  BY <1>1 DEF Injection
<1> QED BY <1>1, <1>2, <1>3 DEF Injection
-----------------------------------------------------------------------------
(* Types.                                                                   *)

\* Each transaction keeps the tables well typed: positions stay below the
\* lesson size, current_index never passes the length of the lesson.
LEMMA TransactionKeepsTypes ==
  ASSUME StoreTypeOK, [Transaction]_storeVars
  PROVE  StoreTypeOK'
<1> USE DEF StoreTypeOK
<1>1. ASSUME NEW l \in Lesson, NEW c \in Config, NEW selected \in Selection(Word),
             InsertLesson(l, c, selected)
      PROVE  StoreTypeOK'
  <2>1. selected \in UNION {[P -> Word] : P \in SUBSET (0 .. LessonSize - 1)}
    BY SelectionIsItems
  <2>2. items' \in [Lesson -> UNION {[P -> Word] : P \in SUBSET (0 .. LessonSize - 1)}]
    BY <1>1, <2>1 DEF InsertLesson
  <2>3. status' \in [Lesson -> Status] /\ version' \in [Lesson -> Nat]
    BY <1>1 DEF InsertLesson, Status
  <2>4. config' \in [Lesson -> Config] /\ recent' \in BOOLEAN
    BY <1>1 DEF InsertLesson
  <2> QED BY <1>1, <2>2, <2>3, <2>4 DEF InsertLesson, learnVars
<1>2. CASE WindowPasses
  BY <1>2 DEF WindowPasses, learnVars
<1>3. ASSUME NEW l \in Lesson, DiscardLesson(l, version[l])
      PROVE  StoreTypeOK'
  <2>1. status' \in [Lesson -> Status] /\ version' \in [Lesson -> Nat]
    BY <1>3 DEF DiscardLesson, Discard, Status
  <2> QED BY <1>3, <2>1 DEF DiscardLesson, learnVars
<1>4. ASSUME NEW q \in ReviewRequest, CommitReview(q)
      PROVE  StoreTypeOK'
  <2> DEFINE l == q.lesson
             p == PositionOf(l, q.word)
             e == [id |-> nextId, lesson |-> l, word |-> q.word, version |-> q.version,
                   config |-> q.config, answer |-> q.answer, key |-> q.key]
  <2>1. l \in Lesson /\ q.word \in Word
    BY DEF ReviewRequest
  <2>2. e \in Event
    BY DEF ReviewRequest, Event
  <2>3. events' \in SUBSET Event /\ nextId' \in Nat \ {0}
    BY <1>4, <2>2 DEF CommitReview
  <2>4. index' \in [Lesson -> 0 .. LessonSize]
    BY <1>4, <2>1, NextIndexType DEF CommitReview
  <2>5. version' \in [Lesson -> Nat] /\ status' \in [Lesson -> Status]
    BY <1>4, <2>1 DEF CommitReview, Status
  <2>6. reviewed' \in [Lesson -> [Word -> Nat]] /\ userWord' \in [Word -> Nat]
    <3>1. [reviewed[l] EXCEPT ![q.word] = nextId] \in [Word -> Nat]
      BY <2>1
    <3>2. reviewed' = [reviewed EXCEPT ![l] = [reviewed[l] EXCEPT ![q.word] = nextId]]
      BY <1>4 DEF CommitReview
    <3> QED BY <1>4, <2>1, <3>1, <3>2 DEF CommitReview
  <2> QED BY <1>4, <2>3, <2>4, <2>5, <2>6 DEF CommitReview
<1>5. ASSUME NEW w \in Word, NEW c \in Config, NEW a \in Answer, ReviewWord(w, c, a)
      PROVE  StoreTypeOK'
  <2> DEFINE e == [id |-> nextId, lesson |-> NoLesson, word |-> w, version |-> 0,
                   config |-> c, answer |-> a, key |-> NoKey]
  <2>1. e \in Event
    BY DEF Event
  <2>2. events' \in SUBSET Event /\ nextId' \in Nat \ {0}
    BY <1>5, <2>1 DEF ReviewWord
  <2>3. userWord' \in [Word -> Nat]
    BY <1>5 DEF ReviewWord
  <2> QED BY <1>5, <2>2, <2>3 DEF ReviewWord, lessonVars
<1>6. ASSUME NEW w \in Word, RemoveWord(w)
      PROVE  /\ items' \in [Lesson -> UNION {[P -> Word] : P \in SUBSET (0 .. LessonSize - 1)}]
             /\ words' \in SUBSET Word
             /\ reviewed' \in [Lesson -> [Word -> Nat]]
             /\ userWord' \in [Word -> Nat]
             /\ events' \in SUBSET Event
  <2> DEFINE kept(l) == {p \in DOMAIN items[l] : items[l][p] # w}
  <2>1. ASSUME NEW l \in Lesson
        PROVE  Restrict(items[l], kept(l)) \in
                 UNION {[P -> Word] : P \in SUBSET (0 .. LessonSize - 1)}
    <3>1. kept(l) \in SUBSET (0 .. LessonSize - 1)
      BY Positions
    <3>2. Restrict(items[l], kept(l)) \in [kept(l) -> Word]
      BY Positions DEF Restrict
    <3> QED BY <3>1, <3>2
  <2>2. items' = [l \in Lesson |-> Restrict(items[l], kept(l))]
    BY <1>6 DEF RemoveWord
  <2>3. items' \in [Lesson -> UNION {[P -> Word] : P \in SUBSET (0 .. LessonSize - 1)}]
    BY <2>1, <2>2
  <2> QED BY <1>6, <2>3 DEF RemoveWord
<1>7. ASSUME NEW w \in CustomWord, DeleteWordInLesson(w)
      PROVE  StoreTypeOK'
  <2>1. status' \in [Lesson -> Status] /\ version' \in [Lesson -> Nat]
    BY <1>7 DEF DeleteWordInLesson, Discard, Status
  <2> QED BY <1>6, <1>7, <2>1 DEF DeleteWordInLesson
<1>8. ASSUME NEW w \in CustomWord, DeleteWord(w)
      PROVE  StoreTypeOK'
  BY <1>6, <1>8 DEF DeleteWord
<1>9. CASE UNCHANGED storeVars
  BY <1>9 DEF storeVars
<1> QED
  BY <1>1, <1>2, <1>3, <1>4, <1>5, <1>7, <1>8, <1>9 DEF Transaction

-----------------------------------------------------------------------------
(* The inductive invariant.                                                 *)

\* Nothing has happened to a lesson that was not created.
FreshLessons ==
  \A l \in Lesson : status[l] = "absent" =>
    /\ index[l] = 0
    /\ version[l] = 0
    /\ \A w \in Word : reviewed[l][w] = 0

\* A lesson has no word twice, so a review rates one position.
NoRepeatedWord == \A l \in Lesson : IsInjective(items[l])

\* The review event of a lesson is the one its item names, and was written
\* at a version the lesson has left.
EventsTraceReviews ==
  \A e \in events : e.lesson \in Lesson =>
    /\ reviewed[e.lesson][e.word] = e.id
    /\ e.version < version[e.lesson]

StoreInv ==
  /\ StoreTypeOK
  /\ FreshLessons
  /\ NoRepeatedWord
  /\ EventsTraceReviews
  /\ OneActiveLesson
  /\ LinearProgress
  /\ ReviewedOnce

\* The tables start with no lesson and no review.
LEMMA InitEstablishesStoreInv == StoreInit => StoreInv
<1> SUFFICES ASSUME StoreInit
             PROVE  StoreInv
  OBVIOUS
<1> USE DEF StoreInit
<1>1. StoreTypeOK
  <2>1. [p \in {} |-> 0] \in [{} -> Word] /\ {} \in SUBSET (0 .. LessonSize - 1)
    OBVIOUS
  <2>2. items \in [Lesson -> UNION {[P -> Word] : P \in SUBSET (0 .. LessonSize - 1)}]
    BY <2>1
  <2>3. status \in [Lesson -> Status] /\ config \in [Lesson -> Config]
    BY DEF Status
  <2>4. /\ index \in [Lesson -> 0 .. LessonSize]
        /\ version \in [Lesson -> Nat]
        /\ reviewed \in [Lesson -> [Word -> Nat]]
        /\ userWord \in [Word -> Nat]
    OBVIOUS
  <2>5. words \in SUBSET Word /\ events \in SUBSET Event /\ nextId \in Nat \ {0}
    OBVIOUS
  <2>6. recent \in BOOLEAN
    BY Zenon
  <2> HIDE DEF StoreInit
  <2> QED BY <2>2, <2>3, <2>4, <2>5, <2>6 DEF StoreTypeOK
<1>2. FreshLessons /\ EventsTraceReviews
  BY DEF FreshLessons, EventsTraceReviews
<1>3. NoRepeatedWord
  BY DEF NoRepeatedWord, IsInjective
<1>4. OneActiveLesson /\ LinearProgress /\ ReviewedOnce
  BY DEF OneActiveLesson, LinearProgress, ReviewedOnce, Active
<1> QED BY <1>1, <1>2, <1>3, <1>4 DEF StoreInv

\* Creating a lesson discards the others; the new one starts unreviewed.
LEMMA InsertLessonKeepsStoreInv ==
  ASSUME StoreInv, NEW l \in Lesson, NEW c \in Config, NEW selected \in Selection(Word),
         InsertLesson(l, c, selected)
  PROVE  /\ FreshLessons'
         /\ NoRepeatedWord'
         /\ EventsTraceReviews'
         /\ OneActiveLesson'
         /\ LinearProgress'
         /\ ReviewedOnce'
<1> USE DEF StoreInv, StoreTypeOK, InsertLesson, learnVars
<1>1. version[l] = 0 /\ index[l] = 0 /\ \A w \in Word : reviewed[l][w] = 0
  BY DEF FreshLessons
<1>2. FreshLessons'
  BY DEF FreshLessons, Active
<1>3. NoRepeatedWord'
  BY SelectionIsItems DEF NoRepeatedWord
<1>4. EventsTraceReviews'
  BY <1>1 DEF EventsTraceReviews, Event
<1>5. OneActiveLesson'
  BY DEF OneActiveLesson, Active
<1>6. LinearProgress'
  <2>1. ASSUME NEW k \in Lesson, k # l
        PROVE  /\ items'[k] = items[k] /\ reviewed'[k] = reviewed[k]
               /\ index'[k] = index[k] /\ status'[k] # "active"
               /\ status'[k] = "completed" => status[k] = "completed"
    BY <2>1 DEF Active
  <2>2. status'[l] = "active" /\ items'[l] = selected /\ index'[l] = 0
    BY <1>1
  <2>3. \A p \in DOMAIN selected : selected[p] \in Word /\ p \in Nat
    BY SelectionIsItems
  <2> QED BY <1>1, <2>1, <2>2, <2>3 DEF LinearProgress, Rated
<1>7. ReviewedOnce'
  BY DEF ReviewedOnce
<1> QED BY <1>2, <1>3, <1>4, <1>5, <1>6, <1>7

\* Discarding lessons touches nothing but their status and version.
LEMMA DiscardKeepsStoreInv ==
  ASSUME StoreInv, NEW l \in Lesson, DiscardLesson(l, version[l])
  PROVE  /\ FreshLessons'
         /\ NoRepeatedWord'
         /\ EventsTraceReviews'
         /\ OneActiveLesson'
         /\ LinearProgress'
         /\ ReviewedOnce'
<1> USE DEF StoreInv, StoreTypeOK, DiscardLesson, Discard, learnVars
<1>1. FreshLessons' /\ NoRepeatedWord'
  BY DEF FreshLessons, NoRepeatedWord
<1>2. EventsTraceReviews'
  BY DEF EventsTraceReviews, Event
<1>3. OneActiveLesson'
  BY DEF OneActiveLesson, Active
<1>4. LinearProgress'
  BY DEF LinearProgress, Rated
<1>5. ReviewedOnce'
  BY DEF ReviewedOnce
<1> QED BY <1>1, <1>2, <1>3, <1>4, <1>5

\* A review rates the item it is about and no other.
LEMMA CommitRates ==
  ASSUME StoreInv, NEW q \in ReviewRequest, CommitReview(q)
  PROVE  \A i \in DOMAIN items[q.lesson] :
           Rated(q.lesson, i)' <=> Rated(q.lesson, i) \/ i = PositionOf(q.lesson, q.word)
<1> DEFINE l == q.lesson
           p == PositionOf(l, q.word)
<1>1. l \in Lesson /\ q.word \in Word
  BY DEF ReviewRequest
<1>2. q.word \in Range(items[l])
  BY DEF CommitReview, ReviewError
<1>3. p \in DOMAIN items[l] /\ items[l][p] = q.word
  BY <1>1, <1>2, PositionHolds
<1>4. \A i \in DOMAIN items[l] : items[l][i] \in Word
  BY <1>1, Positions DEF StoreInv
<1>5. \A i \in DOMAIN items[l] : items[l][i] = q.word => i = p
  BY <1>1, <1>3 DEF StoreInv, NoRepeatedWord, IsInjective
<1>6. ASSUME NEW i \in DOMAIN items[l]
      PROVE  Rated(l, i)' <=> Rated(l, i) \/ i = p
  <2>1. items' = items
    BY DEF CommitReview
  <2>2. reviewed'[l] = [reviewed[l] EXCEPT ![q.word] = nextId]
    BY <1>1 DEF CommitReview, StoreInv, StoreTypeOK
  <2>3. nextId # 0 /\ DOMAIN reviewed[l] = Word
    BY <1>1 DEF StoreInv, StoreTypeOK
  <2> QED BY <1>3, <1>4, <1>5, <1>6, <2>1, <2>2, <2>3 DEF Rated
<1> QED BY <1>6

\* A review rates the item at current_index and only that one, so what is
\* rated is again what lies before the new current_index.
LEMMA CommitReviewKeepsProgress ==
  ASSUME StoreInv, NEW q \in ReviewRequest, CommitReview(q)
  PROVE  LinearProgress'
<1> DEFINE l == q.lesson
           p == PositionOf(l, q.word)
           left == Unrated(l) \ {p}
<1>1. l \in Lesson /\ q.word \in Word
  BY DEF ReviewRequest
<1>2. /\ status[l] = "active"
      /\ q.word \in Range(items[l])
      /\ p = index[l]
  BY DEF CommitReview, ReviewError
<1>3. p \in DOMAIN items[l] /\ items[l][p] = q.word
  BY <1>1, <1>2, PositionHolds
<1>4. DOMAIN items[l] \subseteq Nat /\ \A i \in DOMAIN items[l] : items[l][i] \in Word
  BY <1>1, Positions DEF StoreInv
<1>6. \A i \in DOMAIN items[l] : Rated(l, i)' <=> Rated(l, i) \/ i = p
  BY CommitRates
<1>7. \A i \in DOMAIN items[l] : Rated(l, i) <=> i < p
  BY <1>1, <1>2 DEF StoreInv, LinearProgress
<1>8. \A i \in DOMAIN items[l] : Rated(l, i)' <=> i <= p
  BY <1>3, <1>4, <1>6, <1>7
<1>9. left = {i \in DOMAIN items[l] : i > p}
  BY <1>3, <1>4, <1>7 DEF Unrated, Rated
<1>10. index'[l] = NextIndex(l, p)
  BY <1>1 DEF CommitReview, StoreInv, StoreTypeOK
<1>11. status'[l] = IF Unrated(l) = {p} THEN "completed" ELSE "active"
  BY <1>1 DEF CommitReview, StoreInv, StoreTypeOK
<1>12. p \in Unrated(l)
  BY <1>3, <1>4, <1>7 DEF Unrated, Rated
<1>13. CASE left = {}
  <2>1. status'[l] = "completed"
    BY <1>11, <1>12, <1>13
  <2>2. \A i \in DOMAIN items[l] : Rated(l, i)'
    BY <1>3, <1>4, <1>8, <1>9, <1>13
  <2>3. DOMAIN items'[l] = DOMAIN items[l]
    BY DEF CommitReview
  <2>4. \A i \in DOMAIN items'[l] : Rated(l, i)'
    BY <2>2, <2>3
  <2>5. ASSUME NEW k \in Lesson, k # l
        PROVE  /\ items'[k] = items[k] /\ reviewed'[k] = reviewed[k]
               /\ index'[k] = index[k] /\ status'[k] = status[k]
    BY <2>5 DEF CommitReview, StoreInv, StoreTypeOK
  <2> QED BY <1>1, <2>1, <2>4, <2>5 DEF StoreInv, LinearProgress, Rated
<1>14. CASE left # {}
  <2>1. left \in SUBSET Nat
    BY <1>4, <1>9
  <2>2. /\ index'[l] \in left
        /\ \A i \in left : index'[l] <= i
    BY <1>10, <1>14, <2>1, MinIsLeast DEF NextIndex
  <2>3. \A i \in DOMAIN items[l] : Rated(l, i)' <=> i < index'[l]
    BY <1>3, <1>4, <1>8, <1>9, <2>2
  <2>4. status'[l] = "active"
    BY <1>11, <1>14
  <2>5. DOMAIN items'[l] = DOMAIN items[l]
    BY DEF CommitReview
  <2>6. \A i \in DOMAIN items'[l] : Rated(l, i)' <=> i < index'[l]
    BY <2>3, <2>5
  <2>7. ASSUME NEW k \in Lesson, k # l
        PROVE  /\ items'[k] = items[k] /\ reviewed'[k] = reviewed[k]
               /\ index'[k] = index[k] /\ status'[k] = status[k]
    BY <2>7 DEF CommitReview, StoreInv, StoreTypeOK
  <2> QED BY <1>1, <2>4, <2>6, <2>7 DEF StoreInv, LinearProgress, Rated
<1> QED BY <1>13, <1>14

\* The event of a review is the first of its item, whose reviewed_at was
\* null, and the first of its version, which the same transaction leaves.
LEMMA CommitReviewKeepsStoreInv ==
  ASSUME StoreInv, NEW q \in ReviewRequest, CommitReview(q)
  PROVE  /\ FreshLessons'
         /\ NoRepeatedWord'
         /\ EventsTraceReviews'
         /\ OneActiveLesson'
         /\ ReviewedOnce'
<1> DEFINE l == q.lesson
           e == [id |-> nextId, lesson |-> l, word |-> q.word, version |-> q.version,
                 config |-> q.config, answer |-> q.answer, key |-> q.key]
<1>1. l \in Lesson /\ q.word \in Word
  BY DEF ReviewRequest
<1>2. /\ status[l] = "active"
      /\ version[l] = q.version
      /\ reviewed[l][q.word] = 0
  BY DEF CommitReview, ReviewError
<1>3. /\ events' = events \cup {e}
      /\ version' = [version EXCEPT ![l] = @ + 1]
      /\ items' = items
  BY DEF CommitReview
<1>4. \A k \in Lesson, w \in Word :
        reviewed'[k][w] = IF k = l /\ w = q.word THEN nextId ELSE reviewed[k][w]
  BY <1>1 DEF CommitReview, StoreInv, StoreTypeOK
<1>5. version \in [Lesson -> Nat] /\ events \in SUBSET Event /\ nextId \in Nat \ {0}
  BY DEF StoreInv, StoreTypeOK
<1>6. \A k \in Lesson : /\ status'[k] \in {"active", "completed"} \/ status'[k] = status[k]
                        /\ status'[k] = "active" => status[k] = "active"
                        /\ k # l => status'[k] = status[k] /\ index'[k] = index[k]
                        /\ status'[l] # "absent"
  BY <1>1, <1>2 DEF CommitReview, StoreInv, StoreTypeOK
<1>7. FreshLessons'
  BY <1>1, <1>3, <1>4, <1>5, <1>6 DEF StoreInv, FreshLessons
<1>8. NoRepeatedWord'
  BY <1>3 DEF StoreInv, NoRepeatedWord
<1>9. \A f \in events : f.word \in Word /\ f.version \in Nat /\ f.id # 0
  BY <1>5 DEF Event
<1>10. \A f \in events : f.lesson \in Lesson =>
         /\ reviewed[f.lesson][f.word] = f.id
         /\ f.version < version[f.lesson]
  BY DEF StoreInv, EventsTraceReviews
<1>11. EventsTraceReviews'
  <2>1. reviewed'[e.lesson][e.word] = e.id
    BY <1>1, <1>4
  <2>2. e.version < version'[e.lesson]
    BY <1>1, <1>2, <1>3, <1>5
  <2>3. ASSUME NEW f \in events, f.lesson \in Lesson
        PROVE  /\ reviewed'[f.lesson][f.word] = f.id
               /\ f.version < version'[f.lesson]
    BY <1>1, <1>2, <1>3, <1>4, <1>5, <1>9, <1>10, <2>3
  <2> QED BY <1>3, <2>1, <2>2, <2>3 DEF EventsTraceReviews
<1>12. OneActiveLesson'
  BY <1>6 DEF StoreInv, OneActiveLesson, Active
<1>13. ReviewedOnce'
  <2>1. ASSUME NEW f \in events, f.lesson = l
        PROVE  f.word # q.word /\ f.version # q.version
    BY <1>1, <1>2, <1>5, <1>9, <1>10, <2>1
  <2>2. ASSUME NEW f \in events', NEW g \in events',
               f.lesson \in Lesson, f.lesson = g.lesson,
               f.word = g.word \/ f.version = g.version
        PROVE  f = g
    <3>1. CASE f \in events /\ g \in events
      BY <2>2, <3>1 DEF StoreInv, ReviewedOnce
    <3>2. CASE f = e \/ g = e
      BY <1>3, <2>1, <2>2, <3>2
    <3> QED BY <1>3, <3>1, <3>2
  <2>3. ASSUME NEW k \in Lesson, NEW w \in Word, reviewed'[k][w] # 0
        PROVE  \E f \in events' : f.id = reviewed'[k][w] /\ f.lesson = k /\ f.word = w
    <3>1. CASE k = l /\ w = q.word
      <4>1. reviewed'[k][w] = nextId
        BY <1>4, <3>1
      <4>2. e \in events' /\ e.id = nextId /\ e.lesson = l /\ e.word = q.word
        BY <1>3
      <4> HIDE DEF e
      <4> QED BY <3>1, <4>1, <4>2
    <3>2. CASE ~ (k = l /\ w = q.word)
      <4>1. reviewed'[k][w] = reviewed[k][w]
        BY <1>4, <3>2
      <4>2. \E f \in events : f.id = reviewed[k][w] /\ f.lesson = k /\ f.word = w
        BY <2>3, <4>1 DEF StoreInv, ReviewedOnce
      <4> QED BY <1>3, <4>1, <4>2
    <3> QED BY <3>1, <3>2
  <2> QED BY <2>2, <2>3 DEF ReviewedOnce
<1> QED BY <1>7, <1>8, <1>11, <1>12, <1>13

\* A review outside lessons belongs to no lesson.
LEMMA ReviewWordKeepsStoreInv ==
  ASSUME StoreInv, NEW w \in Word, NEW c \in Config, NEW a \in Answer, ReviewWord(w, c, a)
  PROVE  /\ FreshLessons'
         /\ NoRepeatedWord'
         /\ EventsTraceReviews'
         /\ OneActiveLesson'
         /\ LinearProgress'
         /\ ReviewedOnce'
<1> USE DEF StoreInv, ReviewWord, lessonVars
<1>1. FreshLessons' /\ NoRepeatedWord'
  BY DEF FreshLessons, NoRepeatedWord
<1>2. \A f \in events' : f.lesson \in Lesson => f \in events
  OBVIOUS
<1>3. EventsTraceReviews'
  BY <1>2 DEF EventsTraceReviews
<1>4. OneActiveLesson' /\ LinearProgress'
  BY DEF OneActiveLesson, Active, LinearProgress, Rated
<1>5. ReviewedOnce'
  BY <1>2 DEF ReviewedOnce
<1> QED BY <1>1, <1>3, <1>4, <1>5

\* The cascade of a deleted word takes the item and the events of the word
\* together, in every lesson, and leaves the other items as they were.
LEMMA RemoveWordKeepsStoreInv ==
  ASSUME StoreInv, NEW w \in Word, RemoveWord(w), UNCHANGED index,
         \A l \in Lesson :
           \/ status'[l] = status[l] /\ version'[l] = version[l]
           \/ status[l] = "active" /\ status'[l] = "discarded" /\ version'[l] = version[l] + 1
  PROVE  /\ FreshLessons'
         /\ NoRepeatedWord'
         /\ EventsTraceReviews'
         /\ OneActiveLesson'
         /\ LinearProgress'
         /\ ReviewedOnce'
<1>1. /\ version \in [Lesson -> Nat]
      /\ reviewed \in [Lesson -> [Word -> Nat]]
      /\ events \in SUBSET Event
  BY DEF StoreInv, StoreTypeOK
<1>2. events' = {f \in events : f.word # w}
  BY DEF RemoveWord
<1>3. \A l \in Lesson, v \in Word : reviewed'[l][v] = IF v = w THEN 0 ELSE reviewed[l][v]
  BY <1>1 DEF RemoveWord
<1>4. ASSUME NEW l \in Lesson
      PROVE  /\ DOMAIN items'[l] = {p \in DOMAIN items[l] : items[l][p] # w}
             /\ \A p \in DOMAIN items'[l] : items'[l][p] = items[l][p] /\ items[l][p] \in Word
  BY Positions DEF RemoveWord, Restrict, StoreInv
<1>5. FreshLessons'
  BY <1>3 DEF StoreInv, FreshLessons
<1>6. NoRepeatedWord'
  BY <1>4 DEF StoreInv, NoRepeatedWord, IsInjective
<1>7. \A f \in events : f.word \in Word /\ f.version \in Nat
  BY <1>1 DEF Event
<1>8. EventsTraceReviews'
  BY <1>1, <1>2, <1>3, <1>7 DEF StoreInv, EventsTraceReviews
<1>9. OneActiveLesson'
  BY DEF StoreInv, OneActiveLesson, Active
<1>10. LinearProgress'
  <2>1. \A l \in Lesson : \A p \in DOMAIN items'[l] :
          p \in DOMAIN items[l] /\ (Rated(l, p)' <=> Rated(l, p))
    BY <1>3, <1>4 DEF Rated
  <2> QED BY <2>1 DEF StoreInv, LinearProgress
<1>11. ReviewedOnce'
  <2>1. ASSUME NEW l \in Lesson, NEW v \in Word, reviewed'[l][v] # 0
        PROVE  \E f \in events' : f.id = reviewed'[l][v] /\ f.lesson = l /\ f.word = v
    <3>1. v # w /\ reviewed'[l][v] = reviewed[l][v]
      BY <1>3, <2>1
    <3>2. \E f \in events : f.id = reviewed[l][v] /\ f.lesson = l /\ f.word = v
      BY <2>1, <3>1 DEF StoreInv, ReviewedOnce
    <3> QED BY <1>2, <3>1, <3>2
  <2> QED BY <1>2, <2>1 DEF StoreInv, ReviewedOnce
<1> QED BY <1>5, <1>6, <1>8, <1>9, <1>10, <1>11

\* Every transaction keeps the invariant of the tables.
LEMMA TransactionKeepsStoreInv ==
  ASSUME StoreInv, [Transaction]_storeVars
  PROVE  StoreInv'
<1>1. StoreTypeOK'
  BY TransactionKeepsTypes DEF StoreInv
<1>2. CASE \E l \in Lesson, c \in Config : \E selected \in Selection(Word) : InsertLesson(l, c, selected)
  BY <1>1, <1>2, InsertLessonKeepsStoreInv DEF StoreInv
<1>3. CASE WindowPasses \/ UNCHANGED storeVars
  <2>1. UNCHANGED <<status, items, index, version, reviewed, events>>
    BY <1>3 DEF WindowPasses, learnVars, storeVars
  <2>2. /\ FreshLessons' /\ NoRepeatedWord' /\ EventsTraceReviews'
        /\ OneActiveLesson' /\ LinearProgress' /\ ReviewedOnce'
    BY <2>1 DEF StoreInv, FreshLessons, NoRepeatedWord, EventsTraceReviews,
                OneActiveLesson, Active, LinearProgress, Rated, ReviewedOnce
  <2> QED BY <1>1, <2>2 DEF StoreInv
<1>4. CASE \E l \in Lesson : DiscardLesson(l, version[l])
  BY <1>1, <1>4, DiscardKeepsStoreInv DEF StoreInv
<1>5. CASE \E q \in ReviewRequest : CommitReview(q)
  BY <1>1, <1>5, CommitReviewKeepsProgress, CommitReviewKeepsStoreInv DEF StoreInv
<1>6. CASE \E w \in Word, c \in Config, a \in Answer : ReviewWord(w, c, a)
  BY <1>1, <1>6, ReviewWordKeepsStoreInv DEF StoreInv
<1>7. CASE \E w \in CustomWord : DeleteWordInLesson(w)
  <2>1. PICK w \in CustomWord : DeleteWordInLesson(w)
    BY <1>7
  <2>2. \A l \in Lesson :
           \/ status'[l] = status[l] /\ version'[l] = version[l]
           \/ status[l] = "active" /\ status'[l] = "discarded" /\ version'[l] = version[l] + 1
    BY <2>1 DEF DeleteWordInLesson, Discard, ActiveHolding, Active
  <2>3. w \in Word /\ RemoveWord(w) /\ UNCHANGED index
    BY <2>1 DEF DeleteWordInLesson
  <2> QED BY <1>1, <2>2, <2>3, RemoveWordKeepsStoreInv DEF StoreInv
<1>8. CASE \E w \in CustomWord : DeleteWord(w)
  <2>1. PICK w \in CustomWord : DeleteWord(w)
    BY <1>8
  <2>2. w \in Word /\ RemoveWord(w) /\ UNCHANGED <<index, status, version>>
    BY <2>1 DEF DeleteWord
  <2> QED BY <1>1, <2>2, RemoveWordKeepsStoreInv DEF StoreInv
<1> QED
  BY <1>2, <1>3, <1>4, <1>5, <1>6, <1>7, <1>8 DEF Transaction

\* Every transaction that moves a lesson counts once in its version.
LEMMA TransactionCountsVersion ==
  ASSUME StoreInv, [Transaction]_storeVars
  PROVE  VersionCounted
<1> USE DEF VersionCounted
<1>1. version \in [Lesson -> Nat]
  BY DEF StoreInv, StoreTypeOK
<1>2. ASSUME NEW l \in Lesson, NEW c \in Config, NEW selected \in Selection(Word),
             InsertLesson(l, c, selected)
      PROVE  VersionCounted
  <2>1. version[l] = 0
    BY <1>2 DEF InsertLesson, StoreInv, FreshLessons
  <2> QED BY <1>1, <1>2, <2>1 DEF InsertLesson
<1>3. CASE WindowPasses \/ UNCHANGED storeVars
  BY <1>1, <1>3 DEF WindowPasses, storeVars
<1>4. ASSUME NEW l \in Lesson, DiscardLesson(l, version[l])
      PROVE  VersionCounted
  BY <1>1, <1>4 DEF DiscardLesson, Discard
<1>5. ASSUME NEW q \in ReviewRequest, CommitReview(q)
      PROVE  VersionCounted
  <2>1. ASSUME NEW k \in Lesson, k # q.lesson
        PROVE  /\ version'[k] = version[k] /\ status'[k] = status[k]
               /\ index'[k] = index[k] /\ reviewed'[k] = reviewed[k]
    BY <1>5, <2>1 DEF CommitReview, StoreInv, StoreTypeOK
  <2>2. version'[q.lesson] = version[q.lesson] + 1
    BY <1>1, <1>5 DEF CommitReview, ReviewRequest
  <2> QED BY <1>1, <2>1, <2>2
<1>6. ASSUME NEW w \in Word, NEW c \in Config, NEW a \in Answer, ReviewWord(w, c, a)
      PROVE  VersionCounted
  BY <1>1, <1>6 DEF ReviewWord, lessonVars
<1>7. ASSUME NEW w \in Word, RemoveWord(w)
      PROVE  \A l \in Lesson, v \in Word : reviewed[l][v] = 0 => reviewed'[l][v] = 0
  BY <1>7 DEF RemoveWord, StoreInv, StoreTypeOK
<1>8. ASSUME NEW w \in CustomWord, DeleteWordInLesson(w)
      PROVE  VersionCounted
  BY <1>1, <1>7, <1>8 DEF DeleteWordInLesson, Discard
<1>9. ASSUME NEW w \in CustomWord, DeleteWord(w)
      PROVE  VersionCounted
  BY <1>1, <1>7, <1>9 DEF DeleteWord
<1> QED
  BY <1>2, <1>3, <1>4, <1>5, <1>6, <1>8, <1>9 DEF Transaction

-----------------------------------------------------------------------------
(* What the answers of the handlers rest on.                                *)

\* Event ids are serial: an id names one event, and the next is unused.
EventIdsSerial ==
  /\ \A e \in events : e.id < nextId
  /\ \A e, f \in events : e.id = f.id => e = f

\* A transaction adds at most one event, under the next id, and removes the
\* events of a word only with the word, which never comes back.
LEMMA TransactionEvents ==
  ASSUME StoreTypeOK, [Transaction]_storeVars
  PROVE  /\ \/ events' \subseteq events /\ nextId' = nextId
            \/ \E e : events' = events \cup {e} /\ e.id = nextId /\ nextId' = nextId + 1
         /\ words' \subseteq words
         /\ \A e \in events : e.word \in words' => e \in events'
<1>1. ASSUME NEW q \in ReviewRequest, CommitReview(q)
      PROVE  /\ \E e : events' = events \cup {e} /\ e.id = nextId /\ nextId' = nextId + 1
             /\ words' = words
  <2> DEFINE e == [id |-> nextId, lesson |-> q.lesson, word |-> q.word, version |-> q.version,
                   config |-> q.config, answer |-> q.answer, key |-> q.key]
  <2>1. events' = events \cup {e} /\ e.id = nextId /\ nextId' = nextId + 1 /\ words' = words
    BY <1>1 DEF CommitReview
  <2> HIDE DEF e
  <2> QED BY <2>1
<1>2. ASSUME NEW w \in Word, NEW c \in Config, NEW a \in Answer, ReviewWord(w, c, a)
      PROVE  /\ \E e : events' = events \cup {e} /\ e.id = nextId /\ nextId' = nextId + 1
             /\ words' = words
  <2> DEFINE e == [id |-> nextId, lesson |-> NoLesson, word |-> w, version |-> 0,
                   config |-> c, answer |-> a, key |-> NoKey]
  <2>1. events' = events \cup {e} /\ e.id = nextId /\ nextId' = nextId + 1 /\ words' = words
    BY <1>2 DEF ReviewWord
  <2> HIDE DEF e
  <2> QED BY <2>1
<1>3. ASSUME NEW w \in CustomWord, DeleteWordInLesson(w) \/ DeleteWord(w)
      PROVE  /\ events' \subseteq events /\ nextId' = nextId /\ words' \subseteq words
             /\ \A e \in events : e.word \in words' => e \in events'
  BY <1>3 DEF DeleteWordInLesson, DeleteWord, RemoveWord
<1>4. CASE \/ \E l \in Lesson, c \in Config : \E selected \in Selection(Word) : InsertLesson(l, c, selected)
           \/ WindowPasses
           \/ \E l \in Lesson : DiscardLesson(l, version[l])
           \/ UNCHANGED storeVars
  BY <1>4 DEF InsertLesson, WindowPasses, DiscardLesson, learnVars, storeVars
<1> QED BY <1>1, <1>2, <1>3, <1>4 DEF Transaction

\* Every transaction keeps the ids serial.
LEMMA TransactionKeepsEventIds ==
  ASSUME StoreTypeOK, EventIdsSerial, [Transaction]_storeVars
  PROVE  EventIdsSerial'
<1>1. nextId \in Nat /\ \A e \in events : e.id \in Nat
  BY DEF StoreTypeOK, Event
<1>2. CASE events' \subseteq events /\ nextId' = nextId
  BY <1>2 DEF EventIdsSerial
<1>3. ASSUME NEW e, events' = events \cup {e}, e.id = nextId, nextId' = nextId + 1
      PROVE  EventIdsSerial'
  <2>1. \A f \in events : f.id < nextId
    BY DEF EventIdsSerial
  <2>2. \A f \in events' : f.id < nextId'
    BY <1>1, <1>3, <2>1
  <2>3. \A f, g \in events' : f.id = g.id => f = g
    BY <1>1, <1>3, <2>1 DEF EventIdsSerial
  <2> QED BY <2>2, <2>3 DEF EventIdsSerial
<1> QED BY <1>2, <1>3, TransactionEvents
-----------------------------------------------------------------------------
(* Lessons whose words stay: a user without words of their own.             *)

NothingDeleted == CustomWord = {}

Length(l) == Cardinality(DOMAIN items[l])

\* A lesson keeps the positions it was made with, what is rated lies before
\* current_index even after it was discarded, and it is completed with its last
\* item.
WholeLessons ==
  \A l \in Lesson :
    /\ status[l] = "absent" => DOMAIN items[l] = {}
    /\ status[l] # "absent" =>
         /\ Length(l) \in 1 .. LessonSize
         /\ DOMAIN items[l] = 0 .. Length(l) - 1
         /\ index[l] \in 0 .. Length(l)
         /\ status[l] = "completed" <=> index[l] = Length(l)
         /\ \A p \in DOMAIN items[l] : Rated(l, p) <=> p < index[l]

\* The event of a lesson is about one of its items.
EventsOfItems ==
  /\ \A e \in events : e.lesson \in Lesson => e.word \in Range(items[e.lesson])
  /\ IsFiniteSet(events)

WholeInv == WholeLessons /\ EventsOfItems

LEMMA InitEstablishesWholeInv == StoreInit => WholeInv
BY FS_EmptySet DEF StoreInit, WholeInv, WholeLessons, EventsOfItems

\* A selection has the positions 0, 1, ... of its length.
LEMMA SelectionLength ==
  ASSUME NEW W, NEW s \in Selection(W)
  PROVE  /\ Cardinality(DOMAIN s) \in 1 .. LessonSize
         /\ DOMAIN s = 0 .. Cardinality(DOMAIN s) - 1
<1>1. PICK n \in 1 .. LessonSize : s \in Injection(0 .. n - 1, W)
  BY DEF Selection
<1>2. DOMAIN s = 0 .. n - 1
  BY <1>1 DEF Injection
<1>3. Cardinality(0 .. n - 1) = n
  BY FS_Interval
<1> QED BY <1>2, <1>3

\* A review moves current_index by one, and completes with the last item.
LEMMA CommitAdvances ==
  ASSUME StoreInv, WholeLessons, NEW q \in ReviewRequest, CommitReview(q)
  PROVE  LET l == q.lesson IN
         /\ status[l] = "active"
         /\ PositionOf(l, q.word) = index[l]
         /\ index[l] < Length(l)
         /\ index' = [index EXCEPT ![l] = index[l] + 1]
         /\ status' = [status EXCEPT ![l] = IF index[l] + 1 = Length(l) THEN "completed" ELSE "active"]
<1> DEFINE l == q.lesson
           p == PositionOf(l, q.word)
           left == Unrated(l) \ {p}
<1>1. l \in Lesson /\ status[l] = "active" /\ q.word \in Range(items[l]) /\ p = index[l]
  BY DEF CommitReview, ReviewError, ReviewRequest
<1>2. p \in DOMAIN items[l]
  BY <1>1, PositionHolds
<1>3. /\ Length(l) \in Nat
      /\ DOMAIN items[l] = 0 .. Length(l) - 1
      /\ \A i \in DOMAIN items[l] : Rated(l, i) <=> i < p
  BY <1>1 DEF WholeLessons
<1>4. Unrated(l) = p .. Length(l) - 1
  BY <1>2, <1>3 DEF Unrated, Rated
<1>5. left = p + 1 .. Length(l) - 1
  BY <1>2, <1>3, <1>4
<1>6. NextIndex(l, p) = p + 1
  <2>1. CASE left = {}
    <3>1. NextIndex(l, p) = Length(l)
      BY <2>1 DEF NextIndex, Length
    <3>2. p \in Nat /\ p <= Length(l) - 1 /\ p + 1 \notin left
      BY <1>2, <1>3, <2>1
    <3>3. ~ p + 1 <= Length(l) - 1
      BY <1>3, <1>5, <3>2
    <3> QED BY <1>3, <3>1, <3>2, <3>3
  <2>2. CASE left # {}
    <3>1. left \in SUBSET Nat /\ p + 1 \in left
      BY <1>2, <1>3, <1>5, <2>2
    <3>2. Min(left) \in left /\ Min(left) <= p + 1
      BY <2>2, <3>1, MinIsLeast
    <3>3. Min(left) = p + 1
      BY <1>2, <1>3, <1>5, <3>2
    <3> QED BY <2>2, <3>3 DEF NextIndex
  <2> QED BY <2>1, <2>2
<1>7. Unrated(l) = {p} <=> p + 1 = Length(l)
  BY <1>2, <1>3, <1>4
<1> HIDE DEF left, p, l
<1>8. index' = [index EXCEPT ![l] = p + 1]
  BY <1>6 DEF CommitReview, l, p
<1>9. status' = [status EXCEPT ![l] = IF p + 1 = Length(l) THEN "completed" ELSE "active"]
  BY <1>7 DEF CommitReview, l, p
<1> QED BY <1>1, <1>2, <1>3, <1>8, <1>9 DEF l, p

\* Where the rows of the lessons and the events stay, or an event outside
\* lessons is added, there is nothing to show.
LEMMA LessonsStayWhole ==
  ASSUME WholeInv, UNCHANGED <<status, items, index, reviewed>>,
         events' = events \/ \E e : e.lesson = NoLesson /\ events' = events \cup {e}
  PROVE  WholeInv'
<1>1. WholeLessons'
  BY DEF WholeInv, WholeLessons, Length, Rated
<1>2. EventsOfItems'
  <2>1. CASE events' = events
    BY <2>1 DEF WholeInv, EventsOfItems
  <2>2. CASE \E e : e.lesson = NoLesson /\ events' = events \cup {e}
    <3>1. PICK e : e.lesson = NoLesson /\ events' = events \cup {e}
      BY <2>2
    <3>2. IsFiniteSet(events')
      BY <3>1, FS_AddElement DEF WholeInv, EventsOfItems
    <3> QED BY <3>1, <3>2 DEF WholeInv, EventsOfItems
  <2> QED BY <2>1, <2>2
<1> QED BY <1>1, <1>2 DEF WholeInv

LEMMA InsertKeepsWholeInv ==
  ASSUME StoreInv, WholeInv, NEW l \in Lesson, NEW c \in Config, NEW selected \in Selection(Word),
         InsertLesson(l, c, selected)
  PROVE  WholeInv'
<1>1. /\ status[l] = "absent" /\ status'[l] = "active"
      /\ items'[l] = selected /\ index'[l] = 0
      /\ reviewed' = reviewed /\ events' = events
      /\ \A w \in Word : reviewed[l][w] = 0
  BY DEF InsertLesson, StoreInv, StoreTypeOK, FreshLessons, learnVars
<1>2. \A k \in Lesson \ {l} :
        /\ items'[k] = items[k] /\ index'[k] = index[k]
        /\ status'[k] = status[k] \/ (status[k] = "active" /\ status'[k] = "discarded")
  BY DEF InsertLesson, StoreInv, StoreTypeOK, Active
<1>3. /\ Length(l)' \in 1 .. LessonSize
      /\ DOMAIN items'[l] = 0 .. Length(l)' - 1
  BY <1>1, SelectionLength DEF Length
<1>4. \A p \in DOMAIN items'[l] : p >= 0 /\ ~ Rated(l, p)'
  BY <1>1, <1>3, SelectionIsItems DEF Rated
<1>5. WholeLessons'
  <2> SUFFICES ASSUME NEW k \in Lesson
               PROVE  /\ status'[k] = "absent" => DOMAIN items'[k] = {}
                      /\ status'[k] # "absent" =>
                           /\ Length(k)' \in 1 .. LessonSize
                           /\ DOMAIN items'[k] = 0 .. Length(k)' - 1
                           /\ index'[k] \in 0 .. Length(k)'
                           /\ status'[k] = "completed" <=> index'[k] = Length(k)'
                           /\ \A p \in DOMAIN items'[k] : Rated(k, p)' <=> p < index'[k]
    BY DEF WholeLessons
  <2>1. CASE k = l
    BY <1>1, <1>3, <1>4, <2>1
  <2>2. CASE k # l
    <3>1. Length(k)' = Length(k) /\ \A p : Rated(k, p)' <=> Rated(k, p)
      BY <1>1, <1>2, <2>2 DEF Length, Rated
    <3> QED BY <1>2, <2>2, <3>1 DEF WholeInv, WholeLessons
  <2> QED BY <2>1, <2>2
<1>6. EventsOfItems'
  <2>1. \A e \in events : e.lesson # l
    BY <1>1 DEF StoreInv, StoreTypeOK, EventsTraceReviews, FreshLessons, Event
  <2> QED BY <1>1, <1>2, <2>1 DEF WholeInv, EventsOfItems
<1> QED BY <1>5, <1>6 DEF WholeInv

LEMMA DiscardKeepsWholeInv ==
  ASSUME StoreInv, WholeInv, NEW l \in Lesson, DiscardLesson(l, version[l])
  PROVE  WholeInv'
<1>1. UNCHANGED <<items, index, reviewed, events>>
  BY DEF DiscardLesson, learnVars
<1>2. \A k \in Lesson : status'[k] = status[k] \/ (status[k] = "active" /\ status'[k] = "discarded")
  BY DEF DiscardLesson, Discard
<1>3. \A k \in Lesson : Length(k)' = Length(k) /\ \A p : Rated(k, p)' <=> Rated(k, p)
  BY <1>1 DEF Length, Rated
<1> QED BY <1>1, <1>2, <1>3 DEF WholeInv, WholeLessons, EventsOfItems

LEMMA CommitKeepsWholeInv ==
  ASSUME StoreInv, WholeInv, NEW q \in ReviewRequest, CommitReview(q)
  PROVE  WholeInv'
<1> DEFINE l == q.lesson
           e == [id |-> nextId, lesson |-> l, word |-> q.word, version |-> q.version,
                 config |-> q.config, answer |-> q.answer, key |-> q.key]
<1>1. /\ l \in Lesson /\ status[l] = "active"
      /\ PositionOf(l, q.word) = index[l] /\ index[l] < Length(l)
      /\ index' = [index EXCEPT ![l] = index[l] + 1]
      /\ status' = [status EXCEPT ![l] = IF index[l] + 1 = Length(l) THEN "completed" ELSE "active"]
  BY CommitAdvances DEF WholeInv, ReviewRequest
<1>2. items' = items /\ events' = events \cup {e}
  BY DEF CommitReview
<1>3. /\ status \in [Lesson -> Status] /\ index \in [Lesson -> 0 .. LessonSize]
      /\ reviewed \in [Lesson -> [Word -> Nat]]
  BY DEF StoreInv, StoreTypeOK
<1>4. \A k \in Lesson : Length(k)' = Length(k)
  BY <1>2 DEF Length
<1>5. \A k \in Lesson \ {l} : status'[k] = status[k] /\ index'[k] = index[k] /\ reviewed'[k] = reviewed[k]
  BY <1>1, <1>3 DEF CommitReview
<1>6. \A i \in DOMAIN items[l] : Rated(l, i)' <=> Rated(l, i) \/ i = index[l]
  BY <1>1, CommitRates
<1>7. WholeLessons'
  <2>1. ASSUME NEW k \in Lesson, k # l
        PROVE  \A i : Rated(k, i)' <=> Rated(k, i)
    BY <1>2, <1>5, <2>1 DEF Rated
  <2>2. /\ index'[l] = index[l] + 1
        /\ status'[l] = IF index[l] + 1 = Length(l) THEN "completed" ELSE "active"
    BY <1>1, <1>3
  <2>3. /\ Length(l) \in 1 .. LessonSize /\ DOMAIN items[l] = 0 .. Length(l) - 1
        /\ \A i \in DOMAIN items[l] : Rated(l, i) <=> i < index[l]
    BY <1>1 DEF WholeInv, WholeLessons
  <2>4. \A i \in DOMAIN items[l] : Rated(l, i)' <=> i < index'[l]
    BY <1>1, <1>3, <1>6, <2>2, <2>3
  <2> HIDE DEF l
  <2>5. /\ status'[l] # "absent" /\ index'[l] \in 0 .. Length(l)
        /\ status'[l] = "completed" <=> index'[l] = Length(l)
    BY <1>1, <1>3, <2>2, <2>3
  <2>6. ASSUME NEW k \in Lesson
        PROVE  /\ status'[k] = "absent" => DOMAIN items'[k] = {}
               /\ status'[k] # "absent" =>
                    /\ Length(k)' \in 1 .. LessonSize
                    /\ DOMAIN items'[k] = 0 .. Length(k)' - 1
                    /\ index'[k] \in 0 .. Length(k)'
                    /\ status'[k] = "completed" <=> index'[k] = Length(k)'
                    /\ \A p \in DOMAIN items'[k] : Rated(k, p)' <=> p < index'[k]
    <3>1. CASE k = l
      BY <1>1, <1>2, <1>4, <2>3, <2>4, <2>5, <3>1
    <3>2. CASE k # l
      BY <1>2, <1>4, <1>5, <2>1, <3>2 DEF WholeInv, WholeLessons
    <3> QED BY <3>1, <3>2
  <2> QED BY <2>6 DEF WholeLessons
<1>8. EventsOfItems'
  <2>1. q.word \in Range(items[l])
    BY DEF CommitReview, ReviewError
  <2>2. IsFiniteSet(events')
    BY <1>2, FS_AddElement DEF WholeInv, EventsOfItems
  <2>3. e.lesson = l /\ e.word = q.word
    OBVIOUS
  <2> HIDE DEF e
  <2> QED BY <1>2, <2>1, <2>2, <2>3 DEF WholeInv, EventsOfItems
<1> QED BY <1>7, <1>8 DEF WholeInv

\* With no word to delete every transaction leaves whole lessons.
LEMMA TransactionKeepsWholeInv ==
  ASSUME NothingDeleted, StoreInv, WholeInv, [Transaction]_storeVars
  PROVE  WholeInv'
<1>1. ASSUME NEW w \in Word, NEW c \in Config, NEW a \in Answer, ReviewWord(w, c, a)
      PROVE  WholeInv'
  <2>1. UNCHANGED <<status, items, index, reviewed>>
    BY <1>1 DEF ReviewWord, lessonVars
  <2>2. \E e : e.lesson = NoLesson /\ events' = events \cup {e}
    BY <1>1 DEF ReviewWord
  <2> QED BY <2>1, <2>2, LessonsStayWhole
<1>2. CASE WindowPasses \/ UNCHANGED storeVars
  <2>1. UNCHANGED <<status, items, index, reviewed, events>>
    BY <1>2 DEF WindowPasses, storeVars, learnVars
  <2> QED BY <2>1, LessonsStayWhole
<1> QED BY <1>1, <1>2, InsertKeepsWholeInv, DiscardKeepsWholeInv, CommitKeepsWholeInv
        DEF Transaction, NothingDeleted

\* With no word to delete a transaction moves a lesson on by one version or
\* leaves its rows as they are.
LEMMA LessonMovesOrStays ==
  ASSUME NothingDeleted, StoreInv, [Transaction]_storeVars, NEW l \in Lesson
  PROVE  /\ \/ version'[l] = version[l] + 1
            \/ /\ version'[l] = version[l] /\ status'[l] = status[l]
               /\ config'[l] = config[l] /\ items'[l] = items[l]
               /\ index'[l] = index[l] /\ reviewed'[l] = reviewed[l]
         /\ status'[l] = "absent" => status[l] = "absent"
<1> DEFINE Stays == /\ version'[l] = version[l] /\ status'[l] = status[l]
                    /\ config'[l] = config[l] /\ items'[l] = items[l]
                    /\ index'[l] = index[l] /\ reviewed'[l] = reviewed[l]
           Goal == /\ version'[l] = version[l] + 1 \/ Stays
                   /\ status'[l] = "absent" => status[l] = "absent"
<1>1. /\ version \in [Lesson -> Nat] /\ DOMAIN status = Lesson /\ DOMAIN config = Lesson
      /\ DOMAIN items = Lesson /\ DOMAIN index = Lesson /\ DOMAIN reviewed = Lesson
  BY DEF StoreInv, StoreTypeOK
<1>2. ASSUME NEW k \in Lesson, NEW c \in Config, NEW selected \in Selection(Word),
             InsertLesson(k, c, selected)
      PROVE  Goal
  <2>1. version[k] = 0
    BY <1>2 DEF InsertLesson, StoreInv, FreshLessons
  <2> QED BY <1>1, <1>2, <2>1 DEF InsertLesson
<1>3. CASE WindowPasses \/ UNCHANGED storeVars
  BY <1>3 DEF WindowPasses, storeVars
<1>4. ASSUME NEW k \in Lesson, DiscardLesson(k, version[k])
      PROVE  Goal
  BY <1>1, <1>4 DEF DiscardLesson, Discard
<1>5. ASSUME NEW q \in ReviewRequest, CommitReview(q)
      PROVE  Goal
  <2>1. CASE q.lesson = l
    <3>1. version'[l] = version[l] + 1
      BY <1>1, <1>5, <2>1 DEF CommitReview
    <3>2. status'[l] \in {"completed", "active"}
      BY <1>1, <1>5, <2>1 DEF CommitReview
    <3> QED BY <3>1, <3>2
  <2>2. CASE q.lesson # l
    BY <1>1, <1>5, <2>2 DEF CommitReview
  <2> QED BY <2>1, <2>2
<1>6. ASSUME NEW w \in Word, NEW c \in Config, NEW a \in Answer, ReviewWord(w, c, a)
      PROVE  Goal
  BY <1>6 DEF ReviewWord, lessonVars
<1> QED BY <1>2, <1>3, <1>4, <1>5, <1>6 DEF Transaction, NothingDeleted

\* An event that a transaction adds to a lesson is the one of the review it
\* commits.
LEMMA NewEventIsCommitted ==
  ASSUME [Transaction]_storeVars, NEW e \in events' \ events, e.lesson \in Lesson
  PROVE  \E q \in ReviewRequest :
           /\ CommitReview(q)
           /\ e.lesson = q.lesson /\ e.word = q.word /\ e.version = q.version
           /\ e.config = q.config /\ e.answer = q.answer
<1>1. ASSUME NEW q \in ReviewRequest, CommitReview(q)
      PROVE  /\ e.lesson = q.lesson /\ e.word = q.word /\ e.version = q.version
             /\ e.config = q.config /\ e.answer = q.answer
  BY <1>1 DEF CommitReview
<1>2. ASSUME NEW w \in Word, NEW c \in Config, NEW a \in Answer, ReviewWord(w, c, a)
      PROVE  FALSE
  BY <1>2 DEF ReviewWord
<1>3. CASE \/ \E l \in Lesson, c \in Config : \E selected \in Selection(Word) : InsertLesson(l, c, selected)
           \/ WindowPasses
           \/ \E l \in Lesson : DiscardLesson(l, version[l])
           \/ \E w \in CustomWord : DeleteWordInLesson(w) \/ DeleteWord(w)
           \/ UNCHANGED storeVars
  BY <1>3 DEF InsertLesson, WindowPasses, DiscardLesson, DeleteWordInLesson, DeleteWord, RemoveWord,
              learnVars, storeVars
<1> QED BY <1>1, <1>2, <1>3 DEF Transaction

\* What the reviews of q's lesson, item and version have left on record.
Trace(q) ==
  {e \in events : /\ e.lesson = q.lesson /\ e.version = q.version
                  /\ e.word = q.word /\ e.config = q.config /\ e.answer = q.answer}

\* A review that cannot be committed at its version never will be.
LEMMA RefusalStays ==
  ASSUME NothingDeleted, StoreInv, [Transaction]_storeVars, NEW q \in ReviewRequest,
         q.version <= version[q.lesson],
         version[q.lesson] = q.version => ReviewError(q) # "none"
  PROVE  /\ q.version <= version'[q.lesson]
         /\ version'[q.lesson] = q.version => ReviewError(q)' # "none"
<1>1. q.lesson \in Lesson /\ q.version \in Nat /\ version[q.lesson] \in Nat
  BY DEF ReviewRequest, StoreInv, StoreTypeOK
<1>2. CASE version'[q.lesson] = version[q.lesson] + 1
  BY <1>1, <1>2
<1>3. CASE version'[q.lesson] # version[q.lesson] + 1
  <2>1. /\ version'[q.lesson] = version[q.lesson] /\ status'[q.lesson] = status[q.lesson]
        /\ config'[q.lesson] = config[q.lesson] /\ items'[q.lesson] = items[q.lesson]
        /\ index'[q.lesson] = index[q.lesson] /\ reviewed'[q.lesson] = reviewed[q.lesson]
    BY <1>1, <1>3, LessonMovesOrStays
  <2>2. PositionOf(q.lesson, q.word)' = PositionOf(q.lesson, q.word)
    BY <2>1 DEF PositionOf
  <2>3. ReviewError(q)' = ReviewError(q)
    BY <2>1, <2>2 DEF ReviewError
  <2> QED BY <2>1, <2>3
<1> QED BY <1>2, <1>3

\* Nor does it leave a trace: a review of the same item at the same version
\* would be refused as well.
LEMMA NoTraceStays ==
  ASSUME NothingDeleted, StoreInv, [Transaction]_storeVars, NEW q \in ReviewRequest,
         q.version <= version[q.lesson],
         version[q.lesson] = q.version => ReviewError(q) # "none",
         version[q.lesson] = q.version + 1 => Trace(q) = {},
         version'[q.lesson] = q.version + 1
  PROVE  Trace(q)' = {}
<1>1. q.lesson \in Lesson /\ q.version \in Nat /\ version[q.lesson] \in Nat
  BY DEF ReviewRequest, StoreInv, StoreTypeOK
<1>2. version[q.lesson] \in {q.version, q.version + 1}
  BY <1>1, LessonMovesOrStays
<1> SUFFICES ASSUME NEW e \in Trace(q)'
             PROVE  FALSE
  OBVIOUS
<1>3. /\ e \in events' /\ e.lesson = q.lesson /\ e.version = q.version
      /\ e.word = q.word /\ e.config = q.config /\ e.answer = q.answer
  BY DEF Trace
<1>4. CASE e \in events
  <2>1. e \in Trace(q)
    BY <1>3, <1>4 DEF Trace
  <2>2. e.version < version[q.lesson]
    BY <1>1, <1>3, <1>4 DEF StoreInv, EventsTraceReviews
  <2> QED BY <1>1, <1>2, <1>3, <2>1, <2>2
<1>5. CASE e \notin events
  <2>1. PICK s \in ReviewRequest :
          /\ CommitReview(s)
          /\ e.lesson = s.lesson /\ e.word = s.word /\ e.version = s.version
          /\ e.config = s.config /\ e.answer = s.answer
    BY <1>1, <1>3, <1>5, NewEventIsCommitted
  <2>2. s.lesson = q.lesson /\ s.word = q.word /\ s.version = q.version /\ s.config = q.config
    BY <1>3, <2>1
  <2>3. ReviewError(s) = "none" /\ ReviewError(s) = ReviewError(q)
    BY <2>1, <2>2 DEF CommitReview, ReviewError
  <2>4. version[q.lesson] = q.version
    BY <2>2, <2>3 DEF ReviewError
  <2> QED BY <2>3, <2>4
<1> QED BY <1>4, <1>5

-----------------------------------------------------------------------------
(* The handlers.                                                           *)

USE ServerAssumption

\* The handlers write the lesson tables only through those transactions.
LEMMA HandlersRunTransactions ==
  ASSUME TypeOK, [Next]_vars
  PROVE  [Transaction]_storeVars
<1>1. CASE \E r \in Request, q \in ReviewRequests : Submit(r, q)
  BY <1>1 DEF Submit
<1>2. CASE \E r \in Request : Handler(r)
  <2> SUFFICES ASSUME NEW r \in Request, Handler(r)
               PROVE  [Transaction]_storeVars
    BY <1>2
  <2>1. CASE Review(r)
    <3>1. req[r] \in ReviewRequest
      BY <2>1 DEF TypeOK, ServerTypeOK, Review
    <3>2. CommitReview(req[r])
      BY <2>1 DEF Review
    <3> QED BY <3>1, <3>2 DEF Transaction
  <2>2. CASE ~ Review(r)
    BY <2>2 DEF Handler, Load, Refuse, Recover, Store, Compare, Answered, Abort, Forget
  <2> QED BY <2>1, <2>2
<1>3. CASE \E k \in Key : Expire(k)
  BY <1>3 DEF Expire
<1>4. CASE \E w \in Word, c \in Config, a \in Answer : Practice(w, c, a)
  BY <1>4 DEF Practice, Transaction
<1>5. CASE TimePasses
  BY <1>5 DEF TimePasses, Transaction
<1>6. CASE \E d \in Reader, c \in Config, explicit \in BOOLEAN :
             \E selected \in Selection(Word) : Create(d, c, selected, explicit)
  BY <1>6 DEF Create, Transaction
<1>7. CASE \E d \in Reader : LookUp(d) \/ Fetch(d) \/ Attach(d) \/ Served(d) \/ DiscardServed(d)
  <2> SUFFICES ASSUME NEW d \in Reader,
                      LookUp(d) \/ Fetch(d) \/ Attach(d) \/ Served(d) \/ DiscardServed(d)
               PROVE  [Transaction]_storeVars
    BY <1>7
  <2>1. CASE DiscardServed(d)
    <3>1. reader[d].lesson \in Lesson
      BY <2>1 DEF TypeOK, ServerTypeOK, DiscardServed
    <3>2. DiscardLesson(reader[d].lesson, version[reader[d].lesson])
      BY <2>1 DEF DiscardServed, DiscardLesson
    <3> QED BY <3>1, <3>2 DEF Transaction
  <2>2. CASE ~ DiscardServed(d)
    BY <2>2 DEF LookUp, Fetch, Attach, Served
  <2> QED BY <2>1, <2>2
<1>8. CASE \E w \in CustomWord : DeleteWithLesson(w) \/ BeginDelete(w) \/ FinishDelete(w)
  BY <1>8 DEF DeleteWithLesson, BeginDelete, FinishDelete, Transaction
<1>9. CASE UNCHANGED vars
  BY <1>9 DEF vars, storeVars
<1> QED
  BY <1>1, <1>2, <1>3, <1>4, <1>5, <1>6, <1>7, <1>8, <1>9 DEF Next

-----------------------------------------------------------------------------
(* Types.                                                                   *)

\* What the review just committed answers is a result.
LEMMA ReviewResultType ==
  ASSUME StoreTypeOK, NEW q \in ReviewRequest
  PROVE  ReviewResult(q) \in Result
<1>1. q.lesson \in Lesson /\ q.version \in Nat
  BY DEF ReviewRequest
<1>2. NextIndex(q.lesson, PositionOf(q.lesson, q.word)) \in Nat
  BY <1>1, NextIndexType
<1>3. (Unrated(q.lesson) = {PositionOf(q.lesson, q.word)}) \in BOOLEAN
  BY Zenon
<1>4. nextId \in Nat
  BY DEF StoreTypeOK
<1> HIDE DEF Unrated
<1>5. q.version + 1 \in Nat
  BY <1>1
<1> QED BY <1>2, <1>3, <1>4, <1>5, Zenon DEF ReviewResult, Result

\* A review request that only moves on or answers: no row, no result.
LEMMA PlainHandlersKeepTypes ==
  ASSUME TypeOK, NEW r \in Request,
         Refuse(r) \/ Compare(r) \/ Answered(r) \/ Abort(r)
  PROVE  ServerTypeOK'
<1> USE DEF TypeOK, ServerTypeOK
<1>1. CASE Refuse(r)
  <2>0. req[r] \in ReviewRequest
    BY <1>1 DEF Refuse
  <2>1. ReviewError(req[r]) \in Replies
    BY Zenon DEF ReviewError, Replies, Recoverable
  <2>2. reply' \in [Request -> Replies]
    BY <1>1, <2>1 DEF Refuse
  <2>3. \/ pc' = [pc EXCEPT ![r] = "recover"] /\ req[r].key \in Key
        \/ pc' = [pc EXCEPT ![r] = "done"]
    BY <1>1, <2>0 DEF Refuse, ReviewRequest
  <2> QED BY <1>1, <2>0, <2>2, <2>3 DEF Refuse
<1>2. CASE Answered(r) \/ Abort(r)
  BY <1>2 DEF Answered, Abort, Forget, Replies
<1>3. CASE Compare(r)
  <2>1. pc' = [pc EXCEPT ![r] = "done"] /\ reply' \in [Request -> Replies]
    BY <1>3 DEF Compare, Finish, Replies
  <2> QED BY <1>3, <2>1 DEF Compare
<1> QED BY <1>1, <1>2, <1>3

\* A lookup answers with the row it found.
LEMMA LoadKeepsTypes ==
  ASSUME TypeOK, NEW r \in Request, Load(r)
  PROVE  ServerTypeOK'
<1> USE DEF TypeOK, ServerTypeOK
<1>1. reply' \in [Request -> Replies]
  BY DEF Load, Finish, Replies
<1>2. /\ pc[r] = "load"
      /\ pc' = [pc EXCEPT ![r] = "review"] \/ pc' = [pc EXCEPT ![r] = "done"]
  BY DEF Load, Finish
<1>3. req[r] \in ReviewRequest
  BY <1>2
<1>4. CASE result' = result
  BY <1>1, <1>2, <1>3, <1>4 DEF Load
<1>5. CASE idem[req[r].key] # NoRow /\ result' = [result EXCEPT ![r] = idem[req[r].key].result]
  <2>1. idem[req[r].key] \in Row
    BY <1>2, <1>5
  <2>2. result' \in [Request -> Result \cup {NoResult}]
    BY <1>5, <2>1 DEF Row
  <2>3. \A s \in Request : pc'[s] \in {"store", "compare"} => pc'[s] = pc[s] /\ result'[s] = result[s]
    BY <1>2, <1>5
  <2>4. \A s \in Request : pc'[s] # "idle" => req[s] \in ReviewRequest
    BY <1>2, <1>3
  <2>5. \A s \in Request : pc'[s] \in {"load", "recover", "store", "compare"} => req[s].key \in Key
    BY <1>2
  <2>6. UNCHANGED <<idem, req, reader, purging>>
    BY DEF Load
  <2>7. pc' \in [Request -> {"idle", "load", "review", "recover", "store", "compare", "done"}]
    BY <1>2
  <2> QED BY <1>1, <2>2, <2>3, <2>4, <2>5, <2>6, <2>7
<1> QED BY <1>4, <1>5 DEF Load

\* A review that commits holds a result, and goes on to store it if it has
\* a key to store it under.
LEMMA ReviewKeepsTypes ==
  ASSUME TypeOK, NEW r \in Request, Review(r)
  PROVE  ServerTypeOK'
<1> USE DEF TypeOK, ServerTypeOK
<1>1. req[r] \in ReviewRequest
  BY DEF Review
<1>2. ReviewResult(req[r]) \in Result
  BY <1>1, ReviewResultType
<1>3. result' = [result EXCEPT ![r] = ReviewResult(req[r])]
  BY DEF Review
<1>4. \/ pc' = [pc EXCEPT ![r] = "store"] /\ req[r].key \in Key
      \/ pc' = [pc EXCEPT ![r] = "done"]
  BY <1>1 DEF Review, Finish, ReviewRequest
<1>5. reply' \in [Request -> Replies]
  BY DEF Review, Finish, Replies
<1> HIDE DEF ReviewResult
<1>6. UNCHANGED <<idem, req, reader, purging>> /\ pc[r] = "review"
  BY DEF Review
<1>7. pc' \in [Request -> {"idle", "load", "review", "recover", "store", "compare", "done"}]
  BY <1>4
<1>8. result' \in [Request -> Result \cup {NoResult}]
  BY <1>2, <1>3
<1>9. \A s \in Request : /\ pc'[s] # "idle" => req[s] \in ReviewRequest
                         /\ pc'[s] \in {"load", "recover", "store", "compare"} => req[s].key \in Key
  BY <1>1, <1>4
<1>10. \A s \in Request : pc'[s] \in {"store", "compare"} => result'[s] \in Result
  BY <1>2, <1>3, <1>4
<1> QED BY <1>5, <1>6, <1>7, <1>8, <1>9, <1>10

\* A recovered result is read from the event, the word and the lesson.
LEMMA RecoverKeepsTypes ==
  ASSUME TypeOK, NEW r \in Request, Recover(r)
  PROVE  ServerTypeOK'
<1> USE DEF TypeOK, ServerTypeOK
<1> DEFINE q == req[r]
<1>1. pc[r] = "recover" /\ q \in ReviewRequest /\ q.key \in Key
  BY DEF Recover
<1>2. CASE Committed(q) = {} /\ pc' = [pc EXCEPT ![r] = "done"] /\ UNCHANGED <<result, reply>>
  BY <1>1, <1>2 DEF Recover
<1>3. ASSUME NEW e \in Committed(q),
             result' = [result EXCEPT ![r] =
                          [event |-> e.id, schedule |-> userWord[q.word],
                           index |-> index[q.lesson],
                           version |-> version[q.lesson],
                           completed |-> status[q.lesson] = "completed"]],
             pc' = [pc EXCEPT ![r] = "store"],
             reply' = [reply EXCEPT ![r] = "none"]
      PROVE  ServerTypeOK'
  <2>1. e.id \in Nat
    BY DEF Committed, StoreTypeOK, Event
  <2>2. q.lesson \in Lesson /\ q.word \in Word
    BY <1>1 DEF ReviewRequest
  <2>3. /\ userWord[q.word] \in Nat /\ index[q.lesson] \in Nat /\ version[q.lesson] \in Nat
    BY <2>2 DEF StoreTypeOK
  <2>4. (status[q.lesson] = "completed") \in BOOLEAN
    BY Zenon
  <2>5. [event |-> e.id, schedule |-> userWord[q.word], index |-> index[q.lesson],
         version |-> version[q.lesson], completed |-> status[q.lesson] = "completed"] \in Result
    BY <2>1, <2>3, <2>4, Zenon DEF Result
  <2>6. result' \in [Request -> Result \cup {NoResult}] /\ result'[r] \in Result
    BY <1>3, <2>5
  <2>7. reply' \in [Request -> Replies]
    BY <1>3 DEF Replies
  <2>8. \A s \in Request : s # r => result'[s] = result[s] /\ pc'[s] = pc[s]
    BY <1>3
  <2> QED BY <1>1, <1>3, <2>6, <2>7, <2>8 DEF Recover
<1> QED BY <1>2, <1>3 DEF Recover

\* A stored row is of a request and a result.
LEMMA StoreKeepsTypes ==
  ASSUME TypeOK, NEW r \in Request, Store(r)
  PROVE  ServerTypeOK'
<1> USE DEF TypeOK, ServerTypeOK
<1> DEFINE q == req[r]
<1>1. q \in ReviewRequest /\ q.key \in Key /\ result[r] \in Result
  BY DEF Store
<1>2. Fingerprint(q) \in ReviewRequest
  BY <1>1 DEF Fingerprint, ReviewRequest
<1>3. [hash |-> Fingerprint(q), result |-> result[r]] \in Row
  BY <1>1, <1>2 DEF Row
<1>4. idem' = idem \/ idem' = [idem EXCEPT ![q.key] = [hash |-> Fingerprint(q), result |-> result[r]]]
  BY DEF Store
<1>5. idem' \in [Key -> Row \cup {NoRow}]
  BY <1>3, <1>4
<1>6. /\ pc' = [pc EXCEPT ![r] = "done"] \/ pc' = [pc EXCEPT ![r] = "compare"]
      /\ reply' \in [Request -> Replies]
  BY DEF Store, Finish, Replies
<1> QED BY <1>1, <1>5, <1>6 DEF Store

\* A request starts with the lookup of its key, or with the review.
LEMMA SubmitKeepsTypes ==
  ASSUME TypeOK, NEW r \in Request, NEW q \in ReviewRequests, Submit(r, q)
  PROVE  ServerTypeOK'
<1> USE DEF TypeOK, ServerTypeOK
<1>1. q \in ReviewRequest
  BY DEF ReviewRequests, ReviewRequest
<1>2. \/ pc' = [pc EXCEPT ![r] = "review"]
      \/ pc' = [pc EXCEPT ![r] = "load"] /\ q.key \in Key
  BY <1>1 DEF Submit, ReviewRequest
<1>3. req' = [req EXCEPT ![r] = q] /\ UNCHANGED <<idem, result, reply, reader, purging>>
  BY DEF Submit
<1> QED BY <1>1, <1>2, <1>3

\* A reader holds the lesson its first transaction settled.
LEMMA ReadersKeepTypes ==
  ASSUME TypeOK, NEW d \in Reader,
         \/ LookUp(d) \/ Fetch(d) \/ Attach(d) \/ Served(d) \/ DiscardServed(d)
         \/ \E c \in Config, explicit \in BOOLEAN :
              \E selected \in Selection(Word) : Create(d, c, selected, explicit)
  PROVE  ServerTypeOK'
<1> USE DEF TypeOK, ServerTypeOK
<1> DEFINE R == [state : ReaderState, lesson : Lesson \cup {NoLesson},
                 count : 0 .. LessonSize, version : Nat]
<1>1. IdleReader \in R
  BY DEF IdleReader, ReaderState
<1>2. reader[d] \in R
  OBVIOUS
<1>3. UNCHANGED <<idem, pc, req, result, reply, purging>>
  BY DEF LookUp, Fetch, Attach, Served, DiscardServed, Create, requestVars
<1>4. SUFFICES ASSUME NEW n \in R, reader' = [reader EXCEPT ![d] = n],
                      n.state \in {"fetch", "fetchNew", "attach", "found"} => n.lesson \in Lesson
               PROVE  ServerTypeOK'
  <2>1. ASSUME NEW l \in Lesson, NEW state \in ReaderState
        PROVE  /\ [IdleReader EXCEPT !.state = state, !.lesson = l] \in R
               /\ [IdleReader EXCEPT !.state = state, !.lesson = l].lesson = l
    BY <1>1, <2>1
  <2>2. CASE LookUp(d) \/ \E c \in Config, explicit \in BOOLEAN :
                             \E selected \in Selection(Word) : Create(d, c, selected, explicit)
    <3>1. \/ \E l \in Lesson, state \in ReaderState :
                reader' = [reader EXCEPT ![d] = [IdleReader EXCEPT !.state = state, !.lesson = l]]
          \/ reader' = [reader EXCEPT ![d] = [reader[d] EXCEPT !.state = "missing"]]
      BY <2>2 DEF LookUp, Create, StartFetch, Active, DuplicateOf, ReaderState
    <3>2. CASE reader' = [reader EXCEPT ![d] = [reader[d] EXCEPT !.state = "missing"]]
      BY <1>2, <1>4, <3>2 DEF ReaderState
    <3> QED BY <1>4, <2>1, <3>1, <3>2
  <2>3. CASE Fetch(d)
    <3>1. reader[d].lesson \in Lesson
      BY <2>3 DEF Fetch
    <3>2. /\ Cardinality(DOMAIN items[reader[d].lesson]) \in 0 .. LessonSize
          /\ version[reader[d].lesson] \in Nat
      BY <3>1, Positions DEF StoreTypeOK
    <3>3. \/ \E state \in {"missing", "failed"} :
                reader' = [reader EXCEPT ![d] = [reader[d] EXCEPT !.state = state]]
          \/ reader' = [reader EXCEPT ![d] =
                          [reader[d] EXCEPT !.state = "attach",
                                            !.count = Cardinality(DOMAIN items[reader[d].lesson]),
                                            !.version = version[reader[d].lesson]]]
      BY <2>3 DEF Fetch
    <3> QED BY <1>2, <1>4, <3>1, <3>2, <3>3 DEF ReaderState
  <2>4. CASE Attach(d)
    <3>1. reader[d].lesson \in Lesson
      BY <2>4 DEF Attach
    <3>2. \E state \in {"found", "failed"} :
            reader' = [reader EXCEPT ![d] = [reader[d] EXCEPT !.state = state]]
      BY <2>4 DEF Attach
    <3> QED BY <1>2, <1>4, <3>1, <3>2 DEF ReaderState
  <2>5. CASE Served(d) \/ DiscardServed(d)
    <3>1. reader' = [reader EXCEPT ![d] = IdleReader] /\ IdleReader.state = "idle"
      BY <2>5 DEF Served, DiscardServed, IdleReader
    <3> QED BY <1>1, <1>4, <3>1
  <2> QED BY <2>2, <2>3, <2>4, <2>5
<1> QED BY <1>3, <1>4

\* A deleted word takes its rows along.
LEMMA DeletesKeepTypes ==
  ASSUME TypeOK, NEW w \in CustomWord,
         DeleteWithLesson(w) \/ BeginDelete(w) \/ FinishDelete(w)
  PROVE  ServerTypeOK'
<1> USE DEF TypeOK, ServerTypeOK
<1>1. idem' \in [Key -> Row \cup {NoRow}]
  BY DEF DeleteWithLesson, BeginDelete, FinishDelete, DropRows
<1> QED
  BY <1>1 DEF DeleteWithLesson, BeginDelete, FinishDelete, requestVars

\* Every step keeps the types.
LEMMA NextKeepsTypes ==
  ASSUME TypeOK, [Next]_vars
  PROVE  TypeOK'
<1>1. StoreTypeOK'
  BY HandlersRunTransactions, TransactionKeepsTypes DEF TypeOK
<1>2. ServerTypeOK'
  <2>1. CASE \E r \in Request, q \in ReviewRequests : Submit(r, q)
    BY <2>1, SubmitKeepsTypes
  <2>2. CASE \E r \in Request : Handler(r)
    BY <2>2, LoadKeepsTypes, ReviewKeepsTypes, PlainHandlersKeepTypes, RecoverKeepsTypes,
       StoreKeepsTypes DEF Handler
  <2>3. CASE \E k \in Key : Expire(k)
    BY <2>3 DEF Expire, requestVars, TypeOK, ServerTypeOK
  <2>4. CASE (\E w \in Word, c \in Config, a \in Answer : Practice(w, c, a)) \/ TimePasses
    BY <2>4 DEF Practice, TimePasses, serverVars, TypeOK, ServerTypeOK
  <2>5. CASE \/ \E d \in Reader, c \in Config, explicit \in BOOLEAN :
                  \E selected \in Selection(Word) : Create(d, c, selected, explicit)
             \/ \E d \in Reader : LookUp(d) \/ Fetch(d) \/ Attach(d) \/ Served(d)
                                    \/ DiscardServed(d)
    BY <2>5, ReadersKeepTypes
  <2>6. CASE \E w \in CustomWord : DeleteWithLesson(w) \/ BeginDelete(w) \/ FinishDelete(w)
    BY <2>6, DeletesKeepTypes
  <2>7. CASE UNCHANGED vars
    BY <2>7 DEF vars, TypeOK, ServerTypeOK
  <2> QED BY <2>1, <2>2, <2>3, <2>4, <2>5, <2>6, <2>7 DEF Next
<1> QED BY <1>1, <1>2 DEF TypeOK

-----------------------------------------------------------------------------
(* The theorems.                                                            *)

\* The tables and the handlers' memory keep their types under every
\* interleaving of reviews, creates, reads, discards and deletes.
THEOREM TypeCorrect == Spec => []TypeOK
<1>1. Init => TypeOK
  <2> SUFFICES ASSUME Init
               PROVE  TypeOK
    OBVIOUS
  <2>1. StoreTypeOK
    BY InitEstablishesStoreInv DEF Init, StoreInv
  <2>2. ServerTypeOK
    BY DEF Init, ServerTypeOK, Replies, IdleReader, ReaderState
  <2> QED BY <2>1, <2>2 DEF TypeOK
<1>2. TypeOK /\ [Next]_vars => TypeOK'
  BY NextKeepsTypes
<1> QED BY <1>1, <1>2, PTL DEF Spec

\* The invariant of the tables holds under the concurrent handlers.
THEOREM StoreInvariant == Spec => []StoreInv
<1>1. Init => StoreInv
  BY InitEstablishesStoreInv DEF Init
<1>2. TypeOK /\ StoreInv /\ [Next]_vars => StoreInv'
  BY HandlersRunTransactions, TransactionKeepsStoreInv
<1> QED BY <1>1, <1>2, TypeCorrect, PTL DEF Spec

\* A user never has two lessons open, with any number of devices creating,
\* discarding and deleting at once.
THEOREM AtMostOneLessonIsOpen == Spec => []OneActiveLesson
<1>1. StoreInv => OneActiveLesson
  BY DEF StoreInv
<1> QED BY <1>1, StoreInvariant, PTL

\* Lessons are answered strictly in order, under stale, duplicated and
\* concurrent reviews and while words are being deleted.
THEOREM LessonsAdvanceInOrder == Spec => []LinearProgress
<1>1. StoreInv => LinearProgress
  BY DEF StoreInv
<1> QED BY <1>1, StoreInvariant, PTL

\* However often a review is sent, and by however many handlers, the lesson
\* records it once, at one version, in one event.
THEOREM EachReviewIsRecordedOnce == Spec => []ReviewedOnce
<1>1. StoreInv => ReviewedOnce
  BY DEF StoreInv
<1> QED BY <1>1, StoreInvariant, PTL

\* The version a client holds tells it whether anything has happened to the
\* lesson: every mutation adds one to it and no step takes one away.
THEOREM VersionTellsEveryMutation == Spec => VersionCountsMutations
<1>1. TypeOK /\ StoreInv /\ [Next]_vars => [VersionCounted]_vars
  BY HandlersRunTransactions, TransactionCountsVersion
<1> QED BY <1>1, TypeCorrect, StoreInvariant, PTL DEF Spec, VersionCountsMutations

-----------------------------------------------------------------------------
(* The answers.                                                             *)

\* Answers, with the events as a parameter: its steps compare two of them.
AnsweredIn(E, o, q) ==
  /\ o.version = q.version + 1
  /\ \E e \in E :
       /\ e.id = o.event
       /\ e.lesson = q.lesson /\ e.word = q.word /\ e.version <= q.version
       /\ e.config = q.config /\ e.answer = q.answer

\* The request r holds a result, or has answered with one.
Holds(r) ==
  \/ pc[r] \in {"store", "compare"}
  \/ pc[r] = "done" /\ reply[r] = "ok"

\* What a request holds is the result of its own review while the word exists,
\* and so is every stored row.
AnswersInv ==
  /\ EventIdsSerial
  /\ \A r \in Request : reply[r] = "ok" => pc[r] = "done"
  /\ \A r \in Request :
       Holds(r) /\ req[r].word \in words => AnsweredIn(events, result[r], req[r])
  /\ \A k \in Key : idem[k] # NoRow =>
       /\ idem[k].hash.word \in words
       /\ AnsweredIn(events, idem[k].result, idem[k].hash)

\* An answer stays right for as long as its word exists.
LEMMA AnswersPersist ==
  ASSUME StoreTypeOK, [Transaction]_storeVars, NEW o, NEW q,
         AnsweredIn(events, o, q), q.word \in words'
  PROVE  AnsweredIn(events', o, q)
BY TransactionEvents DEF AnsweredIn

\* The key is not part of what is answered.
LEMMA AnswersFingerprint ==
  ASSUME NEW E, NEW o, NEW q \in ReviewRequest
  PROVE  /\ AnsweredIn(E, o, Fingerprint(q)) <=> AnsweredIn(E, o, q)
         /\ Fingerprint(q).word = q.word
<1>1. /\ Fingerprint(q).lesson = q.lesson /\ Fingerprint(q).word = q.word
      /\ Fingerprint(q).version = q.version /\ Fingerprint(q).config = q.config
      /\ Fingerprint(q).answer = q.answer
  BY DEF Fingerprint, ReviewRequest
<1> QED BY <1>1 DEF AnsweredIn

\* The review that commits answers its own request.
LEMMA CommitAnswers ==
  ASSUME StoreTypeOK, NEW q \in ReviewRequest, CommitReview(q)
  PROVE  AnsweredIn(events', ReviewResult(q), q)
<1> DEFINE e == [id |-> nextId, lesson |-> q.lesson, word |-> q.word, version |-> q.version,
                 config |-> q.config, answer |-> q.answer, key |-> q.key]
<1>1. e \in events'
  BY DEF CommitReview
<1>2. ReviewResult(q).event = nextId /\ ReviewResult(q).version = q.version + 1
  BY DEF ReviewResult
<1>3. q.version <= q.version
  BY DEF ReviewRequest
<1>4. /\ e.id = nextId /\ e.lesson = q.lesson /\ e.word = q.word /\ e.version = q.version
      /\ e.config = q.config /\ e.answer = q.answer
  OBVIOUS
<1> HIDE DEF e
<1> QED BY <1>1, <1>2, <1>3, <1>4 DEF AnsweredIn

\* The event the recovery query finds by the item's timestamp is the event of
\* that item: the id is serial, and the item's event is in the table.
LEMMA RecoveredAnswers ==
  ASSUME StoreInv, EventIdsSerial, NEW q \in ReviewRequest, NEW e \in Committed(q), NEW o,
         o.event = e.id, o.version = version[q.lesson]
  PROVE  AnsweredIn(events, o, q)
<1>1. q.lesson \in Lesson /\ q.word \in Word /\ q.version \in Nat
  BY DEF ReviewRequest
<1>2. /\ e \in events /\ version[q.lesson] = q.version + 1
      /\ e.id = reviewed[q.lesson][q.word]
      /\ e.word = q.word /\ e.config = q.config /\ e.answer = q.answer
  BY DEF Committed
<1>3. e.id # 0 /\ e.version \in Nat
  BY <1>2 DEF StoreInv, StoreTypeOK, Event
<1>4. PICK f \in events : f.id = reviewed[q.lesson][q.word] /\ f.lesson = q.lesson
  BY <1>1, <1>2, <1>3 DEF StoreInv, ReviewedOnce
<1>5. e.lesson = q.lesson
  BY <1>2, <1>4 DEF EventIdsSerial
<1>6. e.version < version[q.lesson]
  BY <1>1, <1>2, <1>5 DEF StoreInv, EventsTraceReviews
<1>7. e.version <= q.version
  BY <1>1, <1>2, <1>3, <1>6
<1> QED BY <1>2, <1>5, <1>7 DEF AnsweredIn

\* Only a finished handler says "ok".
LEMMA NextKeepsReplies ==
  ASSUME TypeOK, [Next]_vars, \A r \in Request : reply[r] = "ok" => pc[r] = "done"
  PROVE  \A r \in Request : reply'[r] = "ok" => pc'[r] = "done"
<1> SUFFICES ASSUME NEW r \in Request, reply'[r] = "ok"
             PROVE  pc'[r] = "done"
  OBVIOUS
<1>0. pc \in [Request -> {"idle", "load", "review", "recover", "store", "compare", "done"}]
      /\ reply \in [Request -> Replies]
  BY DEF TypeOK, ServerTypeOK
<1>1. ASSUME NEW s \in Request, NEW q \in ReviewRequests, Submit(s, q)
      PROVE  pc'[r] = "done"
  BY <1>0, <1>1 DEF Submit
<1>2. ASSUME NEW s \in Request, Handler(s)
      PROVE  pc'[r] = "done"
  <2>1. CASE s # r
    <3>1. pc'[r] = pc[r] /\ reply'[r] = reply[r]
      BY <1>0, <1>2, <2>1 DEF Handler, Load, Review, Refuse, Recover, Store, Compare, Answered,
                              Abort, Forget, Finish
    <3> QED BY <3>1
  <2>2. CASE s = r
    <3>1. CASE Refuse(r)
      <4>1. reply'[r] = ReviewError(req[r])
        BY <1>0, <3>1 DEF Refuse
      <4>2. ReviewError(req[r]) # "ok"
        BY Zenon DEF ReviewError
      <4> QED BY <4>1, <4>2
    <3>2. CASE Load(r) \/ Review(r)
      BY <1>0, <3>2 DEF Load, Review, Finish
    <3>3. CASE Recover(r)
      BY <1>0, <3>3 DEF Recover
    <3>4. CASE Store(r) \/ Compare(r)
      BY <1>0, <3>4 DEF Store, Compare, Finish
    <3>5. CASE Answered(r) \/ Abort(r)
      BY <1>0, <3>5 DEF Answered, Abort, Forget
    <3> QED BY <1>2, <2>2, <3>1, <3>2, <3>3, <3>4, <3>5 DEF Handler
  <2> QED BY <2>1, <2>2
<1>3. CASE UNCHANGED <<pc, reply>>
  BY <1>3
<1> QED
  BY <1>1, <1>2, <1>3 DEF Next, Expire, Practice, TimePasses, Create, LookUp, Fetch, Attach, Served,
     DiscardServed, DeleteWithLesson, BeginDelete, FinishDelete, requestVars, serverVars, vars

\* A step that leaves a request, or a row, as it was leaves its answer right.
LEMMA HeldAnswersPersist ==
  ASSUME TypeOK, AnswersInv, [Next]_vars, NEW r \in Request, Holds(r),
         req'[r] = req[r], result'[r] = result[r], req'[r].word \in words'
  PROVE  AnsweredIn(events', result'[r], req'[r])
<1>1. [Transaction]_storeVars /\ StoreTypeOK
  BY HandlersRunTransactions DEF TypeOK
<1>2. req[r].word \in words
  BY <1>1, TransactionEvents
<1>3. AnsweredIn(events, result[r], req[r])
  BY <1>2 DEF AnswersInv
<1> QED BY <1>1, <1>3, AnswersPersist

\* Likewise a row.
LEMMA RowsPersist ==
  ASSUME TypeOK, AnswersInv, [Next]_vars, NEW k \in Key, idem[k] # NoRow,
         idem[k].hash.word \in words'
  PROVE  AnsweredIn(events', idem[k].result, idem[k].hash)
<1>1. [Transaction]_storeVars /\ StoreTypeOK
  BY HandlersRunTransactions DEF TypeOK
<1>2. AnsweredIn(events, idem[k].result, idem[k].hash)
  BY DEF AnswersInv
<1> QED BY <1>1, <1>2, AnswersPersist

\* A step of a request's own handler that leaves it holding a result.
LEMMA HandlerKeepsAnswers ==
  ASSUME TypeOK, StoreInv, AnswersInv, NEW r \in Request, Handler(r), Holds(r)',
         req'[r].word \in words'
  PROVE  AnsweredIn(events', result'[r], req'[r])
<1>0. /\ pc \in [Request -> {"idle", "load", "review", "recover", "store", "compare", "done"}]
      /\ reply \in [Request -> Replies]
      /\ req \in [Request -> ReviewRequest \cup {NoRequest}]
      /\ result \in [Request -> Result \cup {NoResult}]
      /\ reply[r] = "ok" => pc[r] = "done"
  BY DEF TypeOK, ServerTypeOK, AnswersInv
<1>1. CASE Load(r)
  <2>1. req[r] \in ReviewRequest /\ req[r].key \in Key /\ req'[r] = req[r] /\ events' = events
        /\ words' = words
    BY <1>1 DEF Load, TypeOK, ServerTypeOK, storeVars
  <2>2. /\ idem[req[r].key] # NoRow
        /\ idem[req[r].key].hash = Fingerprint(req[r])
        /\ result'[r] = idem[req[r].key].result
    BY <1>0, <1>1 DEF Load, Finish, Holds
  <2>3. AnsweredIn(events, result'[r], Fingerprint(req[r]))
    BY <2>1, <2>2 DEF AnswersInv
  <2> QED BY <2>1, <2>3, AnswersFingerprint
<1>2. CASE Review(r)
  <2>1. req[r] \in ReviewRequest /\ req'[r] = req[r] /\ CommitReview(req[r])
    BY <1>2 DEF Review, TypeOK, ServerTypeOK
  <2>2. result'[r] = ReviewResult(req[r])
    BY <1>0, <1>2 DEF Review
  <2> QED BY <2>1, <2>2, CommitAnswers DEF StoreInv
<1>3. CASE Refuse(r)
  <2>1. pc'[r] \in {"recover", "done"} /\ reply'[r] = ReviewError(req[r])
    BY <1>0, <1>3 DEF Refuse
  <2>2. ReviewError(req[r]) # "ok"
    BY Zenon DEF ReviewError
  <2> QED BY <2>1, <2>2 DEF Holds
<1>4. CASE Recover(r)
  <2> DEFINE q == req[r]
  <2>1. q \in ReviewRequest /\ req'[r] = q /\ events' = events
    BY <1>4 DEF Recover, TypeOK, ServerTypeOK, storeVars
  <2>2. reply[r] # "ok"
    BY <1>0, <1>4 DEF Recover
  <2>3. PICK e \in Committed(q) :
          result' = [result EXCEPT ![r] =
                      [event |-> e.id, schedule |-> userWord[q.word],
                       index |-> index[q.lesson],
                       version |-> version[q.lesson],
                       completed |-> status[q.lesson] = "completed"]]
    BY <1>0, <1>4, <2>2 DEF Recover, Holds
  <2>4. result'[r].event = e.id /\ result'[r].version = version[q.lesson]
    BY <1>0, <2>3
  <2>5. AnsweredIn(events, result'[r], q)
    BY <2>1, <2>4, RecoveredAnswers DEF AnswersInv
  <2> QED BY <2>1, <2>5
<1>5. CASE Store(r) \/ Compare(r)
  <2>1. Holds(r) /\ req' = req /\ result' = result /\ events' = events /\ words' = words
    BY <1>5 DEF Store, Compare, Holds, storeVars
  <2> QED BY <2>1 DEF AnswersInv
<1>6. CASE Answered(r) \/ Abort(r)
  <2>1. pc'[r] = "idle"
    BY <1>0, <1>6 DEF Answered, Abort, Forget
  <2> QED BY <2>1 DEF Holds
<1> QED BY <1>1, <1>2, <1>3, <1>4, <1>5, <1>6 DEF Handler

\* Every step leaves every held result right.
LEMMA NextKeepsHeldAnswers ==
  ASSUME TypeOK, StoreInv, AnswersInv, [Next]_vars, NEW r \in Request, Holds(r)',
         req'[r].word \in words'
  PROVE  AnsweredIn(events', result'[r], req'[r])
<1>0. /\ pc \in [Request -> {"idle", "load", "review", "recover", "store", "compare", "done"}]
      /\ reply \in [Request -> Replies]
      /\ req \in [Request -> ReviewRequest \cup {NoRequest}]
      /\ result \in [Request -> Result \cup {NoResult}]
      /\ reply[r] = "ok" => pc[r] = "done"
  BY DEF TypeOK, ServerTypeOK, AnswersInv
<1>1. CASE pc'[r] = pc[r] /\ reply'[r] = reply[r] /\ req'[r] = req[r] /\ result'[r] = result[r]
  <2>1. Holds(r)
    BY <1>1 DEF Holds
  <2> QED BY <1>1, <2>1, HeldAnswersPersist
<1>2. ASSUME NEW s \in Request, NEW q \in ReviewRequests, Submit(s, q)
      PROVE  AnsweredIn(events', result'[r], req'[r])
  <2>1. CASE s = r
    <3>1. pc'[r] \in {"load", "review"} /\ reply'[r] = reply[r] /\ pc[r] = "idle"
      BY <1>0, <1>2, <2>1 DEF Submit
    <3> QED BY <3>1 DEF Holds
  <2>2. CASE s # r
    BY <1>0, <1>1, <1>2, <2>2 DEF Submit
  <2> QED BY <2>1, <2>2
<1>3. ASSUME NEW s \in Request, Handler(s)
      PROVE  AnsweredIn(events', result'[r], req'[r])
  <2>1. CASE s = r
    BY <1>3, <2>1, HandlerKeepsAnswers
  <2>2. CASE s # r
    BY <1>0, <1>1, <1>3, <2>2 DEF Handler, Load, Review, Refuse, Recover, Store, Compare, Answered,
                                  Abort, Forget, Finish
  <2> QED BY <2>1, <2>2
<1>4. CASE UNCHANGED <<pc, reply, req, result>>
  BY <1>1, <1>4
<1> QED
  BY <1>2, <1>3, <1>4 DEF Next, Expire, Practice, TimePasses, Create, LookUp, Fetch, Attach, Served,
     DiscardServed, DeleteWithLesson, BeginDelete, FinishDelete, requestVars, serverVars, vars

\* Every step leaves every stored response right, and a row never outlives
\* its word.
LEMMA NextKeepsRows ==
  ASSUME TypeOK, StoreInv, AnswersInv, [Next]_vars, NEW k \in Key, idem'[k] # NoRow
  PROVE  /\ idem'[k].hash.word \in words'
         /\ AnsweredIn(events', idem'[k].result, idem'[k].hash)
<1>0. idem \in [Key -> Row \cup {NoRow}]
  BY DEF TypeOK, ServerTypeOK
<1>1. idem[k] # NoRow => idem[k].hash.word \in words
  BY DEF AnswersInv
<1>2. CASE idem'[k] = idem[k] /\ idem[k].hash.word \in words'
  BY <1>2, RowsPersist
<1>3. ASSUME NEW r \in Request, Store(r)
      PROVE  /\ idem'[k].hash.word \in words'
             /\ AnsweredIn(events', idem'[k].result, idem'[k].hash)
  <2> DEFINE q == req[r]
             row == [hash |-> Fingerprint(q), result |-> result[r]]
  <2>1. q \in ReviewRequest /\ words' = words /\ events' = events
    BY <1>3 DEF Store, TypeOK, ServerTypeOK, storeVars
  <2>2. CASE idem' = idem
    BY <1>1, <1>2, <2>1, <2>2
  <2>3. CASE q.word \in words /\ idem' = [idem EXCEPT ![q.key] = row]
    <3>1. CASE k = q.key
      <4>1. idem'[k].hash = Fingerprint(q) /\ idem'[k].result = result[r]
        BY <1>0, <2>3, <3>1
      <4>2. AnsweredIn(events, result[r], q)
        BY <1>3, <2>3 DEF AnswersInv, Store, Holds
      <4>3. AnsweredIn(events, result[r], Fingerprint(q)) /\ Fingerprint(q).word = q.word
        BY <2>1, <4>2, AnswersFingerprint
      <4> QED BY <2>1, <2>3, <4>1, <4>3
    <3>2. CASE k # q.key
      <4>1. idem'[k] = idem[k]
        BY <1>0, <2>3, <3>2
      <4> QED BY <1>1, <1>2, <2>1, <4>1
    <3> QED BY <3>1, <3>2
  <2> QED BY <1>3, <2>2, <2>3 DEF Store
<1>4. ASSUME NEW w \in CustomWord, DeleteWithLesson(w) \/ FinishDelete(w)
      PROVE  /\ idem'[k].hash.word \in words'
             /\ AnsweredIn(events', idem'[k].result, idem'[k].hash)
  <2>1. words' = words \ {w} /\ DropRows(w)
    BY <1>4 DEF DeleteWithLesson, FinishDelete, DeleteWordInLesson, DeleteWord, RemoveWord
  <2>2. idem'[k] = idem[k] /\ idem[k].hash.word # w
    BY <2>1 DEF DropRows
  <2> QED BY <1>1, <1>2, <2>1, <2>2
<1>5. ASSUME NEW j \in Key, Expire(j)
      PROVE  idem'[k] = idem[k] /\ words' = words
  BY <1>0, <1>5 DEF Expire, storeVars
<1>6. CASE idem' = idem /\ words' = words
  BY <1>1, <1>2, <1>6
<1>7. ASSUME NEW r \in Request, Handler(r), ~ Store(r)
      PROVE  idem' = idem /\ words' = words
  BY <1>7 DEF Handler, Load, Review, CommitReview, Refuse, Recover, Compare, Answered, Abort,
              Forget, storeVars
<1>8. ASSUME \/ \E r \in Request, q \in ReviewRequests : Submit(r, q)
             \/ \E w \in Word, c \in Config, a \in Answer : Practice(w, c, a)
             \/ TimePasses
             \/ \E d \in Reader, c \in Config, explicit \in BOOLEAN :
                  \E selected \in Selection(Word) : Create(d, c, selected, explicit)
             \/ \E d \in Reader : LookUp(d) \/ Fetch(d) \/ Attach(d) \/ Served(d)
                                    \/ DiscardServed(d)
             \/ \E w \in CustomWord : BeginDelete(w)
             \/ UNCHANGED vars
      PROVE  idem' = idem /\ words' = words
  BY <1>8 DEF Submit, Practice, ReviewWord, TimePasses, WindowPasses, Create, InsertLesson, LookUp,
              Fetch, Attach, Served, DiscardServed, DiscardLesson, BeginDelete, learnVars,
              serverVars, storeVars, vars
<1> QED
  BY <1>1, <1>2, <1>3, <1>4, <1>5, <1>6, <1>7, <1>8 DEF Next

\* Whatever a request is answered with, first, replayed from a row or
\* recovered, is the result of the committed review it asks for; so is what
\* is stored to answer the next copy.
THEOREM AnswersNameCommittedReviews == Spec => []RepliesAreCommitted
<1>1. Init => AnswersInv
  BY DEF Init, StoreInit, AnswersInv, EventIdsSerial, Holds
<1>2. TypeOK /\ StoreInv /\ AnswersInv /\ [Next]_vars => AnswersInv'
  <2> SUFFICES ASSUME TypeOK, StoreInv, AnswersInv, [Next]_vars
               PROVE  AnswersInv'
    OBVIOUS
  <2>1. EventIdsSerial'
    BY HandlersRunTransactions, TransactionKeepsEventIds DEF AnswersInv, TypeOK
  <2>2. \A r \in Request : reply'[r] = "ok" => pc'[r] = "done"
    BY NextKeepsReplies DEF AnswersInv
  <2>3. \A r \in Request :
          Holds(r)' /\ req'[r].word \in words' => AnsweredIn(events', result'[r], req'[r])
    BY NextKeepsHeldAnswers
  <2>4. \A k \in Key : idem'[k] # NoRow =>
          /\ idem'[k].hash.word \in words'
          /\ AnsweredIn(events', idem'[k].result, idem'[k].hash)
    BY NextKeepsRows
  <2> QED BY <2>1, <2>2, <2>3, <2>4 DEF AnswersInv
<1>3. AnswersInv => RepliesAreCommitted
  BY DEF AnswersInv, RepliesAreCommitted, Holds, Answers, AnsweredIn
<1> QED BY <1>1, <1>2, <1>3, TypeCorrect, StoreInvariant, PTL DEF Spec

\* A client that discards a lesson has been shown every review in it: the
\* version it was served is later than the version of every event.
THEOREM DiscardsLoseNoUnseenReview == Spec => DiscardHasSeenEveryReview
<1>1. ASSUME TypeOK, StoreInv, NEW d \in Reader, reader[d].state = "found", DiscardServed(d),
             NEW e \in events, e.lesson = reader[d].lesson
      PROVE  e.version < reader[d].version
  <2>1. reader[d].lesson \in Lesson
    BY <1>1 DEF TypeOK, ServerTypeOK
  <2>2. version[reader[d].lesson] = reader[d].version
    BY <1>1 DEF DiscardServed, DiscardLesson
  <2> QED BY <1>1, <2>1, <2>2 DEF StoreInv, EventsTraceReviews
<1>2. TypeOK /\ StoreInv /\ [Next]_vars =>
        [\A d \in Reader :
           reader[d].state = "found" /\ DiscardServed(d) =>
             \A e \in events : e.lesson = reader[d].lesson => e.version < reader[d].version]_vars
  BY <1>1
<1> QED BY <1>2, TypeCorrect, StoreInvariant, PTL DEF Spec, DiscardHasSeenEveryReview

-----------------------------------------------------------------------------
(* Words that stay: what a lesson is to a user who deletes none of its words. *)

\* The invariant of whole lessons, for a user without words of their own.
THEOREM LessonsStayWholeWithTheirWords == NothingDeleted /\ Spec => [](StoreInv /\ WholeInv)
<1>1. Init => WholeInv
  BY InitEstablishesWholeInv DEF Init
<1>2. NothingDeleted /\ TypeOK /\ StoreInv /\ WholeInv /\ [Next]_vars => WholeInv'
  BY HandlersRunTransactions, TransactionKeepsWholeInv
<1>3. NothingDeleted => []NothingDeleted
  BY DEF NothingDeleted, PTL
<1> QED BY <1>1, <1>2, <1>3, TypeCorrect, StoreInvariant, PTL DEF Spec

\* validLessonState accepts every row that a user has who deletes no word: the
\* handlers never fail closed on a lesson they wrote.
THEOREM EveryLessonIsServable == NothingDeleted /\ Spec => []LessonsServable
<1>1. StoreInv /\ WholeInv => LessonsServable
  <2> SUFFICES ASSUME StoreInv, WholeInv, NEW l \in Lesson, status[l] # "absent"
               PROVE  ValidLessonState(l)
    BY DEF LessonsServable
  <2>1. /\ Length(l) \in 1 .. LessonSize
        /\ DOMAIN items[l] = 0 .. Length(l) - 1
        /\ index[l] \in 0 .. Length(l)
        /\ status[l] = "completed" <=> index[l] = Length(l)
        /\ \A p \in DOMAIN items[l] : Rated(l, p) <=> p < index[l]
    BY DEF WholeInv, WholeLessons
  <2>2. status[l] \in {"active", "completed", "discarded"}
    BY DEF StoreInv, StoreTypeOK, Status
  <2>3. DOMAIN items[l] # {} /\ Contiguous(l)
    <3>1. 0 \in 0 .. Length(l) - 1
      BY <2>1
    <3> QED BY <2>1, <3>1 DEF Contiguous, Length
  <2>4. CASE status[l] = "active"
    <3>1. index[l] \in DOMAIN items[l]
      BY <2>1, <2>4
    <3> QED BY <2>1, <2>3, <2>4, <3>1 DEF ValidLessonState
  <2>5. CASE status[l] = "completed"
    <3>1. index[l] = Length(l) /\ \A p \in DOMAIN items[l] : Rated(l, p)
      BY <2>1, <2>5
    <3> QED BY <2>3, <2>5, <3>1 DEF ValidLessonState, Length
  <2>6. CASE status[l] = "discarded"
    <3>1. index[l] <= Length(l)
      BY <2>1
    <3> QED BY <2>3, <2>6, <3>1 DEF ValidLessonState, Length
  <2> QED BY <2>2, <2>4, <2>5, <2>6
<1> QED BY <1>1, LessonsStayWholeWithTheirWords, PTL

-----------------------------------------------------------------------------
(* Refused requests.                                                        *)

\* A keyed request that was refused as a conflict: its recovery is still to
\* come, or found nothing.
Refused(r) == pc[r] \in {"recover", "done"} /\ reply[r] \in Recoverable /\ req[r].key # NoKey

\* A request knows a version the lesson has had; one that was refused cannot be
\* committed at that version any more, and once its recovery has found nothing
\* there is nothing to find as long as the lesson stays where it is.
RefusalInv ==
  \A r \in Request :
    LET q == req[r] IN
    /\ pc[r] # "idle" => q.version <= version[q.lesson]
    /\ Refused(r) /\ version[q.lesson] = q.version => ReviewError(q) # "none"
    /\ Refused(r) /\ pc[r] = "done" /\ version[q.lesson] = q.version + 1 => Trace(q) = {}

\* A request is refused by the review it runs or was refused before; it gives
\* up after a recovery that found nothing.
LEMMA RefusedBy ==
  ASSUME TypeOK, [Next]_vars, NEW r \in Request, Refused(r)'
  PROVE  /\ req'[r] = req[r]
         /\ \/ Refuse(r) /\ pc'[r] = "recover"
            \/ Refused(r) /\ pc'[r] = pc[r]
            \/ Refused(r) /\ pc[r] = "recover" /\ Committed(req[r]) = {} /\ UNCHANGED storeVars
<1> DEFINE Goal == /\ req'[r] = req[r]
                   /\ \/ Refuse(r) /\ pc'[r] = "recover"
                      \/ Refused(r) /\ pc'[r] = pc[r]
                      \/ Refused(r) /\ pc[r] = "recover" /\ Committed(req[r]) = {} /\ UNCHANGED storeVars
<1>0. /\ pc \in [Request -> {"idle", "load", "review", "recover", "store", "compare", "done"}]
      /\ reply \in [Request -> Replies]
      /\ req \in [Request -> ReviewRequest \cup {NoRequest}]
      /\ pc'[r] \in {"recover", "done"} /\ reply'[r] \in Recoverable /\ req'[r].key # NoKey
  BY DEF TypeOK, ServerTypeOK, Refused
<1>1. CASE UNCHANGED <<pc, reply, req>>
  BY <1>1 DEF Refused
<1>2. ASSUME NEW s \in Request, s # r,
             Handler(s) \/ \E q \in ReviewRequests : Submit(s, q)
      PROVE  Goal
  <2>1. pc'[r] = pc[r] /\ reply'[r] = reply[r] /\ req'[r] = req[r]
    BY <1>0, <1>2 DEF Handler, Load, Review, Refuse, Recover, Store, Compare, Answered, Abort, Forget,
                      Finish, Submit
  <2> QED BY <2>1 DEF Refused
<1>3. ASSUME NEW q \in ReviewRequests, Submit(r, q)
      PROVE  FALSE
  BY <1>0, <1>3 DEF Submit
<1>4. CASE Handler(r)
  <2>1. CASE Refuse(r)
    <3>1. req' = req /\ reply'[r] = ReviewError(req[r])
      BY <1>0, <2>1 DEF Refuse
    <3>2. pc'[r] = "recover"
      BY <1>0, <2>1, <3>1 DEF Refuse
    <3> QED BY <2>1, <3>1, <3>2
  <2>2. CASE Load(r) \/ Review(r) \/ Store(r) \/ Compare(r)
    BY <1>0, <2>2 DEF Load, Review, Store, Compare, Finish, Recoverable
  <2>3. CASE Recover(r)
    <3>1. /\ req' = req /\ UNCHANGED storeVars /\ pc[r] = "recover"
          /\ Committed(req[r]) = {} /\ UNCHANGED reply
      BY <1>0, <2>3 DEF Recover, Recoverable
    <3> QED BY <1>0, <3>1 DEF Refused
  <2>4. CASE Answered(r) \/ Abort(r)
    BY <1>0, <2>4 DEF Answered, Abort, Forget
  <2> QED BY <1>4, <2>1, <2>2, <2>3, <2>4 DEF Handler
<1> QED
  BY <1>1, <1>2, <1>3, <1>4 DEF Next, Expire, Practice, TimePasses, Create, LookUp, Fetch, Attach, Served,
     DiscardServed, DeleteWithLesson, BeginDelete, FinishDelete, requestVars, serverVars, vars

\* The recovery query finds the event a request has left, as long as the lesson
\* has not moved: it is the one that its item names, and lies before
\* current_index.
LEMMA RecoveryFindsTheTrace ==
  ASSUME StoreInv, WholeInv, NEW q \in ReviewRequest, version[q.lesson] = q.version + 1
  PROVE  Trace(q) \subseteq Committed(q)
<1> SUFFICES ASSUME NEW e \in Trace(q)
             PROVE  e \in Committed(q)
  OBVIOUS
<1> DEFINE l == q.lesson
           p == PositionOf(l, q.word)
<1>1. /\ l \in Lesson /\ q.word \in Word /\ q.version \in Nat
      /\ e \in events /\ e.lesson = l /\ e.word = q.word
      /\ e.config = q.config /\ e.answer = q.answer
  BY DEF Trace, ReviewRequest
<1>2. q.word \in Range(items[l])
  BY <1>1 DEF WholeInv, EventsOfItems
<1>3. e.id = reviewed[l][q.word] /\ e.id # 0
  BY <1>1 DEF StoreInv, StoreTypeOK, EventsTraceReviews, Event
<1>4. p \in DOMAIN items[l] /\ items[l][p] = q.word
  BY <1>1, <1>2, PositionHolds
<1>5. status[l] # "absent"
  BY <1>1 DEF StoreInv, FreshLessons
<1>6. p < index[l] /\ p \in Nat /\ index[l] \in Nat
  BY <1>1, <1>3, <1>4, <1>5 DEF WholeInv, WholeLessons, Rated
<1> HIDE DEF p
<1>7. index[l] > p
  BY <1>6
<1> QED BY <1>1, <1>2, <1>3, <1>7 DEF Committed, p

\* A request knows a version the lesson has had.
LEMMA RequestsKnowVersions ==
  ASSUME NothingDeleted, TypeOK, StoreInv, RefusalInv, [Next]_vars, NEW r \in Request, pc'[r] # "idle"
  PROVE  req'[r].version <= version'[req'[r].lesson]
<1>0. /\ pc \in [Request -> {"idle", "load", "review", "recover", "store", "compare", "done"}]
      /\ req \in [Request -> ReviewRequest \cup {NoRequest}]
      /\ version \in [Lesson -> Nat]
  BY DEF TypeOK, ServerTypeOK, StoreTypeOK
<1>1. ASSUME NEW q \in ReviewRequests, Submit(r, q)
      PROVE  req'[r].version <= version'[req'[r].lesson]
  <2>1. req'[r] = q /\ version' = version /\ q.version \in 1 .. version[q.lesson]
    BY <1>0, <1>1 DEF Submit, storeVars
  <2>2. q.lesson \in Lesson
    BY DEF ReviewRequests
  <2> QED BY <1>0, <2>1, <2>2
<1>2. CASE req'[r] = req[r] /\ pc[r] # "idle"
  <2>1. req[r] \in ReviewRequest /\ req[r].version <= version[req[r].lesson]
    BY <1>2 DEF TypeOK, ServerTypeOK, RefusalInv
  <2>2. req[r].lesson \in Lesson /\ req[r].version \in Nat
    BY <2>1 DEF ReviewRequest
  <2>3. version'[req[r].lesson] \in {version[req[r].lesson], version[req[r].lesson] + 1}
    BY <2>2, HandlersRunTransactions, LessonMovesOrStays
  <2> QED BY <1>0, <1>2, <2>1, <2>2, <2>3
<1>3. ASSUME NEW s \in Request, Handler(s)
      PROVE  req'[r] = req[r] /\ pc[r] # "idle"
  BY <1>0, <1>3 DEF Handler, Load, Review, Refuse, Recover, Store, Compare, Answered, Abort, Forget, Finish
<1>4. ASSUME NEW s \in Request, NEW q \in ReviewRequests, Submit(s, q), s # r
      PROVE  req'[r] = req[r] /\ pc[r] # "idle"
  BY <1>0, <1>4 DEF Submit
<1>5. CASE UNCHANGED <<pc, req>>
  BY <1>2, <1>5
<1> QED
  BY <1>1, <1>2, <1>3, <1>4, <1>5 DEF Next, Expire, Practice, TimePasses, Create, LookUp, Fetch, Attach, Served,
     DiscardServed, DeleteWithLesson, BeginDelete, FinishDelete, requestVars, serverVars, vars

LEMMA NextKeepsRefusals ==
  ASSUME NothingDeleted, TypeOK, StoreInv, WholeInv, RefusalInv, [Next]_vars
  PROVE  RefusalInv'
<1> SUFFICES ASSUME NEW r \in Request, Refused(r)'
             PROVE  /\ version'[req'[r].lesson] = req'[r].version => ReviewError(req[r])' # "none"
                    /\ pc'[r] = "done" /\ version'[req'[r].lesson] = req'[r].version + 1 =>
                         Trace(req[r])' = {}
  BY RequestsKnowVersions, RefusedBy DEF RefusalInv
<1> DEFINE q == req[r]
<1>1. [Transaction]_storeVars
  BY HandlersRunTransactions
<1>2. req'[r] = q /\ q \in ReviewRequest /\ pc[r] # "idle"
  BY RefusedBy DEF TypeOK, ServerTypeOK, Refused, Refuse
<1>3. q.version <= version[q.lesson] /\ q.lesson \in Lesson
  BY <1>2 DEF RefusalInv, ReviewRequest
<1>4. version[q.lesson] = q.version => ReviewError(q) # "none"
  BY RefusedBy DEF RefusalInv, Refuse
<1>5. version'[q.lesson] = q.version => ReviewError(q)' # "none"
  BY <1>1, <1>2, <1>3, <1>4, RefusalStays
<1>6. ASSUME pc'[r] = "done", version'[q.lesson] = q.version + 1
      PROVE  Trace(q)' = {}
  <2>1. CASE Refused(r) /\ pc'[r] = pc[r]
    <3>1. version[q.lesson] = q.version + 1 => Trace(q) = {}
      BY <1>6, <2>1 DEF RefusalInv
    <3> QED BY <1>1, <1>2, <1>3, <1>4, <1>6, <3>1, NoTraceStays
  <2>2. CASE Committed(q) = {} /\ UNCHANGED storeVars
    <3>1. Trace(q) = {}
      BY <1>2, <1>6, <2>2, RecoveryFindsTheTrace DEF storeVars
    <3>2. Trace(req[r])' = Trace(req[r])
      BY <1>2, <2>2 DEF Trace, storeVars
    <3> QED BY <3>1, <3>2
  <2> QED BY <1>6, <2>1, <2>2, RefusedBy
<1> QED BY <1>2, <1>5, <1>6

\* A keyed request is never told a conflict by its own review: while that review
\* is the last change of the lesson, the recovery finds it (for lessons of
\* words that are not deleted).
THEOREM OwnReviewsAreNoConflict == NothingDeleted /\ Spec => []RecoveredUntilLessonMoves
<1>1. Init => RefusalInv
  BY DEF Init, RefusalInv, Refused
<1>2. NothingDeleted /\ TypeOK /\ StoreInv /\ WholeInv /\ RefusalInv /\ [Next]_vars => RefusalInv'
  BY NextKeepsRefusals
<1>3. RefusalInv => RecoveredUntilLessonMoves
  BY DEF RefusalInv, RecoveredUntilLessonMoves, Refused, Trace
<1>4. NothingDeleted => []NothingDeleted
  BY DEF NothingDeleted, PTL
<1> QED BY <1>1, <1>2, <1>3, <1>4, TypeCorrect, LessonsStayWholeWithTheirWords, PTL DEF Spec

-----------------------------------------------------------------------------
(* The tables implement the linear lesson of LinearLesson.                  *)

lengthOf == [l \in Lesson |-> Cardinality(DOMAIN items[l])]
Records(l) == {e \in events : e.lesson = l}
recordsOf == [l \in Lesson |-> Cardinality(Records(l))]

\* The rows read as a lesson of LinearLesson.
LEMMA LinearMapping ==
  /\ Linear!Init <=> /\ phaseOf = [l \in Lesson |-> "none"]
                     /\ lengthOf = [l \in Lesson |-> 0]
                     /\ index = [l \in Lesson |-> 0]
                     /\ recordsOf = [l \in Lesson |-> 0]
  /\ \A l \in Lesson, n \in 1 .. LessonSize :
       Linear!Open(l, n) <=>
         /\ phaseOf[l] = "none"
         /\ phaseOf' = [k \in Lesson |-> IF k = l THEN "open"
                                        ELSE IF phaseOf[k] = "open" THEN "dropped"
                                        ELSE phaseOf[k]]
         /\ lengthOf' = [lengthOf EXCEPT ![l] = n]
         /\ index' = index /\ recordsOf' = recordsOf
  /\ \A l \in Lesson :
       /\ Linear!Accept(l) <=>
            /\ phaseOf[l] = "open"
            /\ index' = [index EXCEPT ![l] = @ + 1]
            /\ recordsOf' = [recordsOf EXCEPT ![l] = @ + 1]
            /\ phaseOf' = [phaseOf EXCEPT ![l] = IF index'[l] = lengthOf[l] THEN "finished" ELSE "open"]
            /\ lengthOf' = lengthOf
       /\ Linear!Drop(l) <=>
            /\ phaseOf[l] = "open"
            /\ phaseOf' = [phaseOf EXCEPT ![l] = "dropped"]
            /\ lengthOf' = lengthOf /\ index' = index /\ recordsOf' = recordsOf
  /\ UNCHANGED Linear!linearVars <=>
       phaseOf' = phaseOf /\ lengthOf' = lengthOf /\ index' = index /\ recordsOf' = recordsOf
BY DEF Linear!Init, Linear!Open, Linear!Accept, Linear!Drop, Linear!linearVars, lengthOf, recordsOf, Records

\* An open lesson is an active row, and a step that changes neither the status
\* nor the items nor the events of lessons moves nothing.
LEMMA PhaseIsStatus ==
  ASSUME StoreTypeOK, NEW l \in Lesson
  PROVE  /\ phaseOf[l] = "none" <=> status[l] = "absent"
         /\ phaseOf[l] = "open" <=> status[l] = "active"
BY DEF StoreTypeOK, Status, phaseOf

LEMMA SameRecords ==
  ASSUME NEW l \in Lesson, \A e : e.lesson = l => (e \in events' <=> e \in events)
  PROVE  Records(l)' = Records(l)
BY DEF Records

LEMMA InsertOpens ==
  ASSUME StoreInv, WholeInv, NEW l \in Lesson, NEW c \in Config, NEW selected \in Selection(Word),
         InsertLesson(l, c, selected)
  PROVE  Linear!Open(l, Cardinality(DOMAIN selected))
<1>1. /\ status[l] = "absent" /\ status \in [Lesson -> Status]
      /\ status' = [k \in Lesson |-> IF k = l THEN "active"
                                    ELSE IF status[k] = "active" THEN "discarded" ELSE status[k]]
      /\ items' = [items EXCEPT ![l] = selected]
      /\ index' = index /\ events' = events
      /\ items = [k \in Lesson |-> items[k]]
  BY DEF InsertLesson, Active, learnVars, StoreInv, StoreTypeOK
<1>2. phaseOf[l] = "none"
  BY PhaseIsStatus, <1>1 DEF StoreInv
<1>3. phaseOf' = [k \in Lesson |-> IF k = l THEN "open"
                                  ELSE IF phaseOf[k] = "open" THEN "dropped" ELSE phaseOf[k]]
  <2>1. ASSUME NEW k \in Lesson
        PROVE  phaseOf'[k] = IF k = l THEN "open"
                             ELSE IF phaseOf[k] = "open" THEN "dropped" ELSE phaseOf[k]
    BY <1>1 DEF phaseOf, Status
  <2>2. status' \in [Lesson -> Status]
    BY <1>1 DEF Status
  <2>3. phaseOf' \in [Lesson -> {"none", "open", "finished", "dropped"}]
    BY <2>2 DEF phaseOf, Status
  <2> QED BY <2>1, <2>3
<1>4. lengthOf' = [lengthOf EXCEPT ![l] = Cardinality(DOMAIN selected)]
  BY <1>1 DEF lengthOf
<1>5. recordsOf' = recordsOf
  BY <1>1 DEF recordsOf, Records
<1> QED BY <1>1, <1>2, <1>3, <1>4, <1>5, SelectionLength, LinearMapping

LEMMA DiscardDrops ==
  ASSUME StoreInv, NEW l \in Lesson, DiscardLesson(l, version[l])
  PROVE  Linear!Drop(l)
<1>1. /\ status[l] = "active" /\ status \in [Lesson -> Status]
      /\ status' = [k \in Lesson |-> IF k = l THEN "discarded" ELSE status[k]]
      /\ items' = items /\ index' = index /\ events' = events
  BY DEF DiscardLesson, Discard, learnVars, StoreInv, StoreTypeOK
<1>2. phaseOf[l] = "open"
  BY PhaseIsStatus, <1>1 DEF StoreInv
<1>3. phaseOf' = [phaseOf EXCEPT ![l] = "dropped"]
  BY <1>1 DEF phaseOf, Status
<1>4. lengthOf' = lengthOf /\ recordsOf' = recordsOf
  BY <1>1 DEF lengthOf, recordsOf, Records
<1> QED BY <1>1, <1>2, <1>3, <1>4, LinearMapping

\* A committed review moves its lesson by one item and leaves one record of it:
\* an item that is not rated yet has no event.
LEMMA CommitAccepts ==
  ASSUME StoreInv, WholeInv, NEW q \in ReviewRequest, CommitReview(q)
  PROVE  Linear!Accept(q.lesson)
<1> DEFINE l == q.lesson
           e == [id |-> nextId, lesson |-> l, word |-> q.word, version |-> q.version,
                 config |-> q.config, answer |-> q.answer, key |-> q.key]
<1>0. l \in Lesson /\ q.word \in Word
  BY DEF ReviewRequest
<1>1. /\ status[l] = "active"
      /\ index' = [index EXCEPT ![l] = index[l] + 1]
      /\ status' = [status EXCEPT ![l] = IF index[l] + 1 = Length(l) THEN "completed" ELSE "active"]
  BY CommitAdvances DEF WholeInv
<1>2. items' = items /\ events' = events \cup {e} /\ reviewed[l][q.word] = 0
  BY DEF CommitReview, ReviewError
<1>3. /\ status \in [Lesson -> Status] /\ index \in [Lesson -> 0 .. LessonSize]
      /\ \A f \in events : f.id # 0
  BY DEF StoreInv, StoreTypeOK, Event
<1>4. phaseOf[l] = "open"
  BY <1>0, <1>1, PhaseIsStatus DEF StoreInv
<1>5. phaseOf' = [phaseOf EXCEPT ![l] = IF index'[l] = lengthOf[l] THEN "finished" ELSE "open"]
  <2>1. index'[l] = index[l] + 1 /\ lengthOf[l] = Length(l)
    BY <1>0, <1>1, <1>3 DEF lengthOf, Length
  <2>2. phaseOf'[l] = IF index'[l] = lengthOf[l] THEN "finished" ELSE "open"
    BY <1>0, <1>1, <1>3, <2>1 DEF phaseOf, Status
  <2>3. \A k \in Lesson \ {l} : phaseOf'[k] = phaseOf[k]
    <3> SUFFICES ASSUME NEW k \in Lesson, k # l
                 PROVE  phaseOf'[k] = phaseOf[k]
      OBVIOUS
    <3>1. status'[k] = status[k] /\ status[k] \in Status
      BY <1>1, <1>3
    <3> QED BY <3>1 DEF phaseOf, Status
  <2>4. phaseOf \in [Lesson -> {"none", "open", "finished", "dropped"}]
    BY <1>3 DEF phaseOf, Status
  <2>5. phaseOf' \in [Lesson -> {"none", "open", "finished", "dropped"}]
    <3>1. status' \in [Lesson -> Status]
      BY <1>1, <1>3 DEF Status
    <3> QED BY <3>1 DEF phaseOf, Status
  <2> HIDE DEF l
  <2> QED BY <1>0, <2>2, <2>3, <2>4, <2>5
<1>6. recordsOf' = [recordsOf EXCEPT ![l] = @ + 1]
  <2>1. e \notin events
    <3>1. e \in events => reviewed[e.lesson][e.word] = e.id
      BY <1>0 DEF StoreInv, EventsTraceReviews
    <3> QED BY <1>2, <1>3, <3>1
  <2>2. IsFiniteSet(Records(l))
    BY FS_Subset DEF WholeInv, EventsOfItems, Records
  <2>3. Records(l)' = Records(l) \cup {e} /\ e \notin Records(l)
    BY <1>2, <2>1 DEF Records
  <2>4. Cardinality(Records(l)') = Cardinality(Records(l)) + 1
    BY <2>2, <2>3, FS_AddElement
  <2>5. \A k \in Lesson \ {l} : Records(k)' = Records(k)
    BY <1>2 DEF Records
  <2> HIDE DEF e, l
  <2> QED BY <1>0, <2>4, <2>5 DEF recordsOf
<1>7. lengthOf' = lengthOf /\ index' = [index EXCEPT ![l] = @ + 1]
  BY <1>1, <1>2 DEF lengthOf
<1> QED BY <1>0, <1>4, <1>5, <1>6, <1>7, LinearMapping

\* Everything else leaves the lessons alone: a practice review records its
\* event outside lessons.
LEMMA OthersStutter ==
  ASSUME \/ UNCHANGED storeVars
         \/ WindowPasses
         \/ \E w \in Word, c \in Config, a \in Answer : ReviewWord(w, c, a)
  PROVE  UNCHANGED Linear!linearVars
<1>1. UNCHANGED <<status, items, index>>
  BY DEF storeVars, WindowPasses, ReviewWord, lessonVars
<1>2. ASSUME NEW l \in Lesson
      PROVE  Records(l)' = Records(l)
  <2>1. CASE events' = events
    BY <2>1 DEF Records
  <2>2. ASSUME NEW w \in Word, NEW c \in Config, NEW a \in Answer, ReviewWord(w, c, a)
        PROVE  Records(l)' = Records(l)
    <3> DEFINE e == [id |-> nextId, lesson |-> NoLesson, word |-> w, version |-> 0,
                     config |-> c, answer |-> a, key |-> NoKey]
    <3>1. events' = events \cup {e} /\ e.lesson = NoLesson /\ NoLesson # l
      BY <2>2 DEF ReviewWord
    <3> HIDE DEF e
    <3> QED BY <3>1 DEF Records
  <2> QED BY <2>1, <2>2 DEF storeVars, WindowPasses, learnVars
<1>3. phaseOf' = phaseOf /\ lengthOf' = lengthOf
  BY <1>1 DEF phaseOf, lengthOf
<1>4. recordsOf' = recordsOf
  BY <1>2 DEF recordsOf
<1> QED BY <1>1, <1>3, <1>4, LinearMapping

LEMMA StepSimulatesLinear ==
  ASSUME NothingDeleted, TypeOK, StoreInv, WholeInv, [Next]_vars
  PROVE  [Linear!Next]_(Linear!linearVars)
<1>1. [Transaction]_storeVars
  BY HandlersRunTransactions
<1>2. ASSUME NEW l \in Lesson, NEW c \in Config, NEW selected \in Selection(Word),
             InsertLesson(l, c, selected)
      PROVE  Linear!Next
  <2>1. Linear!Open(l, Cardinality(DOMAIN selected))
    BY <1>2, InsertOpens
  <2> QED BY <2>1, SelectionLength DEF Linear!Next
<1>3. ASSUME NEW l \in Lesson, DiscardLesson(l, version[l])
      PROVE  Linear!Next
  BY <1>3, DiscardDrops DEF Linear!Next
<1>4. ASSUME NEW q \in ReviewRequest, CommitReview(q)
      PROVE  Linear!Next
  <2>1. q.lesson \in Lesson
    BY DEF ReviewRequest
  <2> QED BY <1>4, <2>1, CommitAccepts DEF Linear!Next
<1>5. CASE \/ UNCHANGED storeVars
           \/ WindowPasses
           \/ \E w \in Word, c \in Config, a \in Answer : ReviewWord(w, c, a)
  BY <1>5, OthersStutter
<1> QED BY <1>1, <1>2, <1>3, <1>4, <1>5 DEF Transaction, NothingDeleted

\* The concurrent handlers over the tables implement the linear lesson the
\* documents promise: every step of theirs opens, answers or drops one lesson,
\* with one record for each answer, or changes no lesson at all.
THEOREM TablesImplementLinearLesson == NothingDeleted /\ Spec => ImplementsLinearLesson
<1>1. Init => Linear!Init
  <2> SUFFICES ASSUME Init
               PROVE  Linear!Init
    OBVIOUS
  <2>1. phaseOf = [l \in Lesson |-> "none"] /\ index = [l \in Lesson |-> 0]
    BY DEF Init, StoreInit, phaseOf
  <2>2. \A l \in Lesson : DOMAIN items[l] = {} /\ Records(l) = {}
    BY DEF Init, StoreInit, Records
  <2>3. lengthOf = [l \in Lesson |-> 0] /\ recordsOf = [l \in Lesson |-> 0]
    BY <2>2, FS_EmptySet DEF lengthOf, recordsOf
  <2> QED BY <2>1, <2>3, LinearMapping
<1>2. NothingDeleted => []NothingDeleted
  BY DEF NothingDeleted, PTL
<1> QED
  BY <1>1, <1>2, StepSimulatesLinear, TypeCorrect, LessonsStayWholeWithTheirWords, PTL
  DEF Spec, ImplementsLinearLesson, Linear!Spec
=============================================================================
