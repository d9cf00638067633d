---------------------------- MODULE ReviewOutbox ----------------------------
(***************************************************************************)
(* The review outbox of one account on one device: the records that        *)
(* lib/review-outbox.ts keeps in IndexedDB, and the two writers they have   *)
(* in every tab (components/review-outbox-runtime.tsx): the intercepted     *)
(* fetch that sends an answer when the learner gives it, and the loop that  *)
(* sends queued answers again.  Tabs share the records and the refresh      *)
(* cookie; each has its own session in memory.  The review service is       *)
(* reduced to what a client can tell of it: which answer it has recorded    *)
(* for an item, which keys have a stored response, and which items can no   *)
(* longer be reviewed.                                                      *)
(*                                                                         *)
(* An item stands for a word of a lesson at a version, so one record        *)
(* belongs to one item.  The page adopts a refreshed session in the same    *)
(* step as the runtime; the moment between the two is not modelled.         *)
(***************************************************************************)
EXTENDS Naturals, FiniteSets

CONSTANTS
  Tab,
  LessonTab,  \* the tabs that show the lesson; the runtime is mounted in all
  Item,       \* the operation keys of the account
  Answer,     \* request bodies for one item
  Refused,    \* those the validation of the service refuses
  NoAnswer,
  MaxKey,     \* bound on the idempotency keys generated
  MaxEvents   \* bound on what befalls the device: see Event

ASSUME OutboxAssumption ==
  /\ LessonTab \subseteq Tab
  /\ NoAnswer \notin Answer
  /\ MaxKey \in Nat
  /\ MaxEvents \in Nat

VARIABLES
  record,     \* the IndexedDB store, by operation key
  nextKey,    \* the next UUID; keys grow with createdAt
  page,       \* per tab, the answer its intercepted fetch is handling
  sync,       \* per tab, the loop of syncPendingReviews
  session,    \* per tab, the account of sessionRef
  cookie,     \* the account of the refresh cookie
  online,     \* navigator.onLine
  recorded,   \* server: the answer recorded for an item
  stored,     \* server: the answer of the response stored under a key
  closed,     \* server: items whose lesson has moved on or is discarded
  happened    \* number of events so far

storeVars  == <<record, nextKey>>
authVars   == <<session, cookie>>
serverVars == <<recorded, stored, closed>>
vars == <<record, nextKey, page, sync, session, cookie, online, recorded,
          stored, closed, happened>>

Key     == 1 .. MaxKey
Entry   == [item : Item, answer : Answer, key : Key]
Status  == {"pending", "failed", "synced"}
Reply   == {"ok", "conflict", "retry", "expired", "lost"}
Account == {"own", "other", "none"}

NoRecord == [status |-> "none", answer |-> NoAnswer, key |-> 0]
NoEntry  == [item |-> "none", answer |-> NoAnswer, key |-> 0]
IdlePage == [at |-> "idle", entry |-> NoEntry, reply |-> "none"]
IdleSync == [at |-> "idle", todo |-> {}, token |-> "none", again |-> FALSE,
             reply |-> "none"]

\* The records are whole, a page that is sending holds an entry, and a loop
\* that runs has something to send.
TypeOK ==
  /\ record \in [Item -> [status : Status, answer : Answer, key : Key] \cup {NoRecord}]
  /\ nextKey \in 1 .. MaxKey + 1
  /\ page \in [Tab -> [at : {"sent", "got"}, entry : Entry, reply : Reply \cup {"none"}]
                        \cup {IdlePage}]
  /\ sync \in [Tab -> [at : {"sent", "got", "refresh", "adopt"},
                       todo : SUBSET Entry, token : {"own", "other"}, again : BOOLEAN,
                       reply : Reply \cup Account] \cup {IdleSync}]
  /\ \A t \in Tab : sync[t].at # "idle" => sync[t].todo # {}
  /\ session \in [Tab -> Account]
  /\ cookie \in Account
  /\ online \in BOOLEAN
  /\ recorded \in [Item -> Answer \cup {NoAnswer}]
  /\ stored \in [Key -> Answer \cup {NoAnswer}]
  /\ closed \in SUBSET Item
  /\ happened \in 0 .. MaxEvents

Init ==
  /\ record = [o \in Item |-> NoRecord]
  /\ nextKey = 1
  /\ page = [t \in Tab |-> IdlePage]
  /\ sync = [t \in Tab |-> IdleSync]
  /\ session = [t \in Tab |-> "own"]
  /\ cookie = "own"
  /\ online = TRUE
  /\ recorded = [o \in Item |-> NoAnswer]
  /\ stored = [k \in Key |-> NoAnswer]
  /\ closed = {}
  /\ happened = 0

-----------------------------------------------------------------------------
(* The review service                                                       *)

\* A loss, a server error, a disconnection, a reload, a logout, or an act of
\* another device; none of them need happen, and only so many do.
Event == happened < MaxEvents /\ happened' = happened + 1

\* The service would record this answer, or finds it recorded already.
Takes(e) ==
  /\ e.answer \notin Refused
  /\ e.item \notin closed
  /\ recorded[e.item] \in {NoAnswer, e.answer}

\* The review of a request whose key has no response yet is committed.
Commit(e) ==
  /\ stored[e.key] = NoAnswer
  /\ Takes(e)
  /\ recorded' = [recorded EXCEPT ![e.item] = e.answer]

StoreResponse(e) == stored' = [stored EXCEPT ![e.key] = e.answer]

\* The service handles a request and its reply arrives.  A request that has
\* missed the response another copy was about to store meets the lesson alone.
Serve(e, reply) ==
  \/ reply = "ok" /\ stored[e.key] = e.answer /\ UNCHANGED serverVars
  \/ reply = "ok" /\ Commit(e) /\ StoreResponse(e) /\ UNCHANGED closed
  \/ /\ reply = "conflict"
     /\ stored[e.key] \notin {NoAnswer, e.answer} \/ ~ Takes(e)
     /\ UNCHANGED serverVars

\* The request is not handled, or only in part, or its reply does not arrive.
ServePartly(e) ==
  \/ UNCHANGED serverVars
  \/ Commit(e) /\ UNCHANGED <<stored, closed>>
  \/ Commit(e) /\ StoreResponse(e) /\ UNCHANGED closed

\* What becomes of a request: "expired" is a 401, given before anything else
\* and out of turn for an access token that is fresh; "retry" is an answer that
\* asks for another attempt; "lost" a rejected fetch.
Outcome(e, reply, fresh) ==
  \/ Serve(e, reply) /\ online /\ UNCHANGED happened
  \/ /\ reply = "expired"
     /\ online
     /\ IF fresh THEN Event ELSE UNCHANGED happened
     /\ UNCHANGED serverVars
  \/ reply \in {"retry", "lost"} /\ online /\ Event /\ ServePartly(e)
  \/ reply = "lost" /\ ~ online /\ UNCHANGED happened /\ ServePartly(e)

\* Another device of the account answers the item, or the lesson moves on.
OtherDevice(o) ==
  /\ \/ \E x \in Answer \ Refused :
          /\ o \notin closed
          /\ recorded[o] = NoAnswer
          /\ recorded' = [recorded EXCEPT ![o] = x]
          /\ UNCHANGED closed
     \/ /\ o \notin closed
        /\ closed' = closed \cup {o}
        /\ UNCHANGED recorded
  /\ Event
  /\ UNCHANGED <<storeVars, page, sync, authVars, online, stored>>

-----------------------------------------------------------------------------
(* The records                                                              *)

\* updateLessonReview: whatever the record says, unless it is gone.
Update(o, status) ==
  record' = IF record[o] = NoRecord THEN record
            ELSE [record EXCEPT ![o].status = status]

\* Faulty variant: a 409 is taken for a repeat of what was recorded.
StatusAfterKnown(reply) == IF reply \in {"ok", "conflict"} THEN "synced" ELSE "pending"

\* Faulty variant: 408, 425 and 429 are not told from the other 4xx.
StatusAfterAny4xx(reply) ==
  CASE reply = "ok" -> "synced"
    [] reply \in {"conflict", "retry"} -> "failed"
    [] OTHER -> "pending"

\* reviewResponseDisposition, for the replies that settle a request.
StatusAfter(reply) ==
  CASE reply = "ok" -> "synced"
    [] reply = "conflict" -> "failed"
    [] OTHER -> "pending"

\* The entries a tab holds in memory.
InHand == {page[t].entry : t \in Tab} \cup UNION {sync[t].todo : t \in Tab}

\* pruneSyncedLessonReviews, 24 hours after the last update.  No handler that
\* holds the record is taken to last that long.
Prune(o) ==
  /\ record[o].status = "synced"
  /\ \A e \in InHand : e.key # record[o].key
  /\ record' = [record EXCEPT ![o] = NoRecord]
  /\ UNCHANGED <<nextKey, page, sync, authVars, online, serverVars, happened>>

-----------------------------------------------------------------------------
(* interceptedFetch                                                         *)

Entered(o) == [item |-> o, answer |-> record[o].answer, key |-> record[o].key]

\* enqueueLessonReview: the existing record or a new one.
Enqueue(o, x) ==
  \/ record[o] # NoRecord /\ UNCHANGED storeVars
  \/ /\ record[o] = NoRecord
     /\ nextKey \in Key
     /\ record' = [record EXCEPT ![o] = [status |-> "pending", answer |-> x, key |-> nextKey]]
     /\ nextKey' = nextKey + 1

\* Faulty variant: the body of the existing record is not compared.
GiveAnyAnswer(t, o, x) ==
  /\ session[t] = "own"
  /\ page[t].at = "idle"
  /\ Enqueue(o, x)
  /\ page' = IF ~ online THEN page
             ELSE [page EXCEPT ![t] = [at |-> "sent",
                                       entry |-> [item |-> o, answer |-> x, key |-> record'[o].key],
                                       reply |-> "none"]]
  /\ UNCHANGED <<sync, authVars, online, serverVars, happened>>

\* The learner answers an item in a tab.  An answer that differs from the one
\* on record is refused there and then; offline it stays queued.
GiveAnswer(t, o, x) ==
  /\ session[t] = "own"
  /\ page[t].at = "idle"
  /\ record[o].answer \in {NoAnswer, x}
  /\ Enqueue(o, x)
  /\ page' = IF ~ online THEN page
             ELSE [page EXCEPT ![t] = [at |-> "sent",
                                       entry |-> [item |-> o, answer |-> x, key |-> record'[o].key],
                                       reply |-> "none"]]
  /\ UNCHANGED <<sync, authVars, online, serverVars, happened>>

\* A 401 changes no record: it is left to the page, which refreshes the
\* session and asks again.
PageAnswered(t) ==
  /\ page[t].at = "sent"
  /\ \E reply \in Reply :
       /\ Outcome(page[t].entry, reply, FALSE)
       /\ page' = IF reply = "expired" THEN [page EXCEPT ![t] = IdlePage]
                  ELSE [page EXCEPT ![t].at = "got", ![t].reply = reply]
  /\ UNCHANGED <<storeVars, sync, authVars, online>>

PageSettles(t) ==
  /\ page[t].at = "got"
  /\ Update(page[t].entry.item, StatusAfter(page[t].reply))
  /\ page' = [page EXCEPT ![t] = IdlePage]
  /\ UNCHANGED <<nextKey, sync, authVars, online, serverVars, happened>>

-----------------------------------------------------------------------------
(* syncPendingReviews                                                       *)

Queue == {Entered(o) : o \in {i \in Item : record[i].status = "pending"}}

\* Records are sent in the order of createdAt.
Current(t) == CHOOSE e \in sync[t].todo : \A f \in sync[t].todo : e.key <= f.key

Begin(t) ==
  sync' = [sync EXCEPT ![t] = [at |-> "sent", todo |-> Queue, token |-> session[t],
                               again |-> FALSE, reply |-> "none"]]

\* A trigger: the connection is back, the tab visible, the session adopted, the
\* runtime mounted or the button pressed.  One loop runs in a tab, over the
\* list it reads at its start.
Start(t) ==
  /\ sync[t].at = "idle"
  /\ session[t] = "own"
  /\ online
  /\ Queue # {}
  /\ Begin(t)
  /\ UNCHANGED <<storeVars, page, authVars, online, serverVars, happened>>

SyncAnswered(t) ==
  /\ sync[t].at = "sent"
  /\ \E reply \in Reply :
       /\ Outcome(Current(t), reply, sync[t].again)
       /\ sync' = IF reply = "expired" /\ ~ sync[t].again
                  THEN [sync EXCEPT ![t].at = "refresh"]
                  ELSE [sync EXCEPT ![t].at = "got", ![t].reply = reply]
  /\ UNCHANGED <<storeVars, page, authVars, online>>

Continue(t) ==
  LET rest == sync[t].todo \ {Current(t)} IN
  sync' = [sync EXCEPT ![t] = IF rest = {} THEN IdleSync
                              ELSE [@ EXCEPT !.at = "sent", !.todo = rest,
                                             !.again = FALSE, !.reply = "none"]]

Stop(t) == sync' = [sync EXCEPT ![t] = IdleSync]

\* Faulty variant: the loop that a rejected fetch ends is not taken out of
\* syncInFlightRef.
SyncSettlesReplies(t) ==
  LET o == Current(t).item
      reply == sync[t].reply
  IN
  /\ sync[t].at = "got"
  /\ \/ reply = "ok" /\ Update(o, "synced") /\ Continue(t)
     \/ reply \in {"conflict", "retry", "expired"} /\ Update(o, StatusAfter(reply)) /\ Stop(t)
  /\ UNCHANGED <<nextKey, page, authVars, online, serverVars, happened>>

\* The loop goes on after a success only.  A rejected fetch leaves it by the
\* outer catch, which writes nothing, or, after a refresh, by the inner one.
SyncSettles(t) ==
  LET o == Current(t).item
      reply == sync[t].reply
  IN
  /\ sync[t].at = "got"
  /\ \/ reply = "ok" /\ Update(o, "synced") /\ Continue(t)
     \/ reply \in {"conflict", "retry", "expired"} /\ Update(o, StatusAfter(reply)) /\ Stop(t)
     \/ /\ reply = "lost"
        /\ IF sync[t].again THEN Update(o, "pending") ELSE UNCHANGED record
        /\ Stop(t)
  /\ UNCHANGED <<nextKey, page, authVars, online, serverVars, happened>>

\* refreshSession: the account of the cookie, or a failure.
Refresh(t) ==
  /\ sync[t].at = "refresh"
  /\ \E granted \in Account :
       /\ \/ online /\ granted = cookie /\ UNCHANGED happened
          \/ online /\ granted = "none" /\ Event
          \/ ~ online /\ granted = "none" /\ UNCHANGED happened
       /\ sync' = [sync EXCEPT ![t].at = "adopt", ![t].reply = granted]
  /\ UNCHANGED <<storeVars, page, authVars, online, serverVars>>

\* Faulty variant: the account of the new session is not compared.
AdoptAny(t) ==
  LET granted == sync[t].reply IN
  /\ sync[t].at = "adopt"
  /\ \/ /\ granted # "none"
        /\ session' = [session EXCEPT ![t] = granted]
        /\ sync' = [sync EXCEPT ![t].at = "sent", ![t].again = TRUE, ![t].token = granted,
                                ![t].reply = "none"]
        /\ UNCHANGED record
     \/ /\ granted = "none"
        /\ Update(Current(t).item, "pending")
        /\ Stop(t)
        /\ UNCHANGED session
  /\ UNCHANGED <<nextKey, page, cookie, online, serverVars, happened>>

\* The loop adopts the session the refresh gave, whatever the tab did since,
\* and sends the record again unless the session is of another account.
Adopt(t) ==
  LET granted == sync[t].reply IN
  /\ sync[t].at = "adopt"
  /\ \/ /\ granted = "own"
        /\ session' = [session EXCEPT ![t] = "own"]
        /\ sync' = [sync EXCEPT ![t].at = "sent", ![t].again = TRUE, ![t].reply = "none"]
        /\ UNCHANGED record
     \/ /\ granted = "other"
        /\ session' = [session EXCEPT ![t] = "other"]
        /\ Stop(t)
        /\ UNCHANGED record
     \/ /\ granted = "none"
        /\ Update(Current(t).item, "pending")
        /\ Stop(t)
        /\ UNCHANGED session
  /\ UNCHANGED <<nextKey, page, cookie, online, serverVars, happened>>

-----------------------------------------------------------------------------
(* The tabs, their sessions and the network                                 *)

\* A tab is closed or reloaded, by the learner, the system, or the runtime
\* after a loop that synchronised something; it restores the session of the
\* cookie when it opens again.
Reload(t) ==
  /\ page' = [page EXCEPT ![t] = IdlePage]
  /\ sync' = [sync EXCEPT ![t] = IdleSync]
  /\ session' = [session EXCEPT ![t] = cookie]
  /\ Event
  /\ UNCHANGED <<storeVars, cookie, online, serverVars>>

\* The page refreshes its session: the runtime sees the response and adopts it.
PageRefreshes(t) ==
  /\ session[t] # "none"
  /\ cookie # "none"
  /\ session' = [session EXCEPT ![t] = cookie]
  /\ UNCHANGED <<storeVars, page, sync, cookie, online, serverVars, happened>>

Login(t, a) ==
  /\ session[t] = "none"
  /\ online
  /\ session' = [session EXCEPT ![t] = a]
  /\ cookie' = a
  /\ UNCHANGED <<storeVars, page, sync, online, serverVars, happened>>

Logout(t) ==
  /\ session[t] # "none"
  /\ online
  /\ Event
  /\ session' = [session EXCEPT ![t] = "none"]
  /\ cookie' = "none"
  /\ UNCHANGED <<storeVars, page, sync, online, serverVars>>

GoOffline ==
  /\ online
  /\ Event
  /\ online' = FALSE
  /\ UNCHANGED <<storeVars, page, sync, authVars, serverVars>>

GoOnline ==
  /\ ~ online
  /\ online' = TRUE
  /\ UNCHANGED <<storeVars, page, sync, authVars, serverVars, happened>>

Next ==
  \/ \E t \in Tab :
       \/ t \in LessonTab /\ \E o \in Item, x \in Answer : GiveAnswer(t, o, x)
       \/ PageAnswered(t)
       \/ PageSettles(t)
       \/ Start(t)
       \/ SyncAnswered(t)
       \/ SyncSettles(t)
       \/ Refresh(t)
       \/ Adopt(t)
       \/ Reload(t)
       \/ PageRefreshes(t)
       \/ Logout(t)
       \/ \E a \in {"own", "other"} : Login(t, a)
  \/ \E o \in Item : OtherDevice(o) \/ Prune(o)
  \/ GoOffline
  \/ GoOnline

\* Handlers run on and requests end; a tab that can sync is triggered.
Fairness ==
  \A t \in Tab :
    /\ WF_vars(PageAnswered(t) \/ PageSettles(t))
    /\ WF_vars(Start(t))
    /\ WF_vars(SyncAnswered(t) \/ SyncSettles(t) \/ Refresh(t) \/ Adopt(t))

Spec == Init /\ [][Next]_vars
FairSpec == Spec /\ Fairness

-----------------------------------------------------------------------------
(* Properties                                                               *)

\* An answer the device reports as synchronised is the answer the server has
\* recorded, although a late reply, a second tab or a stale list may write
\* the record at any time and other devices answer the same items.
SyncedMeansRecorded ==
  \A o \in Item : record[o].status = "synced" => recorded[o] = record[o].answer

\* No answer is given up ("failed") while the server would still take it,
\* whichever copy of it the refusal was given to.
FailedMeansRefused ==
  \A o \in Item : record[o].status = "failed" => ~ Takes(Entered(o))

\* The requests that carry a key, from any tab and before or after a reload,
\* all carry the same answer, so the server never finds a key reused.
KeysNameOneAnswer ==
  /\ \A e, f \in InHand : e.key = f.key => e = f
  /\ \A e \in InHand : e.key \in Key => stored[e.key] \in {NoAnswer, e.answer}

\* A queued answer of one account is not sent with a token of another, though
\* the tabs share the cookie and a refresh may return another account.
QueueStaysWithItsAccount ==
  \A t \in Tab : sync[t].at = "sent" => sync[t].token = "own"

\* Once the network stays up, in a tab with a session every queued answer is
\* settled, in spite of the writers that set records back to pending.
AnswersSettle ==
  (/\ <>[] online
   /\ \E t \in Tab : <>[] (session[t] = "own" /\ cookie = "own"))
  => <>[] (\A o \in Item : record[o].status # "pending")

=============================================================================
