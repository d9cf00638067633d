------------------------- MODULE ReviewOutboxProofs -------------------------
(***************************************************************************)
(* Theorems of ReviewOutbox, for every number of tabs, items and answers   *)
(* and for any number of events and keys.                                  *)
(***************************************************************************)
EXTENDS ReviewOutbox, TLAPS, WellFoundedInduction

USE OutboxAssumption

\* The entry is the present record of its item.
Matches(e) ==
  /\ e \in Entry
  /\ record[e.item] # NoRecord
  /\ record[e.item].key = e.key
  /\ record[e.item].answer = e.answer

\* What a reply said of an entry is still so.
Settled(e, reply) ==
  /\ reply = "ok" => recorded[e.item] = e.answer
  /\ reply = "conflict" => ~ Takes(e)

PageInv(t) ==
  /\ page[t].at # "idle" => Matches(page[t].entry)
  /\ page[t].at = "got" => Settled(page[t].entry, page[t].reply)

SyncInv(t) ==
  /\ sync[t].at # "idle" => sync[t].token = "own"
  /\ \A e \in sync[t].todo : Matches(e)
  /\ sync[t].at = "got" => Settled(Current(t), sync[t].reply)

\* Keys are serial, and no two records have one.
KeysInv ==
  /\ \A o \in Item : record[o].key < nextKey
  /\ \A o, p \in Item :
       record[o] # NoRecord /\ record[o].key = record[p].key => o = p

\* A stored response is the one of the record with its key.
StoredInv ==
  /\ \A k \in Key : stored[k] # NoAnswer => k < nextKey
  /\ \A o \in Item :
       record[o] # NoRecord /\ stored[record[o].key] # NoAnswer
         => /\ stored[record[o].key] = record[o].answer
            /\ recorded[o] = record[o].answer

RecordsInv == KeysInv /\ StoredInv /\ SyncedMeansRecorded /\ FailedMeansRefused

Inv ==
  /\ TypeOK
  /\ RecordsInv
  /\ \A t \in Tab : PageInv(t) /\ SyncInv(t)

-----------------------------------------------------------------------------
(* The entry a loop is at.                                                  *)

\* A set of natural numbers has a smallest.
LEMMA SmallestOf ==
  ASSUME NEW T, T \subseteq Nat, T # {}
  PROVE  \E x \in T : \A y \in T : x <= y
<1> DEFINE R == {p \in Nat \X Nat : p[1] < p[2]}
<1>1. IsWellFoundedOn(R, Nat)
  BY NatLessThanWellFounded DEF OpToRel
<1>2. PICK x \in T : \A y \in T : <<y, x>> \notin R
  <2> HIDE DEF R
  <2> QED BY <1>1, WFMin
<1>3. ASSUME NEW y \in T, y < x
      PROVE  FALSE
  <2>1. <<y, x>> \in Nat \X Nat /\ <<y, x>>[1] < <<y, x>>[2]
    BY <1>3
  <2> QED BY <2>1, <1>2
<1> QED BY <1>3

\* Current(t) is one of the entries the loop has left to send.
LEMMA CurrentIsQueued ==
  ASSUME NEW t \in Tab, sync[t].todo \subseteq Entry, sync[t].todo # {}
  PROVE  Current(t) \in sync[t].todo
<1> DEFINE keys == {e.key : e \in sync[t].todo}
<1>1. keys \subseteq Nat /\ keys # {}
  BY DEF Entry, Key
<1>2. PICK k \in keys : \A l \in keys : k <= l
  <2> HIDE DEF keys
  <2> QED BY <1>1, SmallestOf
<1>3. \E e \in sync[t].todo : \A f \in sync[t].todo : e.key <= f.key
  BY <1>2
<1> QED BY <1>3 DEF Current

\* The same, of a loop that runs.
LEMMA CurrentMatches ==
  ASSUME Inv, NEW t \in Tab, sync[t].at # "idle"
  PROVE  /\ Current(t) \in sync[t].todo
         /\ Current(t) \in Entry
         /\ Matches(Current(t))
<1>1. sync[t].todo # {} /\ \A e \in sync[t].todo : Matches(e)
  BY DEF Inv, TypeOK, SyncInv
<1>2. sync[t].todo \subseteq Entry
  BY <1>1 DEF Matches
<1>3. Current(t) \in sync[t].todo
  BY <1>1, <1>2, CurrentIsQueued
<1> QED BY <1>1, <1>3 DEF Matches

-----------------------------------------------------------------------------
(* The service.                                                             *)

\* What the server has recorded or closed stays so.
Grows ==
  /\ \A o \in Item : recorded[o] # NoAnswer => recorded'[o] = recorded[o]
  /\ closed \subseteq closed'

\* What is not recorded changes no key or answer of a record.
Kept ==
  \A o \in Item : record[o] # NoRecord =>
    /\ record'[o] # NoRecord
    /\ record'[o].key = record[o].key
    /\ record'[o].answer = record[o].answer

\* A whole record has a status, an answer and a key.
LEMMA RecordFields ==
  ASSUME TypeOK, NEW o \in Item
  PROVE  /\ record[o] # NoRecord => /\ record[o].status \in Status
                                    /\ record[o].answer \in Answer
                                    /\ record[o].key \in Key
         /\ record[o] = NoRecord => /\ record[o].status \notin Status
                                    /\ record[o].answer = NoAnswer
                                    /\ record[o].key = 0
  BY DEF TypeOK, NoRecord, Status

\* An answer that was refused, or is recorded, stays so.
LEMMA SettledStays ==
  ASSUME TypeOK, Grows, NEW e \in Entry, NEW reply, Settled(e, reply)
  PROVE  Settled(e, reply)'
  BY DEF TypeOK, Grows, Entry, Settled, Takes

\* What Outcome says of the service.
Handled(e, reply) ==
  /\ Event \/ UNCHANGED happened
  /\ \/ Serve(e, reply)
     \/ reply \in {"expired", "retry", "lost"} /\ ServePartly(e)

\* A request of a record keeps the server's side of the records, and its reply
\* says what was decided.
LEMMA ServiceStep ==
  ASSUME Inv, NEW e, Matches(e), NEW reply,
         Handled(e, reply), UNCHANGED storeVars
  PROVE  /\ Grows
         /\ RecordsInv'
         /\ Settled(e, reply)'
         /\ recorded' \in [Item -> Answer \cup {NoAnswer}]
         /\ stored' \in [Key -> Answer \cup {NoAnswer}]
         /\ closed' = closed
         /\ happened' \in 0 .. MaxEvents
<1> USE DEF storeVars, serverVars
<1>1. TypeOK /\ KeysInv /\ StoredInv /\ SyncedMeansRecorded /\ FailedMeansRefused
  BY DEF Inv, RecordsInv
<1>2. e.item \in Item /\ e.answer \in Answer /\ e.key \in Key /\ NoAnswer \notin Answer
  BY DEF Matches, Entry
<1>3. happened' \in 0 .. MaxEvents
  BY <1>1 DEF Handled, Event, TypeOK
<1>4. \/ UNCHANGED serverVars
      \/ Commit(e) /\ UNCHANGED <<stored, closed>>
      \/ Commit(e) /\ StoreResponse(e) /\ UNCHANGED closed
  BY DEF Handled, Serve, ServePartly
<1>5. /\ Grows
      /\ recorded' \in [Item -> Answer \cup {NoAnswer}]
      /\ stored' \in [Key -> Answer \cup {NoAnswer}]
      /\ closed' = closed
  BY <1>1, <1>2, <1>4 DEF TypeOK, Commit, StoreResponse, Takes, Grows
<1>6. SyncedMeansRecorded' /\ FailedMeansRefused'
  <2>1. ASSUME NEW o \in Item, record[o].status = "synced"
        PROVE  recorded'[o] = record[o].answer
    BY <1>1, <1>5, <2>1, RecordFields DEF SyncedMeansRecorded, Grows, Status
  <2>2. ASSUME NEW o \in Item, record[o].status = "failed"
        PROVE  ~ Takes(Entered(o))'
    BY <1>1, <1>5, <2>2 DEF FailedMeansRefused, Grows, TypeOK, Takes, Entered
  <2> QED BY <2>1, <2>2 DEF SyncedMeansRecorded, FailedMeansRefused
<1>7. KeysInv'
  BY <1>1 DEF KeysInv
<1>8. StoredInv'
  <2>1. CASE UNCHANGED stored
    BY <1>1, <1>5, <2>1, RecordFields DEF StoredInv, Grows
  <2>2. CASE Commit(e) /\ StoreResponse(e)
    <3>1. /\ stored' = [stored EXCEPT ![e.key] = e.answer]
          /\ recorded'[e.item] = e.answer
      BY <1>1, <1>2, <2>2 DEF Commit, StoreResponse, TypeOK
    <3>2. /\ record[e.item] # NoRecord
          /\ record[e.item].key = e.key
          /\ record[e.item].answer = e.answer
          /\ e.key < nextKey
      BY <1>1, <1>2 DEF Matches, KeysInv
    <3>3. ASSUME NEW k \in Key, stored'[k] # NoAnswer
          PROVE  k < nextKey
      BY <1>1, <3>1, <3>2, <3>3 DEF StoredInv, TypeOK
    <3>4. ASSUME NEW o \in Item, record[o] # NoRecord, stored'[record[o].key] # NoAnswer
          PROVE  stored'[record[o].key] = record[o].answer /\ recorded'[o] = record[o].answer
      <4>1. CASE record[o].key = e.key
        <5>1. o = e.item
          BY <1>1, <1>2, <3>2, <3>4, <4>1 DEF KeysInv
        <5> QED BY <1>1, <1>2, <3>1, <3>2, <5>1 DEF TypeOK
      <4>2. CASE record[o].key # e.key
        <5>1. record[o].key \in Key /\ record[o].answer \in Answer
          BY <1>1, <3>4, RecordFields
        <5>2. stored'[record[o].key] = stored[record[o].key]
          BY <1>1, <3>1, <4>2, <5>1 DEF TypeOK
        <5> QED BY <1>1, <1>5, <3>4, <5>1, <5>2 DEF StoredInv, Grows
      <4> QED BY <4>1, <4>2
    <3> QED BY <3>3, <3>4 DEF StoredInv
  <2> QED BY <1>4, <2>1, <2>2
<1>9. Settled(e, reply)'
  <2>1. CASE Serve(e, reply)
    <3>1. ASSUME reply = "ok"
          PROVE  recorded'[e.item] = e.answer
      BY <1>1, <1>2, <2>1, <3>1 DEF Serve, Commit, TypeOK, StoredInv, Matches
    <3>2. ASSUME reply = "conflict"
          PROVE  ~ Takes(e)'
      <4>1. UNCHANGED serverVars /\ (stored[e.key] \notin {NoAnswer, e.answer} \/ ~ Takes(e))
        BY <2>1, <3>2 DEF Serve
      <4>2. stored[e.key] \in {NoAnswer, e.answer}
        BY <1>1, <1>2 DEF StoredInv, Matches
      <4> QED BY <4>1, <4>2 DEF Takes
    <3> QED BY <3>1, <3>2 DEF Settled
  <2>2. CASE reply \in {"expired", "retry", "lost"}
    BY <2>2 DEF Settled
  <2> QED BY <2>1, <2>2 DEF Handled
<1> QED BY <1>3, <1>5, <1>6, <1>7, <1>8, <1>9 DEF RecordsInv

\* Matching entries still match when the records they match are kept.
LEMMA TabStays ==
  ASSUME Inv, NEW t \in Tab, Grows, Kept
  PROVE  /\ page'[t] = page[t] => PageInv(t)'
         /\ sync'[t] = sync[t] => SyncInv(t)'
<1>1. TypeOK /\ PageInv(t) /\ SyncInv(t)
  BY DEF Inv
<1>2. ASSUME NEW e, Matches(e)
      PROVE  Matches(e)'
  BY <1>2 DEF Matches, Kept, Entry
<1>3. ASSUME NEW e, Matches(e), NEW reply, Settled(e, reply)
      PROVE  Settled(e, reply)'
  BY <1>1, <1>3, SettledStays DEF Matches
<1>4. ASSUME page'[t] = page[t]
      PROVE  PageInv(t)'
  <2>1. ASSUME page[t].at # "idle"
        PROVE  Matches(page[t].entry)'
    BY <1>1, <1>2, <1>4, <2>1 DEF PageInv
  <2>2. ASSUME page[t].at = "got"
        PROVE  Settled(page[t].entry, page[t].reply)'
    BY <1>1, <1>3, <1>4, <2>2 DEF PageInv
  <2> QED BY <1>4, <2>1, <2>2 DEF PageInv
<1>5. ASSUME sync'[t] = sync[t]
      PROVE  SyncInv(t)'
  <2>1. Current(t)' = Current(t)
    BY <1>5 DEF Current
  <2>2. ASSUME sync[t].at = "got"
        PROVE  Settled(Current(t), sync[t].reply)'
    <3>1. Settled(Current(t), sync[t].reply) /\ Matches(Current(t))
      BY <1>1, <2>2, CurrentMatches DEF SyncInv
    <3>2. \A e, reply : Matches(e) /\ Settled(e, reply) => Settled(e, reply)'
      BY <1>3
    <3> QED BY <1>3, <1>5, <2>1, <3>1
  <2> QED BY <1>1, <1>2, <1>5, <2>1, <2>2 DEF SyncInv
<1> QED BY <1>4, <1>5

-----------------------------------------------------------------------------
(* The records.                                                             *)

RecordType == [Item -> [status : Status, answer : Answer, key : Key] \cup {NoRecord}]

\* A new status of a record, when the server bears it out.
LEMMA UpdateStep ==
  ASSUME Inv, NEW e, Matches(e), NEW status \in Status,
         Update(e.item, status),
         status = "synced" => Settled(e, "ok"),
         status = "failed" => Settled(e, "conflict"),
         UNCHANGED <<nextKey, serverVars>>
  PROVE  Grows /\ Kept /\ RecordsInv' /\ record' \in RecordType
<1> USE DEF serverVars
<1>1. TypeOK /\ KeysInv /\ StoredInv /\ SyncedMeansRecorded /\ FailedMeansRefused
  BY DEF Inv, RecordsInv
<1>2. e.item \in Item /\ record[e.item] # NoRecord /\ record[e.item].answer = e.answer
  BY DEF Matches, Entry
<1>3. record' = [record EXCEPT ![e.item].status = status]
  BY <1>2 DEF Update
<1>4. record[e.item] \in [status : Status, answer : Answer, key : Key]
  BY <1>1, <1>2 DEF TypeOK
<1>5. /\ record'[e.item] \in [status : Status, answer : Answer, key : Key]
      /\ record'[e.item].status = status
      /\ record'[e.item].key = record[e.item].key
      /\ record'[e.item].answer = record[e.item].answer
  BY <1>1, <1>2, <1>3, <1>4 DEF TypeOK
<1>6. \A o \in Item : o # e.item => record'[o] = record[o]
  BY <1>1, <1>3 DEF TypeOK
<1>7. record' \in RecordType
  BY <1>1, <1>3, <1>4 DEF TypeOK, RecordType
<1>8. record'[e.item] # NoRecord
  BY <1>5 DEF NoRecord, Key
<1>9. \A o \in Item : /\ record'[o].key = record[o].key
                      /\ record'[o].answer = record[o].answer
                      /\ record'[o] = NoRecord <=> record[o] = NoRecord
  BY <1>2, <1>5, <1>6, <1>8
<1>10. Grows /\ Kept
  BY <1>9 DEF Grows, Kept
<1>11. KeysInv' /\ StoredInv'
  BY <1>1, <1>9 DEF KeysInv, StoredInv
<1>12. SyncedMeansRecorded'
  <2>1. ASSUME NEW o \in Item, record'[o].status = "synced"
        PROVE  recorded'[o] = record'[o].answer
    <3>1. CASE o = e.item
      BY <1>2, <1>5, <2>1, <3>1 DEF Settled
    <3>2. CASE o # e.item
      BY <1>1, <1>6, <2>1, <3>2 DEF SyncedMeansRecorded
    <3> QED BY <3>1, <3>2
  <2> QED BY <2>1 DEF SyncedMeansRecorded
<1>13. FailedMeansRefused'
  <2>1. ASSUME NEW o \in Item, record'[o].status = "failed"
        PROVE  ~ Takes(Entered(o))'
    <3>1. CASE o = e.item
      BY <1>2, <1>5, <2>1, <3>1 DEF Settled, Takes, Entered
    <3>2. CASE o # e.item
      BY <1>1, <1>6, <2>1, <3>2 DEF FailedMeansRefused, Takes, Entered
    <3> QED BY <3>1, <3>2
  <2> QED BY <2>1 DEF FailedMeansRefused
<1> QED BY <1>7, <1>10, <1>11, <1>12, <1>13 DEF RecordsInv

\* A status that follows from a reply that is settled.
LEMMA StatusIsSettled ==
  ASSUME NEW e, NEW reply, Settled(e, reply)
  PROVE  /\ StatusAfter(reply) \in Status
         /\ StatusAfter(reply) = "synced" => Settled(e, "ok")
         /\ StatusAfter(reply) = "failed" => Settled(e, "conflict")
  BY DEF StatusAfter, Status, Settled

\* A new answer gets a key that no record and no stored response has.
LEMMA EnqueueStep ==
  ASSUME Inv, NEW o \in Item, NEW x \in Answer,
         record[o].answer \in {NoAnswer, x}, Enqueue(o, x), UNCHANGED serverVars
  PROVE  /\ Grows
         /\ Kept
         /\ RecordsInv'
         /\ record' \in RecordType
         /\ nextKey' \in 1 .. MaxKey + 1
         /\ Matches([item |-> o, answer |-> x, key |-> record[o].key])'
<1> USE DEF serverVars, storeVars
<1>1. TypeOK /\ KeysInv /\ StoredInv /\ SyncedMeansRecorded /\ FailedMeansRefused
  BY DEF Inv, RecordsInv
<1>2. Grows
  BY DEF Grows
<1>3. CASE record[o] # NoRecord /\ UNCHANGED storeVars
  <2>1. record[o].answer = x /\ record[o].key \in Key
    BY <1>1, <1>3, RecordFields
  <2>2. Matches([item |-> o, answer |-> x, key |-> record[o].key])'
    BY <1>3, <2>1 DEF Matches, Entry
  <2>3. RecordsInv'
    BY <1>1, <1>3 DEF RecordsInv, KeysInv, StoredInv, SyncedMeansRecorded,
                      FailedMeansRefused, Takes, Entered
  <2> QED BY <1>1, <1>2, <1>3, <2>2, <2>3 DEF Kept, RecordType, TypeOK
<1>4. CASE /\ record[o] = NoRecord
           /\ nextKey \in Key
           /\ record' = [record EXCEPT ![o] = [status |-> "pending", answer |-> x, key |-> nextKey]]
           /\ nextKey' = nextKey + 1
  <2>1. /\ record'[o] = [status |-> "pending", answer |-> x, key |-> nextKey]
        /\ \A p \in Item : p # o => record'[p] = record[p]
    BY <1>1, <1>4 DEF TypeOK
  <2>2. nextKey \in Nat /\ nextKey # 0
    BY <1>4 DEF Key
  <2>3. record'[o] # NoRecord
    BY <2>1, <2>2 DEF NoRecord
  <2>4. record' \in RecordType /\ nextKey' \in 1 .. MaxKey + 1
    BY <1>1, <1>4 DEF TypeOK, RecordType, Status, Key
  <2>5. Matches([item |-> o, answer |-> x, key |-> record[o].key])'
    BY <1>4, <2>1, <2>3 DEF Matches, Entry
  <2>6. Kept
    BY <1>4, <2>1 DEF Kept
  <2>7. \A p \in Item : record[p].key \in Nat
    BY <1>1, RecordFields DEF Key
  <2>8. KeysInv'
    <3>1. \A p \in Item : record'[p].key < nextKey'
      BY <1>1, <1>4, <2>1, <2>2, <2>7 DEF KeysInv
    <3>2. ASSUME NEW p \in Item, NEW r \in Item, record'[p] # NoRecord,
                 record'[p].key = record'[r].key
          PROVE  p = r
      <4>1. ASSUME NEW i \in Item, i # o
            PROVE  record'[i].key # nextKey
        BY <1>1, <2>1, <2>2, <2>7, <4>1 DEF KeysInv
      <4>2. CASE p # o /\ r # o
        BY <1>1, <2>1, <3>2, <4>2 DEF KeysInv
      <4>3. CASE p = o \/ r = o
        BY <2>1, <3>2, <4>1, <4>3
      <4> QED BY <4>2, <4>3
    <3> QED BY <3>1, <3>2 DEF KeysInv
  <2>9. StoredInv'
    <3>1. stored[nextKey] = NoAnswer
      BY <1>1, <1>4, <2>2 DEF StoredInv
    <3>2. \A k \in Key : stored[k] # NoAnswer => k < nextKey'
      BY <1>1, <1>4, <2>2 DEF StoredInv, Key
    <3> QED BY <1>1, <2>1, <3>1, <3>2 DEF StoredInv
  <2>10. SyncedMeansRecorded' /\ FailedMeansRefused'
    BY <1>1, <2>1 DEF SyncedMeansRecorded, FailedMeansRefused, Takes, Entered
  <2> QED BY <1>2, <2>4, <2>5, <2>6, <2>8, <2>9, <2>10 DEF RecordsInv
<1> QED BY <1>3, <1>4 DEF Enqueue

-----------------------------------------------------------------------------
(* The steps of one tab.                                                    *)

SendingPage == [at : {"sent", "got"}, entry : Entry, reply : Reply \cup {"none"}]

RunningSync == [at : {"sent", "got", "refresh", "adopt"},
                todo : SUBSET Entry, token : {"own", "other"}, again : BOOLEAN,
                reply : Reply \cup Account]

\* The type of everything but the handlers of the tabs.
RestOK ==
  /\ record \in RecordType
  /\ nextKey \in 1 .. MaxKey + 1
  /\ session \in [Tab -> Account]
  /\ cookie \in Account
  /\ online \in BOOLEAN
  /\ recorded \in [Item -> Answer \cup {NoAnswer}]
  /\ stored \in [Key -> Answer \cup {NoAnswer}]
  /\ closed \in SUBSET Item
  /\ happened \in 0 .. MaxEvents

LEMMA TypeParts ==
  ASSUME TypeOK
  PROVE  /\ RestOK
         /\ page \in [Tab -> SendingPage \cup {IdlePage}]
         /\ sync \in [Tab -> RunningSync \cup {IdleSync}]
         /\ \A t \in Tab : page[t].at # "idle" => page[t] \in SendingPage
         /\ \A t \in Tab : sync[t].at # "idle" => sync[t] \in RunningSync /\ sync[t].todo # {}
         /\ \A t \in Tab : sync[t].at = "idle" => sync[t] = IdleSync
<1>1. /\ RestOK
      /\ page \in [Tab -> SendingPage \cup {IdlePage}]
      /\ sync \in [Tab -> RunningSync \cup {IdleSync}]
      /\ \A t \in Tab : sync[t].at # "idle" => sync[t].todo # {}
  BY DEF TypeOK, RestOK, RecordType, SendingPage, RunningSync
<1>2. IdlePage.at = "idle" /\ IdleSync.at = "idle"
  BY DEF IdlePage, IdleSync
<1>3. \A s \in RunningSync : s.at # "idle"
  BY DEF RunningSync
<1> QED BY <1>1, <1>2, <1>3

\* A step of the page of tab t keeps the invariant when it keeps it for t.
LEMMA PageMoves ==
  ASSUME Inv, Grows, Kept, RecordsInv', RestOK', UNCHANGED sync,
         NEW t \in Tab, page' = [page EXCEPT ![t] = page'[t]],
         page'[t] \in SendingPage \cup {IdlePage}, PageInv(t)'
  PROVE  Inv'
<1>1. page' \in [Tab -> SendingPage \cup {IdlePage}]
  BY TypeParts DEF Inv
<1>2. TypeOK'
  BY <1>1 DEF TypeOK, RestOK, RecordType, SendingPage, Inv
<1>3. \A u \in Tab : u # t => page'[u] = page[u]
  BY TypeParts DEF Inv
<1>4. \A u \in Tab : PageInv(u)' /\ SyncInv(u)'
  BY <1>3, TabStays
<1> QED BY <1>2, <1>4 DEF Inv

\* The same of the loop.
LEMMA SyncMoves ==
  ASSUME Inv, Grows, Kept, RecordsInv', RestOK', UNCHANGED page,
         NEW t \in Tab, sync' = [sync EXCEPT ![t] = sync'[t]],
         sync'[t] \in RunningSync \cup {IdleSync},
         sync'[t].at # "idle" => sync'[t].todo # {},
         SyncInv(t)'
  PROVE  Inv'
<1>1. sync' \in [Tab -> RunningSync \cup {IdleSync}]
  BY TypeParts DEF Inv
<1>2. \A u \in Tab : u # t => sync'[u] = sync[u]
  BY TypeParts DEF Inv
<1>3. \A u \in Tab : sync'[u].at # "idle" => sync'[u].todo # {}
  BY <1>2, TypeParts DEF Inv
<1>4. TypeOK'
  BY <1>1, <1>3 DEF TypeOK, RestOK, RecordType, RunningSync, Inv
<1>5. \A u \in Tab : PageInv(u)' /\ SyncInv(u)'
  BY <1>2, TabStays
<1> QED BY <1>4, <1>5 DEF Inv

\* A step of nobody's handler.
LEMMA OthersMove ==
  ASSUME Inv, Grows, Kept, RecordsInv', RestOK', UNCHANGED <<page, sync>>
  PROVE  Inv'
<1>1. TypeOK'
  BY DEF TypeOK, RestOK, RecordType, Inv
<1> QED BY <1>1, TabStays DEF Inv

\* The records and the server's side of them, left alone.
LEMMA RecordsStay ==
  ASSUME Inv, UNCHANGED <<storeVars, serverVars>>
  PROVE  Grows /\ Kept /\ RecordsInv'
  BY DEF Inv, RecordsInv, KeysInv, StoredInv, SyncedMeansRecorded, FailedMeansRefused,
         Takes, Entered, Grows, Kept, storeVars, serverVars

LEMMA IdleHandlers ==
  /\ \A t \in Tab : page'[t] = IdlePage => PageInv(t)'
  /\ \A t \in Tab : sync'[t] = IdleSync => SyncInv(t)'
  BY DEF PageInv, SyncInv, IdlePage, IdleSync

LEMMA GiveAnswerStep ==
  ASSUME Inv, NEW t \in Tab, NEW o \in Item, NEW x \in Answer, GiveAnswer(t, o, x)
  PROVE  Inv'
<1> USE DEF authVars, serverVars
<1>1. /\ Enqueue(o, x)
      /\ record[o].answer \in {NoAnswer, x}
      /\ UNCHANGED <<sync, authVars, online, serverVars, happened>>
  BY DEF GiveAnswer
<1>2. /\ Grows /\ Kept /\ RecordsInv'
      /\ record' \in RecordType /\ nextKey' \in 1 .. MaxKey + 1
      /\ Matches([item |-> o, answer |-> x, key |-> record[o].key])'
  BY <1>1, EnqueueStep
<1>3. RestOK'
  BY <1>1, <1>2, TypeParts DEF Inv, RestOK
<1>4. CASE UNCHANGED page
  BY <1>1, <1>2, <1>3, <1>4, OthersMove
<1>5. CASE page' = [page EXCEPT ![t] = [at |-> "sent",
                                        entry |-> [item |-> o, answer |-> x, key |-> record'[o].key],
                                        reply |-> "none"]]
  <2>1. page'[t] = [at |-> "sent",
                    entry |-> [item |-> o, answer |-> x, key |-> record'[o].key],
                    reply |-> "none"]
    BY <1>5, TypeParts DEF Inv
  <2>2. page'[t] \in SendingPage
    BY <1>2, <2>1 DEF Matches, SendingPage
  <2>3. PageInv(t)'
    BY <1>2, <2>1 DEF PageInv
  <2>4. page' = [page EXCEPT ![t] = page'[t]]
    BY <1>5, <2>1
  <2> QED BY <1>1, <1>2, <1>3, <2>2, <2>3, <2>4, PageMoves
<1> QED BY <1>4, <1>5 DEF GiveAnswer

LEMMA PageAnsweredStep ==
  ASSUME Inv, NEW t \in Tab, PageAnswered(t)
  PROVE  Inv'
<1> USE DEF authVars
<1>e. PICK e : e = page[t].entry
  OBVIOUS
<1>1. PICK reply \in Reply :
        /\ Outcome(e, reply, FALSE)
        /\ page' = IF reply = "expired" THEN [page EXCEPT ![t] = IdlePage]
                   ELSE [page EXCEPT ![t].at = "got", ![t].reply = reply]
  BY <1>e DEF PageAnswered
<1>2. /\ page[t].at = "sent"
      /\ UNCHANGED <<storeVars, sync, authVars, online>>
  BY DEF PageAnswered
<1>3. Matches(e) /\ page[t] \in SendingPage
  BY <1>e, <1>2, TypeParts DEF Inv, PageInv
<1>4. Handled(e, reply)
  BY <1>1 DEF Outcome, Handled, ServePartly
<1>5. /\ Grows /\ RecordsInv' /\ Settled(e, reply)'
      /\ recorded' \in [Item -> Answer \cup {NoAnswer}]
      /\ stored' \in [Key -> Answer \cup {NoAnswer}]
      /\ closed' = closed
      /\ happened' \in 0 .. MaxEvents
  BY <1>2, <1>3, <1>4, ServiceStep
<1>6. RestOK' /\ Kept
  BY <1>2, <1>5, TypeParts DEF Inv, RestOK, Kept, storeVars
<1>7. CASE reply = "expired"
  <2>1. page'[t] = IdlePage /\ page' = [page EXCEPT ![t] = page'[t]]
    BY <1>1, <1>7, TypeParts DEF Inv
  <2> QED BY <1>2, <1>5, <1>6, <2>1, IdleHandlers, PageMoves
<1>8. CASE reply # "expired"
  <2>1. /\ page'[t] = [page[t] EXCEPT !.at = "got", !.reply = reply]
        /\ page' = [page EXCEPT ![t] = page'[t]]
    BY <1>1, <1>8, TypeParts DEF Inv
  <2>2. /\ page'[t] \in SendingPage
        /\ page'[t].at = "got"
        /\ page'[t].entry = e
        /\ page'[t].reply = reply
    BY <1>e, <1>3, <2>1 DEF SendingPage
  <2>3. Matches(e)'
    BY <1>2, <1>3, <2>2 DEF Matches, Entry, storeVars
  <2>4. PageInv(t)'
    BY <1>5, <2>2, <2>3 DEF PageInv
  <2> QED BY <1>2, <1>5, <1>6, <2>1, <2>2, <2>4, PageMoves
<1> QED BY <1>7, <1>8

LEMMA PageSettlesStep ==
  ASSUME Inv, NEW t \in Tab, PageSettles(t)
  PROVE  Inv'
<1> USE DEF authVars
<1>1. PICK e, reply : e = page[t].entry /\ reply = page[t].reply
  OBVIOUS
<1>2. /\ Update(e.item, StatusAfter(reply))
      /\ page' = [page EXCEPT ![t] = IdlePage]
      /\ UNCHANGED <<nextKey, sync, authVars, online, serverVars, happened>>
  BY <1>1 DEF PageSettles
<1>3. Matches(e) /\ Settled(e, reply)
  BY <1>1 DEF PageSettles, Inv, PageInv
<1>4. PICK status : status = StatusAfter(reply)
  OBVIOUS
<1>5. Grows /\ Kept /\ RecordsInv' /\ record' \in RecordType
  BY <1>2, <1>3, <1>4, StatusIsSettled, UpdateStep
<1>6. RestOK'
  BY <1>2, <1>5, TypeParts DEF Inv, RestOK, serverVars
<1>7. page'[t] = IdlePage /\ page' = [page EXCEPT ![t] = page'[t]]
  BY <1>2, TypeParts DEF Inv
<1> QED BY <1>2, <1>5, <1>6, <1>7, IdleHandlers, PageMoves

LEMMA StartStep ==
  ASSUME Inv, NEW t \in Tab, Start(t)
  PROVE  Inv'
<1> USE DEF authVars
<1>1. /\ session[t] = "own"
      /\ Queue # {}
      /\ Begin(t)
      /\ UNCHANGED <<storeVars, page, authVars, online, serverVars, happened>>
  BY DEF Start
<1>2. Grows /\ Kept /\ RecordsInv'
  BY <1>1, RecordsStay
<1>3. RestOK'
  BY <1>1, TypeParts DEF Inv, RestOK, storeVars, serverVars
<1>4. \A e \in Queue : Matches(e)
  <2>1. ASSUME NEW o \in Item, record[o].status = "pending"
        PROVE  Matches(Entered(o))
    <3>1. record[o] # NoRecord
      BY <2>1 DEF NoRecord
    <3>2. record[o].answer \in Answer /\ record[o].key \in Key
      BY <3>1, RecordFields DEF Inv
    <3> QED BY <3>1, <3>2 DEF Matches, Entered, Entry
  <2> QED BY <2>1 DEF Queue
<1>5. sync'[t] = [at |-> "sent", todo |-> Queue, token |-> "own", again |-> FALSE, reply |-> "none"]
  BY <1>1, TypeParts DEF Inv, Begin
<1>6. sync' = [sync EXCEPT ![t] = sync'[t]]
  BY <1>1, <1>5 DEF Begin
<1>7. sync'[t] \in RunningSync
  <2>1. Queue \in SUBSET Entry
    BY <1>4 DEF Matches
  <2> QED BY <1>5, <2>1 DEF RunningSync, Account
<1>8. SyncInv(t)'
  <2>1. \A e \in Queue : Matches(e)'
    BY <1>1, <1>4 DEF Matches, storeVars
  <2> QED BY <1>5, <2>1 DEF SyncInv
<1> QED BY <1>1, <1>2, <1>3, <1>5, <1>6, <1>7, <1>8, SyncMoves

LEMMA SyncAnsweredStep ==
  ASSUME Inv, NEW t \in Tab, SyncAnswered(t)
  PROVE  Inv'
<1> USE DEF authVars
<1>1. PICK e : e = Current(t)
  OBVIOUS
<1>2. PICK reply \in Reply :
        /\ Outcome(e, reply, sync[t].again)
        /\ sync' = IF reply = "expired" /\ ~ sync[t].again
                   THEN [sync EXCEPT ![t].at = "refresh"]
                   ELSE [sync EXCEPT ![t].at = "got", ![t].reply = reply]
  BY <1>1 DEF SyncAnswered
<1>3. /\ sync[t].at = "sent"
      /\ UNCHANGED <<storeVars, page, authVars, online>>
  BY DEF SyncAnswered
<1>4. /\ Matches(e)
      /\ sync[t] \in RunningSync
      /\ sync[t].todo # {}
      /\ sync[t].token = "own"
      /\ \A f \in sync[t].todo : Matches(f)
  BY <1>1, <1>3, TypeParts, CurrentMatches DEF Inv, SyncInv
<1>5. Handled(e, reply)
  <2>1. CASE sync[t].again
    BY <1>2, <2>1 DEF Outcome, Handled, ServePartly
  <2>2. CASE ~ sync[t].again
    BY <1>2, <2>2 DEF Outcome, Handled, ServePartly
  <2> QED BY <2>1, <2>2
<1>6. /\ Grows /\ RecordsInv' /\ Settled(e, reply)'
      /\ recorded' \in [Item -> Answer \cup {NoAnswer}]
      /\ stored' \in [Key -> Answer \cup {NoAnswer}]
      /\ closed' = closed
      /\ happened' \in 0 .. MaxEvents
  BY <1>3, <1>4, <1>5, ServiceStep
<1>7. RestOK' /\ Kept
  BY <1>3, <1>6, TypeParts DEF Inv, RestOK, Kept, storeVars
<1>8. /\ \/ sync'[t] = [sync[t] EXCEPT !.at = "refresh"]
         \/ sync'[t] = [sync[t] EXCEPT !.at = "got", !.reply = reply]
      /\ sync' = [sync EXCEPT ![t] = sync'[t]]
  BY <1>2, TypeParts DEF Inv
<1>9. /\ sync'[t] \in RunningSync
      /\ sync'[t].todo = sync[t].todo
      /\ sync'[t].token = "own"
      /\ sync'[t].at = "got" => sync'[t].reply = reply
  BY <1>4, <1>8 DEF RunningSync
<1>10. SyncInv(t)'
  <2>1. Current(t)' = e
    BY <1>1, <1>9 DEF Current
  <2>2. \A f \in sync[t].todo : Matches(f)'
    BY <1>3, <1>4 DEF Matches, storeVars
  <2>3. Settled(Current(t), reply)'
    BY <1>6, <2>1
  <2> QED BY <1>9, <2>2, <2>3 DEF SyncInv
<1> QED BY <1>3, <1>4, <1>6, <1>7, <1>8, <1>9, <1>10, SyncMoves

\* A loop that ends, or goes on with what it had left to send.
LEMMA LoopGoesOn ==
  ASSUME Inv, NEW t \in Tab, sync[t].at # "idle", Continue(t) \/ Stop(t), Kept
  PROVE  /\ sync' = [sync EXCEPT ![t] = sync'[t]]
         /\ sync'[t] \in RunningSync \cup {IdleSync}
         /\ sync'[t].at # "idle" => sync'[t].todo # {}
         /\ SyncInv(t)'
<1>1. /\ sync[t] \in RunningSync
      /\ sync[t].token = "own"
      /\ \A e \in sync[t].todo : Matches(e)
  BY TypeParts DEF Inv, SyncInv
<1>2. ASSUME sync' = [sync EXCEPT ![t] = IdleSync]
      PROVE  sync'[t] = IdleSync /\ sync' = [sync EXCEPT ![t] = sync'[t]]
  BY <1>2, TypeParts DEF Inv
<1>3. PICK rest : rest = sync[t].todo \ {Current(t)}
  OBVIOUS
<1>4. ASSUME rest # {},
             sync' = [sync EXCEPT ![t] = [@ EXCEPT !.at = "sent", !.todo = rest,
                                                   !.again = FALSE, !.reply = "none"]]
      PROVE  /\ sync' = [sync EXCEPT ![t] = sync'[t]]
             /\ sync'[t] \in RunningSync
             /\ sync'[t].todo # {}
             /\ SyncInv(t)'
  <2>1. /\ sync'[t] = [sync[t] EXCEPT !.at = "sent", !.todo = rest, !.again = FALSE,
                                      !.reply = "none"]
        /\ sync' = [sync EXCEPT ![t] = sync'[t]]
    BY <1>4, TypeParts DEF Inv
  <2>2. /\ sync'[t] \in RunningSync
        /\ sync'[t].at = "sent"
        /\ sync'[t].todo = rest
        /\ sync'[t].token = "own"
    <3>1. rest \in SUBSET Entry
      BY <1>1, <1>3 DEF RunningSync
    <3> QED BY <1>1, <2>1, <3>1 DEF RunningSync, Account
  <2>3. \A e \in rest : Matches(e)'
    BY <1>1, <1>3 DEF Matches, Kept, Entry
  <2> QED BY <1>4, <2>1, <2>2, <2>3 DEF SyncInv
<1>5. CASE rest = {} \/ Stop(t)
  <2>1. sync' = [sync EXCEPT ![t] = IdleSync]
    BY <1>3, <1>4, <1>5 DEF Continue, Stop
  <2> QED BY <1>2, <2>1, IdleHandlers DEF IdleSync
<1>6. CASE rest # {} /\ Continue(t)
  BY <1>3, <1>4, <1>6 DEF Continue
<1> QED BY <1>5, <1>6

LEMMA SyncSettlesStep ==
  ASSUME Inv, NEW t \in Tab, SyncSettles(t)
  PROVE  Inv'
<1> USE DEF authVars
<1>1. PICK e, reply : e = Current(t) /\ reply = sync[t].reply
  OBVIOUS
<1>2. /\ sync[t].at = "got"
      /\ Continue(t) \/ Stop(t)
      /\ UNCHANGED <<nextKey, page, authVars, online, serverVars, happened>>
  BY DEF SyncSettles
<1>3. Matches(e) /\ Settled(e, reply)
  BY <1>1, <1>2, CurrentMatches DEF Inv, SyncInv
<1>4. \/ UNCHANGED record
      \/ \E status \in Status :
           /\ Update(e.item, status)
           /\ status = "synced" => Settled(e, "ok")
           /\ status = "failed" => Settled(e, "conflict")
  <2>1. CASE reply = "ok" /\ Update(e.item, "synced")
    BY <1>3, <2>1 DEF Status
  <2>2. CASE Update(e.item, StatusAfter(reply))
    BY <1>3, <2>2, StatusIsSettled
  <2>3. CASE Update(e.item, "pending")
    BY <2>3 DEF Status
  <2> QED BY <1>1, <2>1, <2>2, <2>3 DEF SyncSettles
<1>5. Grows /\ Kept /\ RecordsInv' /\ record' \in RecordType
  BY <1>2, <1>3, <1>4, UpdateStep, RecordsStay, TypeParts DEF storeVars, Inv, RestOK
<1>6. RestOK'
  BY <1>2, <1>5, TypeParts DEF Inv, RestOK, serverVars
<1> QED BY <1>2, <1>5, <1>6, LoopGoesOn, SyncMoves

LEMMA RefreshStep ==
  ASSUME Inv, NEW t \in Tab, Refresh(t)
  PROVE  Inv'
<1> USE DEF authVars
<1>1. PICK granted \in Account :
        /\ Event \/ UNCHANGED happened
        /\ sync' = [sync EXCEPT ![t].at = "adopt", ![t].reply = granted]
  BY DEF Refresh
<1>2. /\ sync[t].at = "refresh"
      /\ UNCHANGED <<storeVars, page, authVars, online, serverVars>>
  BY DEF Refresh
<1>3. Grows /\ Kept /\ RecordsInv'
  BY <1>2, RecordsStay
<1>4. RestOK'
  BY <1>1, <1>2, TypeParts DEF Inv, RestOK, Event, storeVars, serverVars
<1>5. /\ sync[t] \in RunningSync
      /\ sync[t].todo # {}
      /\ sync[t].token = "own"
      /\ \A e \in sync[t].todo : Matches(e)
  BY <1>2, TypeParts DEF Inv, SyncInv
<1>6. /\ sync'[t] = [sync[t] EXCEPT !.at = "adopt", !.reply = granted]
      /\ sync' = [sync EXCEPT ![t] = sync'[t]]
  BY <1>1, TypeParts DEF Inv
<1>7. /\ sync'[t] \in RunningSync
      /\ sync'[t].at = "adopt"
      /\ sync'[t].todo = sync[t].todo
      /\ sync'[t].token = "own"
  BY <1>5, <1>6 DEF RunningSync
<1>8. SyncInv(t)'
  BY <1>2, <1>5, <1>7 DEF SyncInv, Matches, storeVars
<1> QED BY <1>2, <1>3, <1>4, <1>5, <1>6, <1>7, <1>8, SyncMoves

LEMMA AdoptStep ==
  ASSUME Inv, NEW t \in Tab, Adopt(t)
  PROVE  Inv'
<1> USE DEF authVars
<1>1. /\ sync[t].at = "adopt"
      /\ UNCHANGED <<nextKey, page, cookie, online, serverVars, happened>>
  BY DEF Adopt
<1>2. session' \in [Tab -> Account]
  BY TypeParts DEF Adopt, Inv, RestOK, Account
<1>3. CASE /\ sync' = [sync EXCEPT ![t].at = "sent", ![t].again = TRUE, ![t].reply = "none"]
           /\ UNCHANGED record
  <2>1. Grows /\ Kept /\ RecordsInv'
    BY <1>1, <1>3, RecordsStay DEF storeVars
  <2>2. RestOK'
    BY <1>1, <1>2, <1>3, TypeParts DEF Inv, RestOK, serverVars
  <2>3. /\ sync[t] \in RunningSync
        /\ sync[t].todo # {}
        /\ sync[t].token = "own"
        /\ \A e \in sync[t].todo : Matches(e)
    BY <1>1, TypeParts DEF Inv, SyncInv
  <2>4. /\ sync'[t] = [sync[t] EXCEPT !.at = "sent", !.again = TRUE, !.reply = "none"]
        /\ sync' = [sync EXCEPT ![t] = sync'[t]]
    BY <1>3, TypeParts DEF Inv
  <2>5. /\ sync'[t] \in RunningSync
        /\ sync'[t].at = "sent"
        /\ sync'[t].todo = sync[t].todo
        /\ sync'[t].token = "own"
    BY <2>3, <2>4 DEF RunningSync, Account
  <2>6. SyncInv(t)'
    BY <1>3, <2>3, <2>5 DEF SyncInv, Matches
  <2> QED BY <1>1, <2>1, <2>2, <2>3, <2>4, <2>5, <2>6, SyncMoves
<1>4. CASE Stop(t) /\ UNCHANGED record
  <2>1. Grows /\ Kept /\ RecordsInv'
    BY <1>1, <1>4, RecordsStay DEF storeVars
  <2>2. RestOK'
    BY <1>1, <1>2, <1>4, TypeParts DEF Inv, RestOK, serverVars
  <2> QED BY <1>1, <1>4, <2>1, <2>2, LoopGoesOn, SyncMoves
<1>5. CASE Stop(t) /\ Update(Current(t).item, "pending")
  <2>1. PICK e : e = Current(t)
    OBVIOUS
  <2>2. Matches(e)
    BY <1>1, <2>1, CurrentMatches
  <2>3. Grows /\ Kept /\ RecordsInv' /\ record' \in RecordType
    BY <1>1, <1>5, <2>1, <2>2, UpdateStep DEF Status
  <2>4. RestOK'
    BY <1>1, <1>2, <2>3, TypeParts DEF Inv, RestOK, serverVars
  <2> QED BY <1>1, <1>5, <2>3, <2>4, LoopGoesOn, SyncMoves
<1> QED BY <1>3, <1>4, <1>5 DEF Adopt

LEMMA ReloadStep ==
  ASSUME Inv, NEW t \in Tab, Reload(t)
  PROVE  Inv'
<1>1. /\ page' = [page EXCEPT ![t] = IdlePage]
      /\ sync' = [sync EXCEPT ![t] = IdleSync]
      /\ session' = [session EXCEPT ![t] = cookie]
      /\ Event
      /\ UNCHANGED <<storeVars, cookie, online, serverVars>>
  BY DEF Reload
<1>2. Grows /\ Kept /\ RecordsInv'
  BY <1>1, RecordsStay
<1>3. RestOK'
  BY <1>1, TypeParts DEF Inv, RestOK, Event, storeVars, serverVars
<1>4. /\ page' \in [Tab -> SendingPage \cup {IdlePage}]
      /\ sync' \in [Tab -> RunningSync \cup {IdleSync}]
      /\ page'[t] = IdlePage
      /\ sync'[t] = IdleSync
      /\ \A u \in Tab : u # t => page'[u] = page[u] /\ sync'[u] = sync[u]
  BY <1>1, TypeParts DEF Inv
<1>5. \A u \in Tab : sync'[u].at # "idle" => sync'[u].todo # {}
  BY <1>4, TypeParts DEF Inv, IdleSync
<1>6. TypeOK'
  BY <1>3, <1>4, <1>5 DEF TypeOK, RestOK, RecordType, SendingPage, RunningSync
<1>7. \A u \in Tab : PageInv(u)' /\ SyncInv(u)'
  BY <1>2, <1>4, IdleHandlers, TabStays
<1> QED BY <1>2, <1>6, <1>7 DEF Inv

\* A record that is removed is in nobody's hands.
LEMMA PruneStep ==
  ASSUME Inv, NEW o \in Item, Prune(o)
  PROVE  Inv'
<1> USE DEF authVars, serverVars
<1>1. /\ record[o].status = "synced"
      /\ \A e \in InHand : e.key # record[o].key
      /\ record' = [record EXCEPT ![o] = NoRecord]
      /\ UNCHANGED <<nextKey, page, sync, authVars, online, serverVars, happened>>
  BY DEF Prune
<1>2. TypeOK /\ KeysInv /\ StoredInv /\ SyncedMeansRecorded /\ FailedMeansRefused
  BY DEF Inv, RecordsInv
<1>3. /\ record'[o] = NoRecord
      /\ \A p \in Item : p # o => record'[p] = record[p]
  BY <1>1, <1>2 DEF TypeOK
<1>4. RestOK'
  BY <1>1, TypeParts DEF Inv, RestOK, RecordType
<1>5. TypeOK'
  BY <1>1, <1>2, <1>4 DEF TypeOK, RestOK, RecordType
<1>6. KeysInv'
  <2>1. \A p \in Item : record[p].key \in Nat
    BY <1>2, RecordFields DEF Key
  <2>2. NoRecord.key = 0 /\ nextKey \in Nat /\ nextKey > 0
    BY <1>2 DEF NoRecord, TypeOK
  <2>3. \A p \in Item : record[p] # NoRecord => record[p].key # 0
    BY <1>2, RecordFields DEF Key
  <2>4. \A p \in Item : record'[p].key < nextKey'
    BY <1>1, <1>2, <1>3, <2>2 DEF KeysInv
  <2>5. ASSUME NEW p \in Item, NEW r \in Item, record'[p] # NoRecord,
               record'[p].key = record'[r].key
        PROVE  p = r
    <3>1. p # o /\ record[p] # NoRecord
      BY <1>3, <2>5
    <3>2. r # o
      BY <1>3, <2>2, <2>3, <2>5, <3>1
    <3> QED BY <1>2, <1>3, <2>5, <3>1, <3>2 DEF KeysInv
  <2> QED BY <2>4, <2>5 DEF KeysInv
<1>7. StoredInv' /\ SyncedMeansRecorded' /\ FailedMeansRefused'
  BY <1>1, <1>2, <1>3 DEF StoredInv, SyncedMeansRecorded, FailedMeansRefused, Takes,
                          Entered, NoRecord
<1>8. ASSUME NEW e \in InHand, Matches(e)
      PROVE  Matches(e)'
  BY <1>1, <1>3, <1>8 DEF Matches, Entry
<1>9. ASSUME NEW t \in Tab
      PROVE  PageInv(t)' /\ SyncInv(t)'
  <2>1. PageInv(t) /\ SyncInv(t) /\ page[t].entry \in InHand /\ sync[t].todo \subseteq InHand
    BY DEF Inv, InHand
  <2>2. \A e, reply : Settled(e, reply)' <=> Settled(e, reply)
    BY <1>1 DEF Settled, Takes
  <2>3. PageInv(t)'
    BY <1>1, <1>8, <2>1, <2>2 DEF PageInv
  <2>4. Current(t)' = Current(t)
    BY <1>1 DEF Current
  <2>5. SyncInv(t)'
    BY <1>1, <1>8, <2>1, <2>2, <2>4 DEF SyncInv
  <2> QED BY <2>3, <2>5
<1> QED BY <1>5, <1>6, <1>7, <1>9 DEF Inv, RecordsInv

LEMMA OtherDeviceStep ==
  ASSUME Inv, NEW o \in Item, OtherDevice(o)
  PROVE  Inv'
<1> USE DEF authVars, storeVars
<1>1. /\ Event
      /\ UNCHANGED <<storeVars, page, sync, authVars, online, stored>>
      /\ \/ /\ recorded[o] = NoAnswer
            /\ \E x \in Answer : recorded' = [recorded EXCEPT ![o] = x]
            /\ UNCHANGED closed
         \/ closed' = closed \cup {o} /\ UNCHANGED recorded
  BY DEF OtherDevice
<1>2. TypeOK /\ KeysInv /\ StoredInv /\ SyncedMeansRecorded /\ FailedMeansRefused
  BY DEF Inv, RecordsInv
<1>3. Grows /\ Kept
  BY <1>1, <1>2 DEF Grows, Kept, TypeOK
<1>4. RestOK'
  BY <1>1, TypeParts DEF Inv, RestOK, Event
<1>5. KeysInv' /\ StoredInv' /\ SyncedMeansRecorded'
  BY <1>1, <1>2, <1>3, RecordFields DEF KeysInv, StoredInv, SyncedMeansRecorded, Grows, Status
<1>6. FailedMeansRefused'
  BY <1>1, <1>2, <1>3 DEF FailedMeansRefused, Takes, Entered, Grows, TypeOK
<1> QED BY <1>1, <1>3, <1>4, <1>5, <1>6, OthersMove DEF RecordsInv

\* Sessions and the network touch no record.
LEMMA SurroundingsStep ==
  ASSUME Inv,
         \/ \E t \in Tab : \/ PageRefreshes(t)
                           \/ Logout(t)
                           \/ \E a \in {"own", "other"} : Login(t, a)
         \/ GoOffline
         \/ GoOnline
         \/ UNCHANGED vars
  PROVE  Inv'
<1> USE DEF authVars
<1>1. /\ UNCHANGED <<storeVars, page, sync, serverVars>>
      /\ Event \/ UNCHANGED happened
  BY DEF PageRefreshes, Logout, Login, GoOffline, GoOnline, vars, storeVars, serverVars
<1>2. session' \in [Tab -> Account]
  BY TypeParts DEF Inv, RestOK, PageRefreshes, Logout, Login, GoOffline, GoOnline, vars, Account
<1>3. cookie' \in Account
  BY TypeParts DEF Inv, RestOK, PageRefreshes, Logout, Login, GoOffline, GoOnline, vars, Account
<1>4. online' \in BOOLEAN
  BY TypeParts DEF Inv, RestOK, PageRefreshes, Logout, Login, GoOffline, GoOnline, vars
<1>5. RestOK'
  BY <1>1, <1>2, <1>3, <1>4, TypeParts DEF Inv, RestOK, Event, storeVars, serverVars
<1> QED BY <1>1, <1>5, RecordsStay, OthersMove

-----------------------------------------------------------------------------
(* The theorems.                                                            *)

\* The device starts with no record and nothing to send.
LEMMA InvInit == Init => Inv
<1> SUFFICES ASSUME Init PROVE Inv
  OBVIOUS
<1>1. TypeOK
  BY DEF Init, TypeOK, Account, IdleSync
<1>2. KeysInv /\ StoredInv
  BY DEF Init, KeysInv, StoredInv, NoRecord
<1>3. SyncedMeansRecorded /\ FailedMeansRefused
  BY DEF Init, SyncedMeansRecorded, FailedMeansRefused, NoRecord
<1>4. \A t \in Tab : PageInv(t) /\ SyncInv(t)
  BY DEF Init, PageInv, SyncInv, IdlePage, IdleSync
<1> QED BY <1>1, <1>2, <1>3, <1>4 DEF Inv, RecordsInv

\* Every step keeps the invariant.
LEMMA InvStep == Inv /\ [Next]_vars => Inv'
<1> SUFFICES ASSUME Inv, [Next]_vars PROVE Inv'
  OBVIOUS
<1>1. ASSUME NEW t \in Tab, NEW o \in Item, NEW x \in Answer, GiveAnswer(t, o, x)
      PROVE  Inv'
  BY <1>1, GiveAnswerStep
<1>2. ASSUME NEW t \in Tab,
             \/ PageAnswered(t) \/ PageSettles(t) \/ Start(t) \/ SyncAnswered(t)
             \/ SyncSettles(t) \/ Refresh(t) \/ Adopt(t) \/ Reload(t)
      PROVE  Inv'
  BY <1>2, PageAnsweredStep, PageSettlesStep, StartStep, SyncAnsweredStep,
     SyncSettlesStep, RefreshStep, AdoptStep, ReloadStep
<1>3. ASSUME NEW o \in Item, OtherDevice(o) \/ Prune(o)
      PROVE  Inv'
  BY <1>3, OtherDeviceStep, PruneStep
<1> QED BY <1>1, <1>2, <1>3, SurroundingsStep DEF Next

\* The inductive invariant: every entry in the hands of a tab is the present
\* record of its item, keys are never shared, and a stored response answers the
\* record of its key.
THEOREM OutboxInvariant == Spec => []Inv
  BY InvInit, InvStep, PTL DEF Spec

\* Records, handlers and sessions have their types, and a loop that runs has
\* something to send (syncPendingReviews leaves an empty list at once).
THEOREM TypeCorrect == Spec => []TypeOK
<1>1. Inv => TypeOK
  BY DEF Inv
<1> QED BY <1>1, OutboxInvariant, PTL

\* What a tab shows as synchronised is what the server recorded.
THEOREM SyncedIsRecorded == Spec => []SyncedMeansRecorded
<1>1. Inv => SyncedMeansRecorded
  BY DEF Inv, RecordsInv
<1> QED BY <1>1, OutboxInvariant, PTL

\* What a tab gives up, the server would refuse again.
THEOREM FailedIsRefused == Spec => []FailedMeansRefused
<1>1. Inv => FailedMeansRefused
  BY DEF Inv, RecordsInv
<1> QED BY <1>1, OutboxInvariant, PTL

\* The requests of all tabs that carry one idempotency key carry one answer, the
\* one the server may have stored under it.
THEOREM OneAnswerPerKey == Spec => []KeysNameOneAnswer
<1>1. Inv => KeysNameOneAnswer
  <2> SUFFICES ASSUME Inv PROVE KeysNameOneAnswer
    OBVIOUS
  <2>1. \A e \in InHand : Matches(e) \/ e = NoEntry
    <3>1. \A t \in Tab : page[t].entry = NoEntry \/ Matches(page[t].entry)
      BY DEF Inv, TypeOK, PageInv, IdlePage
    <3>2. \A t \in Tab : \A e \in sync[t].todo : Matches(e)
      BY DEF Inv, SyncInv
    <3> QED BY <3>1, <3>2 DEF InHand
  <2>2. ASSUME NEW e \in InHand, NEW f \in InHand, e.key = f.key
        PROVE  e = f
    <3>1. CASE Matches(e) /\ Matches(f)
      <4>1. e.item = f.item
        BY <2>2, <3>1 DEF Matches, Entry, Inv, RecordsInv, KeysInv
      <4> QED BY <2>2, <3>1, <4>1 DEF Matches, Entry
    <3>2. ASSUME NEW g, Matches(g)
          PROVE  g.key # NoEntry.key
      BY <3>2 DEF Matches, Entry, Key, NoEntry
    <3> QED BY <2>1, <2>2, <3>1, <3>2
  <2>3. ASSUME NEW e \in InHand, e.key \in Key
        PROVE  stored[e.key] \in {NoAnswer, e.answer}
    <3>1. Matches(e)
      BY <2>1, <2>3 DEF NoEntry, Key
    <3> QED BY <3>1 DEF Matches, Entry, Inv, RecordsInv, StoredInv
  <2> QED BY <2>2, <2>3 DEF KeysNameOneAnswer
<1> QED BY <1>1, OutboxInvariant, PTL

\* No record is sent with the token of another account.
THEOREM NoForeignToken == Spec => []QueueStaysWithItsAccount
<1>1. Inv => QueueStaysWithItsAccount
  BY DEF Inv, SyncInv, QueueStaysWithItsAccount
<1> QED BY <1>1, OutboxInvariant, PTL
=============================================================================
