-------------------------- MODULE FeedbackCenter --------------------------
(***************************************************************************)
(* The notices of the application (src/frontend/components/                  *)
(* feedback-center.tsx, src/frontend/lib/feedback.ts): banners that stand    *)
(* until they are cleared, toasts that are shown one at a time for as long   *)
(* as they take to read, and the dialogs that take the layer into themselves.*)
(*                                                                         *)
(* A toast is not counted down while the pointer or the focus is on it; the  *)
(* center remembers that as the id of the paused toast, the page as where    *)
(* the pointer and the focus are (held). The two are kept by different       *)
(* events, and the timer may fire between an event and the render it asks    *)
(* for. The layer moves into the dialog that opens, and no event tells of the *)
(* pointer that rested on the card it had before: such a toast stays until it *)
(* is entered again.                                                         *)
(***************************************************************************)
EXTENDS SequencesExt, KeptEntries

CONSTANTS
  None,
  Key,        \* what a notice is about; a later one replaces an earlier banner
  Dialog,     \* dialogs with a host of the layer
  MaxItems    \* bound: notices published

VARIABLES
  banners, toast, queue,   \* the state of the reducer
  paused,                  \* the id of the toast that is not counted down
  held,                    \* how the toast was entered, as far as no event has ended it
  hosts,                   \* the hosts that are mounted, in their order
  sequence                 \* the last id given

vars == <<banners, toast, queue, paused, held, hosts, sequence>>

Item == [id : 1..MaxItems, key : Key \cup {None}]
Category == {"blocking-error", "error", "success", "info"}
Presentation(category) == IF category = "blocking-error" THEN "banner" ELSE "toast"

Waiting == [toast |-> toast, queue |-> queue]
NoToast == [toast |-> None, queue |-> <<>>]

TypeOK ==
  /\ banners \in Seq(Item) /\ toast \in Item \cup {None} /\ queue \in Seq(Item)
  /\ paused \in (1..MaxItems) \cup {None}
  /\ held \subseteq {"pointer", "focus"}
  /\ hosts \in Seq(Dialog)
  /\ sequence \in 0..MaxItems

Init ==
  /\ banners = <<>> /\ toast = None /\ queue = <<>>
  /\ paused = None /\ held = {} /\ hosts = <<>> /\ sequence = 0

-----------------------------------------------------------------------------

Advance(next) == IF next = <<>> THEN NoToast ELSE [toast |-> Head(next), queue |-> Tail(next)]

WithBanner(item) ==
  IF item.key # None /\ \E i \in DOMAIN banners : banners[i].key = item.key
  THEN LET first == CHOOSE i \in DOMAIN banners :
                      /\ banners[i].key = item.key
                      /\ \A j \in 1..(i - 1) : banners[j].key # item.key
       IN  [banners EXCEPT ![first] = item]
  ELSE Append(banners, item)

WithToast(item) ==
  IF toast = None THEN [toast |-> item, queue |-> queue] ELSE [toast |-> toast, queue |-> Append(queue, item)]

\* The toasts once the one named id is dismissed.
Without(id) ==
  IF toast # None /\ toast.id = id
  THEN Advance(queue)
  ELSE [toast |-> toast, queue |-> Kept(queue, {i \in DOMAIN queue : queue[i].id # id})]

\* Not the code: the toast that is cleared leaves the others waiting.
ClearedOnly(key) ==
  LET kept == Kept(queue, {i \in DOMAIN queue : queue[i].key # key})
  IN  [toast |-> IF toast # None /\ toast.key = key THEN None ELSE toast, queue |-> kept]

\* The toasts once those about key are cleared.
Cleared(key) ==
  LET kept == Kept(queue, {i \in DOMAIN queue : queue[i].key # key})
  IN  IF toast # None /\ toast.key = key THEN Advance(kept) ELSE [toast |-> toast, queue |-> kept]

\* The card of a toast goes with the toast, and so does what rests on it.
Becomes(next) ==
  /\ toast' = next.toast /\ queue' = next.queue
  /\ held' = IF next.toast = toast THEN held ELSE {}

TimerRuns == toast # None /\ paused # toast.id

-----------------------------------------------------------------------------

Publish(category, key) ==
  LET item == [id |-> sequence + 1, key |-> key]
  IN  /\ sequence < MaxItems
      /\ sequence' = sequence + 1
      /\ \/ /\ Presentation(category) = "banner"
            /\ banners' = WithBanner(item)
            /\ UNCHANGED <<toast, queue, held>>
         \/ /\ Presentation(category) = "toast"
            /\ Becomes(WithToast(item))
            /\ UNCHANGED banners
      /\ UNCHANGED <<paused, hosts>>

\* The learner closes a toast, or the part that published a notice takes it back.
Dismiss(id) ==
  /\ paused' = IF paused = id THEN None ELSE paused
  /\ \/ /\ \E i \in DOMAIN banners : banners[i].id = id
        /\ banners' = Kept(banners, {i \in DOMAIN banners : banners[i].id # id})
        /\ UNCHANGED <<toast, queue, held>>
     \/ /\ \A i \in DOMAIN banners : banners[i].id # id
        /\ Becomes(Without(id))
        /\ UNCHANGED banners
  /\ UNCHANGED <<hosts, sequence>>

ClearKey(key) ==
  /\ paused' = None
  /\ banners' = Kept(banners, {i \in DOMAIN banners : banners[i].key # key})
  /\ Becomes(Cleared(key))
  /\ UNCHANGED <<hosts, sequence>>

\* The time of the toast is over.
Expire ==
  /\ TimerRuns
  /\ Becomes(Without(toast.id))
  /\ UNCHANGED <<banners, paused, hosts, sequence>>

\* The pointer or the focus comes to the toast that is shown, or the timer fires
\* before the center has been rendered with it.
Enter(way) ==
  /\ toast # None
  /\ paused' = toast.id
  /\ \/ held' = held \cup {way} /\ UNCHANGED <<toast, queue>>
     \/ TimerRuns /\ Becomes(Without(toast.id))
  /\ UNCHANGED <<banners, hosts, sequence>>

\* The focus that only moves within the card does not come here.
Leave(way) ==
  /\ way \in held
  /\ held' = held \ {way}
  /\ paused' = None
  /\ UNCHANGED <<banners, toast, queue, hosts, sequence>>

\* The last host that was mounted has the layer, the page itself when there is none.
Mount(d) ==
  /\ ~Contains(hosts, d)
  /\ hosts' = Append(hosts, d)
  /\ UNCHANGED <<banners, toast, queue, paused, held, sequence>>

Unmount(d) ==
  /\ Contains(hosts, d)
  /\ hosts' = Kept(hosts, {i \in DOMAIN hosts : hosts[i] # d})
  /\ UNCHANGED <<banners, toast, queue, paused, held, sequence>>

Next ==
  \/ \E category \in Category, key \in Key \cup {None} : Publish(category, key)
  \/ \E id \in 1..sequence : Dismiss(id)
  \/ \E key \in Key : ClearKey(key)
  \/ Expire
  \/ \E way \in {"pointer", "focus"} : Enter(way) \/ Leave(way)
  \/ \E d \in Dialog : Mount(d) \/ Unmount(d)

-----------------------------------------------------------------------------

\* A notice never waits for nothing: the toasts are shown in the order they were
\* published, the next one as soon as the one before it has gone by any of the
\* three ways, and the one that is shown is counted down unless the pointer or
\* the focus has come to it (feedbackReducer and the timer of FeedbackCenter).
ToastsTakeTurns ==
  /\ toast = None => queue = <<>>
  /\ \A i \in DOMAIN queue : queue[i].id > (IF i = 1 THEN toast.id ELSE queue[i - 1].id)
  /\ toast # None /\ held = {} => TimerRuns

=============================================================================
