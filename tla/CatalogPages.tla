---------------------------- MODULE CatalogPages ----------------------------
(***************************************************************************)
(* The dictionary and the phrases pages (components/lexigo-dictionary-app,   *)
(* dictionary-catalog, word-detail-route, lexigo-phrases-app): a list under   *)
(* filters and the card of one of its entries, both places of the history of *)
(* the browser, which the pages write themselves (lib/navigation-history).   *)
(***************************************************************************)
EXTENDS Naturals, Sequences

CONSTANTS
  Word,       \* entries of the list that have a card
  Nothing,    \* no card, no state, nothing shown
  Elsewhere,  \* any place that is not of this page
  MaxEvents,  \* bound on what the learner does and on failures: see Event
  MaxEntries  \* bound on the entries of the history

VARIABLES
  route,    \* which of the two pages this is
  guest,    \* no session
  entries,  \* the history of the browser: its URL and the state kept with it
  at,       \* the current entry
  shown,    \* the place the page shows (navigation, navigationRef)
  snapshot, \* a scroll waits to be written to the entry (scrollSnapshots)
  view,     \* the list and the card as they are shown
  load,     \* what the effect of each has under way
  late,     \* what the retry buttons have under way: nothing aborts it
  crossed,  \* the page moved on while a retry of the resource was under way
  practice, \* the place from which a practice was asked for
  happened  \* number of events so far

vars == <<route, guest, entries, at, shown, snapshot, view, load, late, crossed, practice, happened>>

Filter == {"all", "status"}
Resource == {"list", "card"}
Place == [filter : Filter, word : Word \cup {Nothing}]

\* dictionaryFilters: a guest has no statuses to filter by.
Effective(f) == IF guest /\ route = "dictionary" THEN "all" ELSE f

\* What the page at place p shows of each resource.
Wanted(w, p) ==
  IF p = Elsewhere THEN Nothing
  ELSE IF w = "card" THEN p.word
  ELSE IF p.word = Nothing THEN Effective(p.filter) ELSE Nothing

\* routePath: the filters of a list are not part of the path.
SamePath(p, q) == IF Elsewhere \in {p, q} THEN p = q ELSE p.word = q.word

\* navigationTargetFromHistory.
Target(e) == IF e.state # Nothing /\ SamePath(e.state, e.url) THEN e.state ELSE e.url

Idle == [at |-> "idle", of |-> Nothing]

\* What a page shows at first.
Fresh == [w \in Resource |-> [is |-> IF route = "phrases" THEN "loading" ELSE "idle", of |-> Nothing]]

Init ==
  /\ route \in {"dictionary", "phrases"}
  /\ guest \in BOOLEAN
  /\ \E f \in Filter :
       /\ shown = [filter |-> f, word |-> Nothing]
       /\ load = [w \in Resource |-> IF w = "list" THEN [at |-> "due", of |-> Effective(f)] ELSE Idle]
  /\ entries = <<[url |-> shown, state |-> shown]>>
  /\ at = 1
  /\ snapshot = FALSE
  /\ view = Fresh
  /\ late = [w \in Resource |-> {}]
  /\ crossed = [w \in Resource |-> FALSE]
  /\ practice = Nothing
  /\ happened = 0

Event == happened < MaxEvents /\ happened' = happened + 1

-----------------------------------------------------------------------------
(* The history                                                               *)

\* createNavigationHistoryState: place p is written to entry i.
Written(es, i, p) == [es EXCEPT ![i].state = p]

\* The effect that listens to the scroll ends as the page goes to place p: a
\* snapshot that waits is written to the entry that is then current.
Flushed(es, i, p) == IF snapshot THEN Written(es, i, p) ELSE es

\* A new entry, in the place of those ahead.
Pushed(es, p, s) == Append(SubSeq(es, 1, at), [url |-> p, state |-> s])

\* Not the code: the effect of the card depends on the filters alone.
MovesByFilter(p) ==
  /\ shown' = p
  /\ snapshot' = FALSE
  /\ load' = [w \in Resource |->
                IF Wanted(w, p) = Nothing THEN Idle
                ELSE IF w = "card" /\ p.filter = shown.filter THEN load[w]
                ELSE [at |-> "due", of |-> Wanted(w, p)]]
  /\ UNCHANGED <<view, late, crossed>>

\* The page shows place p: the effect of the list runs again, that of the card
\* when it is another card; what they had under way is aborted.
Moves(p) ==
  /\ shown' = p
  /\ snapshot' = FALSE
  /\ load' = [w \in Resource |->
                IF Wanted(w, p) = Nothing THEN Idle
                ELSE IF w = "card" /\ p.word = shown.word THEN load[w]
                ELSE [at |-> "due", of |-> Wanted(w, p)]]
  /\ view' = IF p.word # shown.word /\ route = "dictionary"
             THEN [view EXCEPT !["card"] = Fresh["card"]] ELSE view
  /\ crossed' = [w \in Resource |-> crossed[w] \/ late[w] # {}]
  /\ UNCHANGED late

\* navigate to a place of the page: the current entry keeps the place shown.
GoTo(p, replace) ==
  LET es == Written(entries, at, shown)
  IN
  /\ shown # Elsewhere
  /\ entries' = IF replace THEN [es EXCEPT ![at] = [url |-> p, state |-> p]] ELSE Pushed(es, p, p)
  /\ at' = IF replace THEN at ELSE at + 1
  /\ Moves(p)
  /\ UNCHANGED <<route, guest, practice>>

\* The page is left: its effects end and with them what they show.
Unmounts ==
  /\ shown' = Elsewhere
  /\ snapshot' = FALSE
  /\ load' = [w \in Resource |-> Idle]
  /\ view' = Fresh
  /\ late' = [w \in Resource |-> {}]
  /\ crossed' = [w \in Resource |-> FALSE]

\* updateFilters, resetFilters, submitSearch, changePage.
SetFilter(f) ==
  /\ shown # Elsewhere /\ shown.word = Nothing /\ shown.filter # f
  /\ at < MaxEntries /\ Event
  /\ GoTo([shown EXCEPT !.filter = f], FALSE)

\* openDetail of an entry that is listed.
OpenCard(n) ==
  /\ shown # Elsewhere /\ shown.word = Nothing
  /\ view["list"].is = "ready" /\ view["list"].of # Nothing
  /\ at < MaxEntries /\ Event
  /\ GoTo([filter |-> Effective(shown.filter), word |-> n], FALSE)

\* onBackToResults: the card was not opened from the list.
BackToResults ==
  /\ shown # Elsewhere /\ shown.word # Nothing /\ Event
  /\ GoTo([shown EXCEPT !.word = Nothing], TRUE)

\* A status in the URL of a guest is taken out of it.
CleanStatus ==
  /\ shown # Elsewhere /\ guest /\ route = "dictionary" /\ shown.filter # Effective(shown.filter)
  /\ GoTo([shown EXCEPT !.filter = Effective(@)], TRUE)
  /\ UNCHANGED happened

\* The browser goes back or forward: syncNavigation when the page is there, a
\* new page otherwise, which reads the URL (initializeRouteEntry mends the state).
Traverse(i) ==
  /\ i \in {at - 1, at + 1} \cap DOMAIN entries /\ Event
  /\ at' = i
  /\ IF entries[i].url = Elsewhere
     THEN /\ entries' = Flushed(entries, i, Elsewhere)
          /\ Unmounts
     ELSE IF shown = Elsewhere
     THEN LET p == entries[i].url
          IN  /\ entries' = Written(entries, i, p)
              /\ shown' = p
              /\ load' = [w \in Resource |-> IF Wanted(w, p) = Nothing THEN Idle
                                             ELSE [at |-> "due", of |-> Wanted(w, p)]]
              /\ UNCHANGED <<snapshot, view, late, crossed>>
     ELSE LET p == Target(entries[i])
          IN  /\ entries' = Flushed(entries, i, p)
              /\ Moves(p)
  /\ UNCHANGED <<route, guest, practice>>

\* Another page is opened (navigate, requireAuthentication): the framework
\* pushes its entry, and the snapshot that waits is written to it.
Leave ==
  /\ shown # Elsewhere /\ at < MaxEntries /\ Event
  /\ entries' = Flushed(Pushed(Written(entries, at, shown), Elsewhere, Elsewhere), at + 1, shown)
  /\ at' = at + 1
  /\ Unmounts
  /\ UNCHANGED <<route, guest, practice>>

\* The learner scrolls, and rests.
Scroll ==
  /\ shown # Elsewhere /\ ~ snapshot /\ Event
  /\ snapshot' = TRUE
  /\ UNCHANGED <<route, guest, entries, at, shown, view, load, late, crossed, practice>>

SnapshotTimer ==
  /\ snapshot
  /\ snapshot' = FALSE
  /\ entries' = Written(entries, at, shown)
  /\ UNCHANGED <<route, guest, at, shown, view, load, late, crossed, practice, happened>>

-----------------------------------------------------------------------------
(* The list and the card                                                     *)

shownVars == <<route, guest, entries, at, shown, snapshot, crossed, practice>>

\* The effect begins; phrases drop the card they showed.
Ask(w) ==
  /\ load[w].at = "due"
  /\ load' = [load EXCEPT ![w].at = "sent"]
  /\ view' = [view EXCEPT ![w].is = "loading",
                          ![w].of = IF w = "card" THEN Nothing ELSE @]
  /\ UNCHANGED <<shownVars, late, happened>>

\* What an answer for o leaves on screen.
Show(w, o, ok) ==
  [view EXCEPT ![w] = [is |-> IF ok THEN "ready" ELSE "error", of |-> IF ok THEN o ELSE Nothing]]

\* The request of the effect ends; the demo list of phrases is always there.
Answer(w) ==
  /\ load[w].at = "sent"
  /\ \/ view' = Show(w, load[w].of, TRUE) /\ UNCHANGED happened
     \/ ~ (guest /\ route = "phrases" /\ w = "list") /\ Event /\ view' = Show(w, load[w].of, FALSE)
  /\ load' = [load EXCEPT ![w] = Idle]
  /\ UNCHANGED <<shownVars, late>>

\* The button of what failed.  The card of the dictionary runs its effect again;
\* the others send a request that no effect owns (retryPage, loadCatalog and
\* loadDetail without a signal).
Retry(w) ==
  /\ view[w].is = "error" /\ Wanted(w, shown) # Nothing
  /\ IF route = "dictionary" /\ w = "card"
     THEN /\ load' = [load EXCEPT ![w] = [at |-> "due", of |-> Wanted(w, shown)]]
          /\ UNCHANGED <<view, late>>
     ELSE /\ late' = [late EXCEPT ![w] = @ \cup {Wanted(w, shown)}]
          /\ view' = [view EXCEPT ![w] = [is |-> "loading", of |-> Nothing]]
          /\ UNCHANGED load
  /\ UNCHANGED <<shownVars, happened>>

LateAnswer(w) ==
  /\ \E o \in late[w] :
       /\ late' = [late EXCEPT ![w] = @ \ {o}]
       /\ \/ view' = Show(w, o, TRUE) /\ UNCHANGED happened
          \/ Event /\ view' = Show(w, o, FALSE)
  /\ UNCHANGED <<shownVars, load>>

\* The session is refreshed, by another part of the page too: the functions that
\* load are made anew and the effects run again.
SessionRefreshed ==
  /\ ~ guest /\ shown # Elsewhere /\ Event
  /\ load' = [w \in Resource |-> IF Wanted(w, shown) = Nothing THEN Idle
                                 ELSE [at |-> "due", of |-> Wanted(w, shown)]]
  /\ UNCHANGED <<shownVars, view, late>>

-----------------------------------------------------------------------------
(* The practice of one word                                                  *)

\* startPractice with the card of the word on screen.
StartPractice ==
  /\ route = "dictionary" /\ ~ guest /\ practice = Nothing
  /\ shown # Elsewhere /\ shown.word # Nothing /\ view["card"].of = shown.word
  /\ Event
  /\ practice' = shown
  /\ UNCHANGED <<route, guest, entries, at, shown, snapshot, view, load, late, crossed>>

\* The lesson was not created.
PracticeFails ==
  /\ practice # Nothing /\ Event
  /\ practice' = Nothing
  /\ UNCHANGED <<route, guest, entries, at, shown, snapshot, view, load, late, crossed>>

\* It was: the page goes to it, even a page that has been left or opened anew;
\* that one still knows the place it last showed.
PracticeReturns ==
  /\ practice # Nothing /\ at < MaxEntries
  /\ LET from == IF shown = Elsewhere THEN practice ELSE shown
     IN  entries' = Flushed(Pushed(Written(entries, at, from), Elsewhere, Elsewhere), at + 1, from)
  /\ at' = at + 1
  /\ practice' = Nothing
  /\ Unmounts
  /\ UNCHANGED <<route, guest, happened>>

-----------------------------------------------------------------------------

Next ==
  \/ \E f \in Filter : SetFilter(f)
  \/ \E n \in Word : OpenCard(n)
  \/ \E i \in 1 .. MaxEntries : Traverse(i)
  \/ BackToResults \/ CleanStatus \/ Leave \/ Scroll \/ SnapshotTimer
  \/ \E w \in Resource : Ask(w) \/ Answer(w) \/ Retry(w) \/ LateAnswer(w)
  \/ SessionRefreshed
  \/ StartPractice \/ PracticeFails \/ PracticeReturns

Spec == Init /\ [][Next]_vars

\* What runs by itself: effects, and requests, which all end (fetchWithTimeout).
Handler == \E w \in Resource : Ask(w) \/ Answer(w) \/ LateAnswer(w)

Fairness == WF_vars(Handler)

FairSpec == Spec /\ Fairness

-----------------------------------------------------------------------------
(* Properties                                                                *)

\* The page shows the place of the URL, through its own writes to the history and
\* those of the browser; and what it shows once it rests is of that place: entries
\* of other filters or the card of another word never stay, unless a retry was
\* overtaken.
ResultsAreOfPlace ==
  /\ shown = entries[at].url
  /\ \A w \in Resource :
       Wanted(w, shown) # Nothing /\ load[w].at = "idle" /\ view[w].is = "ready" /\ ~ crossed[w]
         => view[w].of = Wanted(w, shown)

=============================================================================
