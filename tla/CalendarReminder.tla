------------------------- MODULE CalendarReminder -------------------------
(***************************************************************************)
(* The reminder that is put into the learner's calendar (src/frontend/lib/   *)
(* calendar-reminder.ts, calendar-reminder-storage.ts,                       *)
(* apple-calendar-delivery.ts, src/frontend/components/                      *)
(* calendar-reminder-integration.tsx). Every place of a document that shows   *)
(* the reminder has its own copy of the settings; they are edited there,      *)
(* stored in the browser when an event is made of them, and the other copies  *)
(* are told: those of the document at once, those of other documents by an    *)
(* event of the storage that comes later.                                    *)
(*                                                                         *)
(* A week is seven days of TicksPerDay moments, and the clock is that of the  *)
(* learner's time zone; a day that is an hour longer or shorter is left out.  *)
(***************************************************************************)
EXTENDS Integers, FiniteSetsExt

CONSTANTS
  None,
  Tab, Place,     \* documents, and the places of a document that hold a copy
  TicksPerDay,    \* moments of a day that are told apart
  Toggled, Now,   \* bounds: the days the learner toggles, and the moments events are made
  MaxEdits        \* bound: what the learner does

VARIABLES
  stored,     \* what localStorage keeps, None at first
  blocked,    \* the browser refuses to store
  copies,     \* the settings each place shows, None before it has read them
  edited,     \* the copies edited since they were read, told or stored
  told,       \* the documents an event of the storage is under way to
  sharing,    \* the Apple file that is being delivered from each place
  delivered,  \* the last event that was made
  edits

vars == <<stored, blocked, copies, edited, told, sharing, delivered, edits>>

Day == 0..6                      \* 0 is Sunday
Workdays == 1..5
Tick == 0..(TicksPerDay - 1)

Settings == [time : Tick, recurrence : {"daily", "weekdays", "custom"}, weekdays : SUBSET Day]
Default == [time |-> 0, recurrence |-> "daily", weekdays |-> Day]
Copy == Tab \X Place

TypeOK ==
  /\ stored \in Settings \cup {None} /\ blocked \in BOOLEAN
  /\ copies \in [Copy -> Settings \cup {None}] /\ edited \subseteq Copy /\ told \subseteq Tab
  /\ sharing \subseteq Copy
  /\ delivered \in [settings : Settings, now : Now, start : Nat] \cup {None}
  /\ edits \in 0..MaxEdits

-----------------------------------------------------------------------------

\* normalizeCalendarReminderSettings, as far as well-formed settings go.
Normalized(s) ==
  [s EXCEPT !.weekdays = IF s.recurrence = "custom" /\ s.weekdays = {} THEN Workdays ELSE @]

EffectiveWeekdays(s) ==
  CASE s.recurrence = "daily" -> Day
    [] s.recurrence = "weekdays" -> Workdays
    [] OTHER -> IF s.weekdays = {} THEN Workdays ELSE s.weekdays

DayOf(moment) == (moment \div TicksPerDay) % 7

\* Not the code: a moment that is now is still to come.
NextOrNow(s, now) ==
  LET candidate(offset) == ((now \div TicksPerDay) + offset) * TicksPerDay + s.time
      allowed == {offset \in 0..14 : /\ candidate(offset) >= now
                                     /\ DayOf(candidate(offset)) \in EffectiveWeekdays(s)}
  IN  IF allowed = {} THEN candidate(1) ELSE candidate(Min(allowed))

\* The loop of nextCalendarOccurrence: the first of fifteen days from that of now.
NextOccurrence(s, now) ==
  LET candidate(offset) == ((now \div TicksPerDay) + offset) * TicksPerDay + s.time
      allowed == {offset \in 0..14 : /\ candidate(offset) > now
                                     /\ DayOf(candidate(offset)) \in EffectiveWeekdays(s)}
  IN  IF allowed = {} THEN candidate(1) ELSE candidate(Min(allowed))

ReadSettings == IF stored = None \/ blocked THEN Default ELSE Normalized(stored)

Init ==
  /\ stored \in {None, [Default EXCEPT !.weekdays = {}]}
  /\ blocked \in BOOLEAN
  /\ copies = [c \in Copy |-> None] /\ edited = {} /\ told = {} /\ sharing = {}
  /\ delivered = None /\ edits = 0

-----------------------------------------------------------------------------

Edits == edits < MaxEdits /\ edits' = edits + 1

\* The timer of the effect that mounts the place.
Mounted(c) ==
  /\ copies[c] = None
  /\ copies' = [copies EXCEPT ![c] = ReadSettings]
  /\ UNCHANGED <<stored, blocked, edited, told, sharing, delivered, edits>>

Unmount(c) ==
  /\ copies[c] # None
  /\ Edits
  /\ copies' = [copies EXCEPT ![c] = None]
  /\ edited' = edited \ {c}
  /\ sharing' = sharing \ {c}
  /\ UNCHANGED <<stored, blocked, told, delivered>>

Update(c, s) ==
  /\ copies[c] # None
  /\ Edits
  /\ copies' = [copies EXCEPT ![c] = Normalized(s)]
  /\ edited' = edited \cup {c}
  /\ UNCHANGED <<stored, blocked, told, sharing, delivered>>

SetTime(c, tick) == copies[c] # None /\ Update(c, [copies[c] EXCEPT !.time = tick])

SetRecurrence(c, recurrence) == copies[c] # None /\ Update(c, [copies[c] EXCEPT !.recurrence = recurrence])

\* The last day that is left cannot be taken out.
ToggleWeekday(c, day) ==
  /\ copies[c] # None
  /\ copies[c].recurrence = "custom"
  /\ copies[c].weekdays # {day}
  /\ Update(c, [copies[c] EXCEPT !.weekdays = (@ \ {day}) \cup ({day} \ @)])

\* Not the code: the other copies of the document are not told.
PersistsAlone(c) ==
  /\ stored' = IF blocked THEN stored ELSE copies[c]
  /\ told' = IF blocked THEN told ELSE told \cup (Tab \ {c[1]})
  /\ edited' = edited \ {c}
  /\ UNCHANGED copies

\* persistCalendarReminderSettings, whose event the other copies of the document
\* take as it comes; the storage tells the other documents.
Persists(c) ==
  /\ stored' = IF blocked THEN stored ELSE copies[c]
  /\ told' = IF blocked THEN told ELSE told \cup (Tab \ {c[1]})
  /\ copies' = [d \in Copy |-> IF d[1] = c[1] /\ copies[d] # None THEN copies[c] ELSE copies[d]]
  /\ edited' = {d \in edited : d[1] # c[1]}

Delivers(c, now) ==
  delivered' = [settings |-> copies[c], now |-> now, start |-> NextOccurrence(copies[c], now)]

AddToGoogle(c, now) ==
  /\ copies[c] # None
  /\ Edits
  /\ Persists(c)
  /\ Delivers(c, now)
  /\ UNCHANGED <<blocked, sharing>>

\* addToAppleCalendar, up to the dialog of the system; a place delivers one file
\* at a time.
AddToApple(c, now) ==
  /\ copies[c] # None
  /\ c \notin sharing
  /\ Edits
  /\ Persists(c)
  /\ Delivers(c, now)
  /\ sharing' = sharing \cup {c}
  /\ UNCHANGED blocked

\* The file was taken, refused, or offered as a download or a page instead.
Shared(c) ==
  /\ c \in sharing
  /\ sharing' = sharing \ {c}
  /\ UNCHANGED <<stored, blocked, copies, edited, told, delivered, edits>>

\* The event of the storage comes, and the copies read what is stored by now.
Told(t) ==
  /\ t \in told
  /\ told' = told \ {t}
  /\ copies' = [d \in Copy |-> IF d[1] = t /\ copies[d] # None THEN ReadSettings ELSE copies[d]]
  /\ edited' = {d \in edited : d[1] # t}
  /\ UNCHANGED <<stored, blocked, sharing, delivered, edits>>

Next ==
  \/ \E c \in Copy :
       \/ Mounted(c) \/ Unmount(c) \/ Shared(c)
       \/ \E tick \in Tick : SetTime(c, tick)
       \/ \E recurrence \in {"daily", "weekdays", "custom"} : SetRecurrence(c, recurrence)
       \/ \E day \in Toggled : ToggleWeekday(c, day)
       \/ \E now \in Now : AddToGoogle(c, now) \/ AddToApple(c, now)
  \/ \E t \in Tab : Told(t)

-----------------------------------------------------------------------------

\* What is put into the calendar begins at the first moment to come that the rule
\* of the event names, whatever edits of whatever copies led to the settings: not
\* now, not on a day the rule leaves out, and not a week late
\* (nextCalendarOccurrence and buildCalendarRecurrenceRule).
ReminderIsNext ==
  delivered # None =>
    LET s == delivered.settings
        named == {m \in (delivered.now + 1)..(delivered.now + 8 * TicksPerDay) :
                    m % TicksPerDay = s.time /\ DayOf(m) \in EffectiveWeekdays(s)}
    IN  delivered.start = Min(named)

\* Every place shows what is stored, but for what the learner has changed there
\* since and what is still to be told; the next event is made of what is shown
\* (the events of calendar-reminder-storage.ts).
CopiesAgree ==
  ~blocked => \A c \in Copy :
    copies[c] # None /\ c \notin edited /\ c[1] \notin told => copies[c] = ReadSettings

=============================================================================
