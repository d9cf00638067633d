----------------------- MODULE AppearancePreference -----------------------
(***************************************************************************)
(* The theme of the documents of a browser (src/frontend/lib/                *)
(* appearance-preference.ts, the appearance setting of src/frontend/          *)
(* components/lexigo-profile-app.tsx): a preference that is stored, a system   *)
(* that is dark or light, and documents that follow both from the script of    *)
(* their head on, each by its own events.                                    *)
(***************************************************************************)
EXTENDS Naturals

CONSTANTS
  None, Tab,
  MaxChanges   \* bound: changes of the preference and of the system

VARIABLES
  stored,    \* what localStorage keeps
  storage,   \* "works", "full" (it can only be read) or "blocked"
  dark,      \* the system prefers dark
  document,  \* what each document has applied, and the setting it shows
  told,      \* the documents an event of the storage is under way to
  changes

vars == <<stored, storage, dark, document, told, changes>>

Preference == {"auto", "light", "dark"}
Resolved(preference, system) ==
  IF preference # "auto" THEN preference ELSE IF system THEN "dark" ELSE "light"

Closed == [at |-> "closed", applied |-> "auto", theme |-> "light", shown |-> None]

TypeOK ==
  /\ stored \in Preference \cup {None} /\ storage \in {"works", "full", "blocked"} /\ dark \in BOOLEAN
  /\ document \in [Tab -> [at : {"closed", "script", "live"}, applied : Preference,
                           theme : {"light", "dark"}, shown : Preference \cup {None}]]
  /\ told \subseteq Tab /\ changes \in 0..MaxChanges

Init ==
  /\ stored \in {None, "light", "dark"} /\ storage \in {"works", "full", "blocked"} /\ dark \in BOOLEAN
  /\ document = [t \in Tab |-> Closed] /\ told = {} /\ changes = 0

-----------------------------------------------------------------------------

Changes == changes < MaxChanges /\ changes' = changes + 1

\* readAppearancePreference, when kept is what is stored.
Read(kept) == IF storage = "blocked" \/ kept = None THEN "auto" ELSE kept

\* applyAppearancePreference in d.
Applied(d, preference, system) ==
  [d EXCEPT !.applied = preference, !.theme = Resolved(preference, system)]

\* applyStoredPreference, which the setting follows where the profile is shown.
Followed(d, kept, system) ==
  [Applied(d, Read(kept), system) EXCEPT !.shown = IF @ = None THEN None ELSE Read(kept)]

\* The script in the head of the page.
Open(t) ==
  /\ document[t].at = "closed"
  /\ document' = [document EXCEPT ![t] = Applied([Closed EXCEPT !.at = "script"], Read(stored), dark)]
  /\ UNCHANGED <<stored, storage, dark, told, changes>>

\* The application has come to life, and looks again before it listens.
Subscribe(t) ==
  /\ document[t].at = "script"
  /\ document' = [document EXCEPT ![t] = [Followed(@, stored, dark) EXCEPT !.at = "live"]]
  /\ UNCHANGED <<stored, storage, dark, told, changes>>

Close(t) ==
  /\ document[t].at # "closed"
  /\ document' = [document EXCEPT ![t] = Closed]
  /\ told' = told \ {t}
  /\ Changes
  /\ UNCHANGED <<stored, storage, dark>>

ShowProfile(t) ==
  /\ document[t].at = "live"
  /\ document[t].shown = None
  /\ document' = [document EXCEPT ![t] = [Followed(@, stored, dark) EXCEPT !.shown = Read(stored)]]
  /\ UNCHANGED <<stored, storage, dark, told, changes>>

LeaveProfile(t) ==
  /\ document[t].shown # None
  /\ document' = [document EXCEPT ![t].shown = None]
  /\ UNCHANGED <<stored, storage, dark, told, changes>>

\* updateAppearance: the preference is stored and applied, the event of the
\* document applies what is stored, and the setting shows the choice.
SetAppearancePreference(t, preference) ==
  LET kept == IF storage = "works" THEN preference ELSE stored
  IN  /\ document[t].shown # None
      /\ Changes
      /\ stored' = kept
      /\ document' = [document EXCEPT ![t] = [Followed(Applied(@, preference, dark), kept, dark)
                                                EXCEPT !.shown = preference]]
      /\ told' = IF kept # stored THEN told \cup {u \in Tab \ {t} : document[u].at # "closed"} ELSE told
      /\ UNCHANGED <<storage, dark>>

\* A document that is not alive yet misses the event.
Told(t) ==
  /\ t \in told
  /\ told' = told \ {t}
  /\ document' = IF document[t].at = "live"
                 THEN [document EXCEPT ![t] = Followed(@, stored, dark)] ELSE document
  /\ UNCHANGED <<stored, storage, dark, changes>>

\* handleSystemAppearance, in every document that listens; with a preference of
\* the learner's own there is nothing to follow.
SystemAppearance ==
  /\ Changes
  /\ dark' = ~dark
  /\ document' = [t \in Tab |->
       IF document[t].at = "live" /\ Read(stored) = "auto" THEN Followed(document[t], stored, ~dark)
       ELSE document[t]]
  /\ UNCHANGED <<stored, storage, told>>

Next ==
  \/ \E t \in Tab :
       \/ Open(t) \/ Subscribe(t) \/ Close(t) \/ ShowProfile(t) \/ LeaveProfile(t) \/ Told(t)
       \/ \E preference \in Preference : SetAppearancePreference(t, preference)
  \/ SystemAppearance

-----------------------------------------------------------------------------

\* Every document that is alive has the theme of the preference that is stored,
\* or of the system where that is left to it, as soon as it has been told,
\* whatever changed before it listened; and where the storage works the setting
\* shows the preference that is applied (subscribeAppearanceRuntime).
ThemeIsCurrent ==
  \A t \in Tab : document[t].at = "live" /\ t \notin told =>
    /\ document[t].theme = Resolved(Read(stored), dark)
    /\ storage = "works" /\ document[t].shown # None => document[t].shown = Read(stored)

=============================================================================
