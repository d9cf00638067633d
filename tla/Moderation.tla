----------------------------- MODULE Moderation -----------------------------
(***************************************************************************)
(* Answers that learners propose for one word and what the moderators make of *)
(* them (backend/internal/learning/answer_suggestion.go and                  *)
(* backend/internal/moderation: repository.go, retention.go). A decision is a *)
(* transaction that locks the suggestion, then the word, and writes both; a   *)
(* submission, a batch of the retention and the deletion of an account are   *)
(* one step each. A spelling is a form, which is what NormalizeSubmittedAnswer *)
(* leaves of it, in a style.                                                 *)
(***************************************************************************)
EXTENDS Naturals, SequencesExt, KeptEntries

CONSTANTS
  Learner, Moderator,
  Form,             \* answers that are right for nobody at first
  Style,
  MaxSuggestions    \* bound: the rows of answer_suggestions

VARIABLES
  accepted,      \* words.accepted_answers, without the answers of the catalog
  rejected,      \* review_events that the server judged wrong: <<learner, form>>
  suggestions,   \* answer_suggestions; "gone" is a row that has been deleted
  audit,         \* answer_suggestion_audit
  moderator,     \* what each moderator has asked for, and its transaction
  promised       \* history: the forms a moderator has accepted

vars == <<accepted, rejected, suggestions, audit, moderator, promised>>

Spelling == [form : Form, style : Style]
Decision == {"accepted", "rejected"}
Id == 1..MaxSuggestions

Suggestion == [user : Learner, spelling : Spelling, status : Decision \cup {"pending", "gone"},
               version : 1..2]
Request == [at : {"idle", "sent", "suggestion", "word"}, id : Id, version : 1..2, form : Form,
            decision : Decision, answers : Seq(Spelling)]

TypeOK ==
  /\ accepted \in Seq(Spelling) /\ rejected \subseteq Learner \X Form
  /\ suggestions \in Seq(Suggestion) /\ Len(suggestions) <= MaxSuggestions
  /\ audit \in Seq([id : Id, previous : Seq(Spelling), resulting : Seq(Spelling)])
  /\ DOMAIN moderator \subseteq Moderator /\ Range(moderator) \subseteq Request
  /\ promised \subseteq Form

Init ==
  /\ accepted = <<>> /\ rejected = {} /\ suggestions = <<>> /\ audit = <<>>
  /\ moderator = <<>> /\ promised = {}

Forms(answers) == {answers[i].form : i \in DOMAIN answers}

Asks(m) == m \in DOMAIN moderator
At(m, state) == Asks(m) /\ moderator[m].at = state
Row(id) == suggestions[id]
Dismissed(m) == [n \in DOMAIN moderator \ {m} |-> moderator[n]]

\* The rows a transaction holds until it ends.
Locked(id) == \E m \in DOMAIN moderator : moderator[m].id = id /\ moderator[m].at \in {"suggestion", "word"}

\* Not the code: "for update of suggestion".
NobodyWaits(m) == TRUE
WordIsFree(m) == \A n \in DOMAIN moderator \ {m} : moderator[n].at # "word"

-----------------------------------------------------------------------------
(* Learners                                                                  *)

\* A review whose answer JudgeSubmittedAnswer does not find.
Rejected(u, f) ==
  /\ f \notin Forms(accepted)
  /\ rejected' = rejected \cup {<<u, f>>}
  /\ UNCHANGED <<accepted, suggestions, audit, moderator, promised>>

PendingOf(u, f) ==
  {id \in DOMAIN suggestions :
     Row(id).status = "pending" /\ Row(id).user = u /\ Row(id).spelling.form = f}

\* SubmitAnswerSuggestion: the partial unique index keeps one pending row for a
\* learner and a form, which is written over; it waits for the lock of that row.
SubmitAnswerSuggestion(u, s) ==
  /\ <<u, s.form>> \in rejected
  /\ \A id \in PendingOf(u, s.form) : ~ Locked(id)
  /\ IF PendingOf(u, s.form) # {}
     THEN suggestions' = [id \in DOMAIN suggestions |->
                            IF id \in PendingOf(u, s.form) THEN [Row(id) EXCEPT !.spelling = s] ELSE Row(id)]
     ELSE /\ Len(suggestions) < MaxSuggestions
          /\ suggestions' = Append(suggestions, [user |-> u, spelling |-> s, status |-> "pending", version |-> 1])
  /\ UNCHANGED <<accepted, rejected, audit, moderator, promised>>

\* The rows that are deleted, and the audit that goes with them (on delete cascade).
Without(ids) ==
  /\ suggestions' = [id \in DOMAIN suggestions |->
                       IF id \in ids THEN [Row(id) EXCEPT !.status = "gone"] ELSE Row(id)]
  /\ audit' = Kept(audit, {i \in DOMAIN audit : audit[i].id \notin ids})

\* The deletion of a learner's account; it waits for the locks of the rows.
DeleteLearner(u) ==
  LET own == {id \in DOMAIN suggestions : Row(id).user = u}
  IN  /\ \A id \in own : ~ Locked(id)
      /\ Without(own)
      /\ rejected' = {r \in rejected : r[1] # u}
      /\ UNCHANGED <<accepted, moderator, promised>>

-----------------------------------------------------------------------------
(* Moderators                                                                *)

\* A row of List and what the moderator makes of it.
Ask(m, id, decision) ==
  /\ ~ Asks(m) /\ id \in DOMAIN suggestions /\ Row(id).status = "pending"
  /\ moderator' = [n \in DOMAIN moderator \cup {m} |->
                     IF n = m THEN [at |-> "sent", id |-> id, version |-> Row(id).version,
                                    form |-> Row(id).spelling.form, decision |-> decision, answers |-> <<>>]
                     ELSE moderator[n]]
  /\ UNCHANGED <<accepted, rejected, suggestions, audit, promised>>

\* Decide, the select: 404 when the row is gone, else the lock of the suggestion.
LockSuggestion(m) ==
  /\ At(m, "sent") /\ ~ Locked(moderator[m].id)
  /\ moderator' = IF Row(moderator[m].id).status = "gone" THEN Dismissed(m)
                  ELSE [moderator EXCEPT ![m].at = "suggestion"]
  /\ UNCHANGED <<accepted, rejected, suggestions, audit, promised>>

\* Decide, the select goes on to the word, and its columns are read under the lock;
\* 409 for another status or version.
LockWord(m) ==
  /\ At(m, "suggestion") /\ WordIsFree(m)
  /\ moderator' = IF Row(moderator[m].id).status # "pending" \/ Row(moderator[m].id).version # moderator[m].version
                  THEN Dismissed(m)
                  ELSE [moderator EXCEPT ![m].at = "word", ![m].answers = accepted]
  /\ UNCHANGED <<accepted, rejected, suggestions, audit, promised>>

\* Decide, to its end: an answer that JudgeSubmittedAnswer knows by now is not added
\* again. When the response is lost, the moderator asks again.
Decide(m, lost) ==
  LET asked == moderator[m]
      answers == IF asked.decision = "accepted" /\ Row(asked.id).spelling.form \notin Forms(asked.answers)
                 THEN Append(asked.answers, Row(asked.id).spelling) ELSE asked.answers
  IN  /\ At(m, "word")
      /\ accepted' = IF answers = asked.answers THEN accepted ELSE answers
      /\ suggestions' = [suggestions EXCEPT ![asked.id].status = asked.decision,
                                            ![asked.id].version = @ + 1]
      /\ audit' = Append(audit, [id |-> asked.id, previous |-> asked.answers, resulting |-> answers])
      /\ moderator' = IF lost THEN [moderator EXCEPT ![m].at = "sent", ![m].answers = <<>>] ELSE Dismissed(m)
      /\ promised' = promised \cup (IF asked.decision = "accepted" THEN {asked.form} ELSE {})
      /\ UNCHANGED rejected

\* The connection or the process dies before the commit; the moderator asks again.
RollBack(m) ==
  /\ At(m, "suggestion") \/ At(m, "word")
  /\ moderator' = [moderator EXCEPT ![m].at = "sent", ![m].answers = <<>>]
  /\ UNCHANGED <<accepted, rejected, suggestions, audit, promised>>

-----------------------------------------------------------------------------
(* Retention                                                                 *)

\* CleanupExpired, a batch: rows that a decision holds are skipped. Any row may have
\* expired: 90 days after its creation, which a later submission does not renew, or
\* a year after the decision.
CleanupExpired ==
  \E expired \in (SUBSET {id \in DOMAIN suggestions : Row(id).status # "gone" /\ ~ Locked(id)}) \ {{}} :
    /\ Without(expired)
    /\ UNCHANGED <<accepted, rejected, moderator, promised>>

Next ==
  \/ \E u \in Learner, f \in Form : Rejected(u, f)
  \/ \E u \in Learner, s \in Spelling : SubmitAnswerSuggestion(u, s)
  \/ \E u \in Learner : DeleteLearner(u)
  \/ \E m \in Moderator, id \in Id, decision \in Decision : Ask(m, id, decision)
  \/ \E m \in Moderator : LockSuggestion(m) \/ LockWord(m) \/ RollBack(m)
  \/ \E m \in Moderator, lost \in BOOLEAN : Decide(m, lost)
  \/ CleanupExpired

Spec == Init /\ [][Next]_vars

-----------------------------------------------------------------------------

\* A suggestion is decided once, however often it is asked for, and leaves one
\* entry in the audit as long as it is kept. The entries of a word follow on each
\* other: no decision loses an answer that another has accepted meanwhile, no form
\* is listed twice, and what a moderator was told is accepted stays so, although a
\* later spelling may have taken the place of the one that was shown
\* (docs/answer-suggestion-moderation.md: "one normalized-unique value", "at most
\* one request using a given version can commit").
DecisionsStand ==
  /\ \A id \in DOMAIN suggestions :
       Cardinality({i \in DOMAIN audit : audit[i].id = id}) = (IF Row(id).status \in Decision THEN 1 ELSE 0)
  /\ \A i \in DOMAIN audit :
       /\ IsPrefix(audit[i].previous, audit[i].resulting)
       /\ IsPrefix(audit[i].resulting, IF i = Len(audit) THEN accepted ELSE audit[i + 1].previous)
  /\ Cardinality(Forms(accepted)) = Len(accepted)
  /\ promised \subseteq Forms(accepted)

=============================================================================
