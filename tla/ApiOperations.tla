----------------------------- MODULE ApiOperations -----------------------------
(***************************************************************************)
(* The operations behind the API's routes, side by side.  They share no    *)
(* state in the code (each route has an object of its own, api/index.ts),  *)
(* so a behaviour is one operation's; which one, its first state tells.    *)
(***************************************************************************)
EXTENDS Naturals, Sequences, FiniteSets

CONSTANTS
  Kinds, Ids, MaxCalls, MaxEdits,                                       \* FixedProofs
  Senders,                                                              \* MailSends
  Meetings, MaxEvents, MaxRead, MaxAge, MaxClock, MaxRestarts,          \* CalendarMeeting
  Scopes, Callers, MaxAsks,                                             \* DelegatedTokens
  MaxVisits, MaxMeddles,                                                \* OneDriveShare
  MaxLag, MaxLate,                                                      \* PrivateDocument
  MaxEditors                                                            \* TrustedVersion

VARIABLES
  part,  \* the operation of this behaviour
  kind, store, etag, flight, retained, step, seen, seenTag, reply, answer, calls, edits,
  made, shown, unsure, trouble, due,
  mailKind, sendState, sender, told, posted, unknown,
  stage, act, at, eventId, meeting, wire, heard, run, log, collected, clock, restarts, sent, landed,
  asks, got, acquisition, signIn, signInScope, handled, account, asked,
  doc, access, phase, original, current, pending, outcome, touched, sound, visits, meddles,
  things, lag, afloat, point, mode, tries, absences, failure, written, calledFor, verdict, late,
  library, versions, fileTag, drifting, cursor, held, tried, cleaning, primary, expired, ended,
  drifted, editors

Proofs == INSTANCE FixedProofs
Mail == INSTANCE MailSends
Calendar == INSTANCE CalendarMeeting
Tokens == INSTANCE DelegatedTokens
Share == INSTANCE OneDriveShare
Document == INSTANCE PrivateDocument
Trusted == INSTANCE TrustedVersion

ASSUME OperationsAssumption ==
  /\ Kinds \subseteq Proofs!AllKinds /\ IsFiniteSet(Ids) /\ IsFiniteSet(Callers)
  /\ MaxEvents \in Nat \ {0}
  /\ {MaxCalls, MaxEdits, MaxRead, MaxAge, MaxClock, MaxRestarts, MaxAsks, MaxLag} \subseteq Nat
  \* What Graph or a caller may name is none of the words the modules use beside it.
  /\ Ids \cap {"none", "unclear", "refused"} = {}
  /\ Meetings \cap {"none", "done", "inexact", "refused", "failed", "thrown"} = {}
  /\ Scopes \cap {"none", "failed"} = {}

Parts == {"proofs", "mail", "calendar", "tokens", "share", "document", "trusted"}

proofVars == <<kind, store, etag, flight, retained, step, seen, seenTag, reply, answer, calls,
               edits, made, shown, unsure, trouble, due>>
mailVars == <<mailKind, sendState, sender, told, posted, unknown>>
calendarVars == <<stage, act, at, eventId, meeting, wire, heard, run, log, collected, clock,
                  restarts, sent, landed>>
tokenVars == <<asks, got, acquisition, signIn, signInScope, handled, account, asked>>
shareVars == <<doc, access, phase, original, current, pending, outcome, touched, sound, visits,
               meddles>>
documentVars == <<things, lag, afloat, point, mode, tries, absences, failure, written, calledFor,
                  verdict, late>>
trustedVars == <<library, versions, fileTag, drifting, cursor, held, tried, cleaning, primary,
                 expired, ended, drifted, editors>>
apiVars == <<part, proofVars, mailVars, calendarVars, tokenVars, shareVars, documentVars,
             trustedVars>>

\* An operation that is not this behaviour's has one first state, and stays in it.
Init ==
  /\ part \in Parts
  /\ Proofs!Init /\ (part # "proofs" => kind = "contact")
  /\ Mail!Init /\ (part # "mail" => mailKind = "simulated-email")
  /\ Calendar!Init /\ Tokens!Init /\ Share!Init /\ Document!Init
  /\ Trusted!Init /\ (part # "trusted" => ~library.there)

Only(p) ==
  /\ part = p /\ UNCHANGED part
  /\ IF p = "proofs" THEN TRUE ELSE UNCHANGED proofVars
  /\ IF p = "mail" THEN TRUE ELSE UNCHANGED mailVars
  /\ IF p = "calendar" THEN TRUE ELSE UNCHANGED calendarVars
  /\ IF p = "tokens" THEN TRUE ELSE UNCHANGED tokenVars
  /\ IF p = "share" THEN TRUE ELSE UNCHANGED shareVars
  /\ IF p = "document" THEN TRUE ELSE UNCHANGED documentVars
  /\ IF p = "trusted" THEN TRUE ELSE UNCHANGED trustedVars

Next ==
  \/ Only("proofs") /\ Proofs!Next
  \/ Only("mail") /\ Mail!Next
  \/ Only("calendar") /\ Calendar!Next
  \/ Only("tokens") /\ Tokens!Next
  \/ Only("share") /\ Share!Next
  \/ Only("document") /\ Document!Next
  \/ Only("trusted") /\ Trusted!Next

\* Fairness is the sign-in page's alone, which has a deadline; elsewhere it is not enabled.
Fairness == WF_tokenVars(Tokens!SignInPage)

Spec == Init /\ [][Next]_apiVars /\ Fairness

-----------------------------------------------------------------------------
(* Properties: those of the operations, joined where they make one promise. *)

\* The variables of every operation have their types.
TypeOK ==
  /\ part \in Parts
  /\ Proofs!TypeOK /\ Mail!TypeOK /\ Calendar!TypeOK /\ Tokens!TypeOK
  /\ Share!TypeOK /\ Document!TypeOK /\ Trusted!TypeOK

\* Nothing is made twice unless an answer was lost in between (the lookup of
\* each proof before its create).
OneObject == Proofs!OneObject

\* Whatever earlier calls left half done, a call that has no reason to fail does
\* what it is asked: the retained ids of the proofs, the half-shared file.
CallsHeal == Proofs!HealthyCallsSucceed /\ Share!CleanupHeals

\* What may be deleted.  By a fixed proof: an object it made or was shown exact before,
\* of a file exactly the version shown (the other kinds go by id, edited since or not).
\* By the share proof: never a file that somebody edited.  By the trusted version: its
\* file only as it wrote it, its folder only while empty.  The eTags and looks before
\* each deletion.
DeletesOnlyItsOwn ==
  /\ Proofs!RemovesWhatItRead /\ Share!DeletesOnlyExactFile /\ Trusted!DeletesOnlyItsOwn

\* The help desk's state and the calendar's stage tell what was sent and what
\* became of it, so that neither sends again after an outcome it does not know.
KnowsWhatWasSent == Mail!ReadyMeansKnown /\ Calendar!StageKnowsWhatWasSent

\* The telemetry of a meeting says "succeeded" of what took effect, "refused" of
\* what never does, and an operator reads the latest part of it.
TelemetryTruthful == Calendar!TelemetryTruthful

\* Whoever shares an acquisition or a sign-in gets a token for its own scope.
TokenForOwnScope == Tokens!TokenForOwnScope

\* Every question for a token is answered, as long as the identity service and Graph
\* answer the provider, which sets its requests no timeout.
CallersAnswered == Tokens!CallersAnswered

\* A run of the document or the trusted-version lifecycle that claims to have
\* cleaned up has left nothing behind.
CleanupLeavesNothing == Document!CleanedMeansGone /\ Trusted!EndsClean

=============================================================================
