------------------------------ MODULE SsoProof ------------------------------
(***************************************************************************)
(* scripts/retained-avd-sso-proof.mjs: a command opens the actor's desktop *)
(* session on a standing host, stages files in the guest, has them run     *)
(* there and takes everything away again.  Its one memory across a crash   *)
(* is the receipt of the session it owns.  All commands carry one run id.  *)
(*                                                                         *)
(* External: the guest agent runs one command at a time, so a staging      *)
(* whose answer was lost (late) lands before any later command runs, and   *)
(* such a command waits for it or is refused.  A session begins as a       *)
(* placeholder (id 0, "/-1" in the code), becomes Active under an id of    *)
(* its own, or is Active at once; ids are not used again.                  *)
(***************************************************************************)
EXTENDS Naturals, FiniteSets

CONSTANTS MaxProofs, MaxSessions  \* bounds: commands, sessions that become Active

VARIABLES
  vm,       \* power of the host: "off", "starting", "running"
  desk,     \* the sessions on it
  opened,   \* ids given so far
  guest,    \* this run's files there: "clean", "staged", "proved"
  late,     \* a staging is still to land
  receipt,  \* owned-session.json: at most one session
  owned,    \* ownedSession, of the running command
  aged,     \* the placeholder was observed more than 15 minutes ago
  leg,      \* where the command is
  tidying,  \* it is the mode cleanup
  staged, proof, guestError, doomed,  \* its locals
  ssoEnd,   \* how the last command ended
  proofs    \* commands so far

ssoVars == <<vm, desk, opened, guest, late, receipt, owned, aged, leg, tidying, staged, proof,
             guestError, doomed, ssoEnd, proofs>>
host == <<vm, desk, opened>>
files == <<guest, late>>
locals == <<staged, proof, guestError, doomed>>

Placeholder(s) == s.id = 0

Init ==
  /\ vm \in {"off", "running"} /\ desk = {} /\ opened = 0 /\ guest = "clean" /\ late = FALSE
  /\ receipt = {} /\ owned = {} /\ aged = FALSE
  /\ leg = "idle" /\ tidying = FALSE
  /\ staged = FALSE /\ proof = FALSE /\ guestError = FALSE /\ doomed = {}
  /\ ssoEnd = "none" /\ proofs = 0

-----------------------------------------------------------------------------
(* The host and whoever else uses it.                                      *)

\* A session appears: the one the command launched, or one of the actor's or of
\* somebody else's own making.
SessionOpens ==
  /\ vm = "running" /\ opened < MaxSessions
  /\ \E who \in {"actor", "other"} :
       \/ /\ \A s \in desk : ~Placeholder(s)
          /\ desk' = desk \cup {[id |-> 0, who |-> who]} /\ UNCHANGED opened
       \/ /\ desk' = desk \cup {[id |-> opened + 1, who |-> who]} /\ opened' = opened + 1
  /\ UNCHANGED <<vm, files, receipt, owned, aged, leg, tidying, locals, ssoEnd, proofs>>

SessionActive ==
  /\ opened < MaxSessions
  /\ \E s \in desk :
       /\ Placeholder(s)
       /\ desk' = (desk \ {s}) \cup {[s EXCEPT !.id = opened + 1]}
  /\ opened' = opened + 1
  /\ UNCHANGED <<vm, files, receipt, owned, aged, leg, tidying, locals, ssoEnd, proofs>>

SessionEnds ==
  /\ \E s \in desk : desk' = desk \ {s}
  /\ UNCHANGED <<vm, opened, files, receipt, owned, aged, leg, tidying, locals, ssoEnd, proofs>>

VmRuns ==
  /\ vm = "starting" /\ vm' = "running"
  /\ UNCHANGED <<desk, opened, files, receipt, owned, aged, leg, tidying, locals, ssoEnd, proofs>>

StagingLands ==
  /\ late /\ late' = FALSE /\ guest' = IF guest = "clean" THEN "staged" ELSE guest
  /\ UNCHANGED <<host, receipt, owned, aged, leg, tidying, locals, ssoEnd, proofs>>

FifteenMinutes ==
  /\ ~aged /\ \E s \in owned \cup receipt : Placeholder(s)
  /\ aged' = TRUE
  /\ UNCHANGED <<host, files, receipt, owned, leg, tidying, locals, ssoEnd, proofs>>

-----------------------------------------------------------------------------
(* The command.                                                            *)

\* The command is over; a process that dies here is over too.
Ends(how) == leg' = "idle" /\ ssoEnd' = how
To(l) == leg' = l /\ UNCHANGED ssoEnd

\* ensureReady: no session of anybody, and the host on or to be put on.
RunStarts ==
  /\ leg = "idle" /\ proofs < MaxProofs /\ proofs' = proofs + 1
  /\ tidying' = FALSE /\ owned' = {} /\ staged' = FALSE /\ proof' = FALSE /\ guestError' = FALSE
  /\ doomed' = {}
  /\ \/ desk = {} /\ vm' = (IF vm = "off" THEN "starting" ELSE vm) /\ To("readying")
     \/ vm' \in (IF vm = "off" /\ desk = {} THEN {"off", "starting"} ELSE {vm}) /\ Ends("failed")
  /\ UNCHANGED <<desk, opened, files, receipt, aged>>

BecomesReady ==
  /\ leg = "readying"
  /\ \/ vm = "running" /\ desk = {} /\ To("connecting")
     \/ Ends("failed")
  /\ UNCHANGED <<host, files, receipt, owned, aged, tidying, locals, proofs>>

Transition(s) == ~Placeholder(s) /\ \E o \in owned : Placeholder(o)
\* One look of connect: the only session there, if it is the actor's, is taken
\* for the command's own and recorded; another one later ends the command.
Observe ==
  /\ leg = "connecting"
  /\ \/ \E s \in desk :
          /\ desk = {s} /\ s.who = "actor"
          /\ IF owned \notin {{}, {s}} /\ ~Transition(s)
               THEN To("tidyGuest") /\ UNCHANGED <<owned, receipt, aged>>
               ELSE /\ IF owned = {} \/ Transition(s)
                         THEN owned' = {s} /\ receipt' = {s} /\ aged' = FALSE
                         ELSE UNCHANGED <<owned, receipt, aged>>
                    /\ \/ ~Placeholder(s) /\ To("inspecting")
                       \/ To("connecting")  \* Pending, or its canvas not drawn yet
     \/ To("tidyGuest") /\ UNCHANGED <<owned, receipt, aged>>  \* 240 looks, or one that throws
  /\ UNCHANGED <<host, files, tidying, locals, proofs>>

\* Evidence of an earlier command of this run id is never written over.
Inspect ==
  /\ leg = "inspecting"
  /\ \/ ~late /\ guest # "proved" /\ staged' = TRUE /\ To("staging")
     \/ To("tidyGuest") /\ UNCHANGED staged
  /\ UNCHANGED <<host, files, receipt, owned, aged, tidying, proof, guestError, doomed, proofs>>

Stage ==
  /\ leg = "staging"
  /\ \/ ~late /\ guest = "clean" /\ guest' = "staged" /\ To("proving") /\ UNCHANGED late
     \/ To("tidyGuest") /\ UNCHANGED files              \* refused, or it found a directory
     \/ guest = "clean" /\ late' = TRUE /\ To("tidyGuest") /\ UNCHANGED guest
  /\ UNCHANGED <<host, receipt, owned, aged, tidying, locals, proofs>>

\* The launcher is typed into the session; its receipt is read once or twice.
Prove ==
  /\ leg = "proving"
  /\ guest' \in {guest, "proved"}
  /\ proof' \in (IF guest' = "proved" THEN BOOLEAN ELSE {FALSE})
  /\ To("tidyGuest")
  /\ UNCHANGED <<host, late, receipt, owned, aged, tidying, staged, guestError, doomed, proofs>>

\* The finally of a run, and the first half of the mode cleanup, which has no
\* finally: there a failure is the end.
TidyGuest ==
  /\ leg = "tidyGuest"
  /\ IF ~staged THEN To("tidySessions") /\ UNCHANGED <<guest, guestError>>
     ELSE \/ ~late /\ guest' = "clean" /\ To("tidySessions") /\ UNCHANGED guestError
          \/ /\ guest' \in (IF late THEN {guest} ELSE {guest, "clean"})
             /\ guestError' = TRUE
             /\ IF tidying THEN Ends("failed") ELSE To("tidySessions")
  /\ UNCHANGED <<host, late, receipt, owned, aged, tidying, staged, proof, doomed, proofs>>

\* cleanup refuses somebody else's session, and one of the actor's that is not
\* the owned one unless a fresh placeholder may have become it.
MayDelete ==
  /\ \A s \in desk : s.who = "actor"
  /\ desk # {} => \E o \in owned : (Placeholder(o) /\ ~aged) \/ desk = {o}
TidySessions ==
  /\ leg = "tidySessions"
  /\ \/ MayDelete /\ doomed' = desk /\ To("deleting")
     \/ UNCHANGED doomed /\ Ends("failed")  \* refused, or the look threw
  /\ UNCHANGED <<host, files, receipt, owned, aged, tidying, staged, proof, guestError, proofs>>

DeleteSession ==
  /\ leg = "deleting"
  /\ \E s \in doomed :
       /\ doomed' = doomed \ {s}
       /\ \/ s \in desk /\ desk' = desk \ {s} /\ To("deleting")
          \/ desk' \in {desk, desk \ {s}} /\ Ends("failed")  \* gone already, or no answer
  /\ UNCHANGED <<vm, opened, files, receipt, owned, aged, tidying, staged, proof, guestError, proofs>>

\* How it ended is what its exit code says: a guest cleanup that failed is
\* thrown after the sessions are gone.
Verdict == IF (proof \/ tidying) /\ ~guestError THEN "good" ELSE "failed"
SessionsGone ==
  /\ leg = "deleting" /\ doomed = {}
  /\ \/ desk = {} /\ Ends(Verdict)
     \/ Ends("failed")
  /\ UNCHANGED <<host, files, receipt, owned, aged, tidying, locals, proofs>>

\* Mode cleanup: it needs the receipt, and takes the session from it.
CleanupStarts ==
  /\ leg = "idle" /\ proofs < MaxProofs /\ receipt # {} /\ proofs' = proofs + 1
  /\ tidying' = TRUE /\ owned' = receipt /\ staged' = TRUE /\ proof' = FALSE /\ guestError' = FALSE
  /\ doomed' = {} /\ To("tidyGuest")
  /\ UNCHANGED <<host, files, receipt, aged>>

Dies ==
  /\ leg # "idle" /\ Ends("died")
  /\ UNCHANGED <<host, files, receipt, owned, aged, tidying, locals, proofs>>

Next ==
  \/ SessionOpens \/ SessionActive \/ SessionEnds \/ VmRuns \/ StagingLands \/ FifteenMinutes
  \/ RunStarts \/ BecomesReady \/ Observe \/ Inspect \/ Stage \/ Prove
  \/ TidyGuest \/ TidySessions \/ DeleteSession \/ SessionsGone \/ CleanupStarts \/ Dies

Spec == Init /\ [][Next]_ssoVars

-----------------------------------------------------------------------------
Sessions == [id : 0..MaxSessions, who : {"actor", "other"}]

\* The variables have their types.
TypeOK ==
  /\ vm \in {"off", "starting", "running"} /\ desk \subseteq Sessions /\ opened \in 0..MaxSessions
  /\ guest \in {"clean", "staged", "proved"} /\ late \in BOOLEAN
  /\ receipt \subseteq Sessions /\ Cardinality(receipt) <= 1
  /\ owned \subseteq Sessions /\ Cardinality(owned) <= 1 /\ aged \in BOOLEAN
  /\ leg \in {"idle", "readying", "connecting", "inspecting", "staging", "proving", "tidyGuest",
              "tidySessions", "deleting"}
  /\ tidying \in BOOLEAN /\ staged \in BOOLEAN /\ proof \in BOOLEAN /\ guestError \in BOOLEAN
  /\ doomed \subseteq Sessions
  /\ ssoEnd \in {"none", "good", "failed", "died"} /\ proofs \in 0..MaxProofs

\* Whatever the run has left in the guest, or is still about to leave there, a
\* later cleanup finds a receipt to start from, wherever the command died.
TracesHaveReceipt == guest # "clean" \/ late => receipt # {}

\* A command that ends well leaves no file of the run and not the session it
\* owned.
GoodMeansGone ==
  leg = "idle" /\ ssoEnd = "good" =>
    /\ guest = "clean" /\ ~late
    /\ \A s \in receipt : ~Placeholder(s) => s \notin desk

=============================================================================
