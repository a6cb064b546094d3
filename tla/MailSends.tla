------------------------------ MODULE MailSends ------------------------------
(***************************************************************************)
(* The two rehearsals that send a mail: the simulated email, which keeps   *)
(* nothing, and the help-desk scenario, which sends one at a time and      *)
(* never again after a send whose outcome it does not know                 *)
(* (api/simulated-email.ts, api/help-desk-scenario.ts).                    *)
(***************************************************************************)
EXTENDS Naturals, FiniteSets

CONSTANTS Senders  \* calls of send() that may overlap

VARIABLES
  mailKind,   \* "simulated-email" or "help-desk-scenario"
  sendState,  \* #state of the help-desk operation: "ready", "sending", "uncertain"
  sender,     \* call -> "idle", "token", "waiting", "accepted", "refused", "unclear"
  told,       \* call -> what its caller was told last
  posted,     \* the calls whose request Graph may still act upon
  unknown     \* history: a send of this process ended without its outcome

mailVars == <<mailKind, sendState, sender, told, posted, unknown>>

Ends(c, what) ==
  /\ sender' = [sender EXCEPT ![c] = "idle"] /\ told' = [told EXCEPT ![c] = what]

\* The help desk refuses a send during another, or after an uncertain one.
HelpDeskSend(c) ==
  /\ mailKind = "help-desk-scenario" /\ sender[c] = "idle"
  /\ IF sendState = "ready"
     THEN sendState' = "sending" /\ sender' = [sender EXCEPT ![c] = "token"] /\ UNCHANGED told
     ELSE Ends(c, "failed") /\ UNCHANGED sendState
  /\ UNCHANGED <<mailKind, posted, unknown>>

EmailSend(c) ==
  /\ mailKind = "simulated-email" /\ sender[c] = "idle"
  /\ sender' = [sender EXCEPT ![c] = "token"]
  /\ UNCHANGED <<mailKind, sendState, told, posted, unknown>>

Becomes(s) == sendState' = IF mailKind = "help-desk-scenario" THEN s ELSE sendState

\* No token, or one of another identity.
TokenFails(c) ==
  /\ sender[c] = "token" /\ Ends(c, "failed") /\ Becomes("ready")
  /\ UNCHANGED <<mailKind, posted, unknown>>

Posts(c) ==
  /\ sender[c] = "token" /\ sender' = [sender EXCEPT ![c] = "waiting"]
  /\ posted' = posted \cup {c}
  /\ UNCHANGED <<mailKind, sendState, told, unknown>>

\* Graph accepts (202), refuses, or answers 408 or 5xx having acted or not.
Answers(c) ==
  /\ c \in posted
  /\ \/ /\ posted' = posted \ {c}
        /\ sender' = [sender EXCEPT ![c] = IF @ = "waiting" THEN "accepted" ELSE @]
     \/ /\ sender[c] = "waiting" /\ posted' = posted \ {c}
        /\ sender' = [sender EXCEPT ![c] = "refused"]
     \/ /\ sender[c] = "waiting" /\ posted' \in {posted, posted \ {c}}
        /\ sender' = [sender EXCEPT ![c] = "unclear"]
  /\ UNCHANGED <<mailKind, sendState, told, unknown>>

AfterStatus(status) == IF status = "unclear" THEN "uncertain" ELSE "ready"

Hears(c) ==
  /\ sender[c] \in {"accepted", "refused", "unclear"}
  /\ Ends(c, IF sender[c] = "accepted" THEN "accepted" ELSE "failed")
  /\ Becomes(AfterStatus(sender[c]))
  /\ unknown' = (unknown \/ sender[c] = "unclear")
  /\ UNCHANGED <<mailKind, posted>>

\* The fetch throws.
Lost(c) ==
  /\ sender[c] \in {"waiting", "accepted", "refused", "unclear"}
  /\ Ends(c, "failed") /\ Becomes("uncertain") /\ unknown' = TRUE
  /\ UNCHANGED <<mailKind, posted>>

Restart ==
  /\ sendState' = "ready" /\ unknown' = FALSE /\ posted' = {}
  /\ sender' = [c \in Senders |-> "idle"] /\ told' = [c \in Senders |-> "none"]
  /\ UNCHANGED mailKind

Init ==
  /\ mailKind \in {"simulated-email", "help-desk-scenario"} /\ sendState = "ready"
  /\ sender = [c \in Senders |-> "idle"] /\ told = [c \in Senders |-> "none"]
  /\ posted = {} /\ unknown = FALSE

Next ==
  \/ Restart
  \/ \E c \in Senders : \/ HelpDeskSend(c) \/ EmailSend(c) \/ TokenFails(c) \/ Posts(c)
                        \/ Answers(c) \/ Hears(c) \/ Lost(c)

Spec == Init /\ [][Next]_mailVars

TypeOK ==
  /\ mailKind \in {"simulated-email", "help-desk-scenario"}
  /\ sendState \in {"ready", "sending", "uncertain"}
  /\ sender \in [Senders -> {"idle", "token", "waiting", "accepted", "refused", "unclear"}]
  /\ told \in [Senders -> {"none", "accepted", "failed"}]
  /\ posted \subseteq Senders /\ unknown \in BOOLEAN

\* A help-desk operation that would send has no send under way and knows what
\* became of each earlier one: a mail whose answer was lost is never followed
\* by a second one of the same process (help-desk-scenario.ts #state).
ReadyMeansKnown ==
  mailKind = "help-desk-scenario" =>
    /\ sendState = "ready" => ~unknown /\ posted = {}
    /\ sendState # "sending" => \A c \in Senders : sender[c] = "idle"
    /\ Cardinality({c \in Senders : sender[c] # "idle"}) <= 1

=============================================================================
