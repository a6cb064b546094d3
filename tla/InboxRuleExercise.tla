--------------------------- MODULE InboxRuleExercise ---------------------------
(***************************************************************************)
(* The inbox-rule exercise on Marge's desktop                              *)
(* (scripts/marge-user-inbox-rule-proof.ts): commands start-avd, run,      *)
(* cleanup and finalize-avd, each a process of its own.  run makes one     *)
(* rule, lets Homer send one marker message and waits until the rule has   *)
(* marked it read; cleanup removes both.  The mail may be late, an answer  *)
(* may be lost, and a command stops at its first failure.                  *)
(***************************************************************************)
EXTENDS Naturals, FiniteSets

CONSTANTS
  MaxCommands,  \* bound: commands that a behaviour issues
  MaxPolls,     \* bound: reads of one poll (48, 12, 120 and 60 in the code)
  MaxOthers     \* bound: what other users of the mailbox and the desktop do

VARIABLES
  power,      \* of the desktop's virtual machine
  sessions,   \* users with a session on it
  rule,       \* the rule with the marker's name: "none", "exact", "changed", "two"
  transit,    \* marker messages accepted but not delivered
  inbox,      \* marker messages in the inbox: their read marks, by number
  trash,      \* marker messages that were deleted but not for good
  cmd, pc,    \* the command that runs and the await that it is at
  found,      \* marker messages that a cleanup found at its start
  polls, empties,
  outcome,    \* how the last command ended
  mailed,     \* history: messages sent
  guarded,    \* history: one was sent while the rule stood, and it still stands
  commands, others

exerciseVars == <<power, sessions, rule, transit, inbox, trash, cmd, pc, found, polls, empties,
                  outcome, mailed, guarded, commands, others>>
desktop == <<power, sessions>>
mailbox == <<rule, transit, inbox, trash>>
history == <<mailed, guarded>>

Users == {"marge", "rachel"}
Idle == cmd = "none"

-----------------------------------------------------------------------------
(* What the commands read.                                                 *)

ActiveMargeSession == power = "running" /\ sessions = {"marge"}
Count(r) == CASE r = "none" -> 0 [] r = "two" -> 2 [] OTHER -> 1
Delivered == DOMAIN inbox
AllMail == Delivered \cup trash
MarkerFree == Count(rule) = 0 /\ AllMail = {}

GoTo(step) == pc' = step /\ polls' = 0 /\ UNCHANGED <<cmd, outcome, found, empties>>
Poll(again) == pc' = again /\ polls' = polls + 1 /\ UNCHANGED <<cmd, outcome, found>>
Ends(how) ==
  cmd' = "none" /\ pc' = "none" /\ outcome' = how /\ found' = {} /\ polls' = 0 /\ empties' = 0

\* Every await may fail, and that ends the command.
Throws ==
  /\ ~Idle /\ Ends("failed")
  /\ UNCHANGED <<desktop, mailbox, history, commands, others>>

Issue ==
  /\ Idle /\ commands < MaxCommands /\ commands' = commands + 1
  /\ \E c \in {"start-avd", "run", "cleanup", "finalize-avd"} :
       cmd' = c /\ pc' = CASE c = "start-avd" -> "start" [] c = "run" -> "gate"
                           [] c = "cleanup" -> "inventory" [] OTHER -> "logoff"
  /\ outcome' = "none" /\ UNCHANGED <<desktop, mailbox, found, polls, empties, history, others>>

-----------------------------------------------------------------------------
(* The desktop.                                                            *)

StartAvd ==
  /\ pc = "start" /\ UNCHANGED <<sessions, mailbox, history, commands, others>>
  /\ IF power # "deallocated" \/ sessions # {} THEN Ends("failed") /\ UNCHANGED power
     ELSE power' \in {"running", "starting"} /\ GoTo("await ready")

AwaitReady ==
  /\ pc = "await ready" /\ UNCHANGED <<sessions, mailbox, history, commands, others>>
  /\ \/ power = "running" /\ Ends("done") /\ UNCHANGED power
     \/ power' \in {power, "running"} /\ polls < MaxPolls /\ Poll("await ready") /\ UNCHANGED empties
     \/ polls = MaxPolls /\ Ends("failed") /\ UNCHANGED power

LogOff ==
  /\ pc = "logoff" /\ UNCHANGED <<power, mailbox, history, commands, others>>
  /\ IF sessions \ {"marge"} # {} THEN Ends("failed") /\ UNCHANGED sessions
     ELSE sessions' \in {sessions, sessions \ {"marge"}} /\ GoTo("await logoff")

AwaitLogOff ==
  /\ pc = "await logoff" /\ UNCHANGED <<power, mailbox, history, commands, others>>
  /\ \/ sessions = {} /\ GoTo("deallocate") /\ UNCHANGED sessions
     \/ sessions # {} /\ polls < MaxPolls /\ sessions' \in {sessions, sessions \ {"marge"}}
        /\ Poll("await logoff") /\ UNCHANGED empties
     \/ sessions # {} /\ polls = MaxPolls /\ Ends("failed") /\ UNCHANGED sessions

\* Whoever signs in after the last look loses the session with the machine.
Deallocate ==
  /\ pc = "deallocate" /\ power' = "deallocated" /\ sessions' = {} /\ Ends("done")
  /\ UNCHANGED <<mailbox, history, commands, others>>

-----------------------------------------------------------------------------
(* run: gate, one rule, gate, one message, effect.                         *)

Gate ==
  /\ pc = "gate" /\ (IF ActiveMargeSession /\ MarkerFree THEN GoTo("create") ELSE Ends("failed"))
  /\ UNCHANGED <<desktop, mailbox, history, commands, others>>

\* A lost answer throws; the rule is there all the same.
CreateRule ==
  /\ pc = "create" /\ UNCHANGED <<desktop, transit, inbox, trash, history, commands, others>>
  /\ \/ rule' = (IF rule = "none" THEN "exact" ELSE "two") /\ (GoTo("confirm") \/ Ends("failed"))
     \/ UNCHANGED rule /\ Ends("failed")

ConfirmRule ==
  /\ pc = "confirm" /\ (IF rule = "exact" THEN GoTo("send gate") ELSE Ends("failed"))
  /\ UNCHANGED <<desktop, mailbox, history, commands, others>>

SendGate ==
  /\ pc = "send gate"
  /\ (IF ActiveMargeSession /\ AllMail = {} THEN GoTo("send") ELSE Ends("failed"))
  /\ UNCHANGED <<desktop, mailbox, history, commands, others>>

\* A send without a 202 "must not be retried".
AfterFailedSend == Ends("failed")

Send ==
  /\ pc = "send" /\ UNCHANGED <<desktop, rule, inbox, trash, commands, others>>
  /\ \/ transit' = transit \cup {mailed + 1} /\ mailed' = mailed + 1 /\ guarded' = (rule # "none")
        /\ (GoTo("await effect") \/ AfterFailedSend)
     \/ UNCHANGED <<transit, history>> /\ AfterFailedSend

AwaitEffect ==
  /\ pc = "await effect" /\ UNCHANGED <<desktop, mailbox, history, commands, others>>
  /\ IF Cardinality(Delivered) = 1 /\ (\A n \in Delivered : inbox[n]) THEN Ends("done")
     ELSE IF Cardinality(Delivered) > 1 \/ polls = MaxPolls THEN Ends("failed")
     ELSE Poll("await effect") /\ UNCHANGED empties

-----------------------------------------------------------------------------
(* cleanup.                                                                *)

Inventory ==
  /\ pc = "inventory"
  /\ IF Count(rule) > 1 \/ rule = "changed" \/ Cardinality(AllMail) > 1 THEN Ends("failed")
     ELSE /\ pc' = (IF rule = "exact" THEN "delete rule" ELSE "delete message")
          /\ found' = AllMail /\ UNCHANGED <<cmd, outcome, polls, empties>>
  /\ UNCHANGED <<desktop, mailbox, history, commands, others>>

DeleteRule ==
  /\ pc = "delete rule" /\ rule # "none" /\ rule' = (IF rule = "two" THEN "exact" ELSE "none")
  /\ guarded' = (guarded /\ rule' # "none")
  /\ (GoTo("delete message") \/ Ends("failed"))
  /\ UNCHANGED <<desktop, transit, inbox, trash, mailed, commands, others>>

Without(n) == [m \in Delivered \ {n} |-> inbox[m]]

\* A message in the inbox is moved; one already deleted is deleted for good.
DeleteMessage ==
  /\ pc = "delete message" /\ UNCHANGED <<desktop, rule, transit, history, commands, others>>
  /\ \/ found = {} /\ GoTo("residue") /\ UNCHANGED <<inbox, trash>>
     \/ \E n \in found :
          /\ inbox' = Without(n) /\ trash' = IF n \in trash THEN trash \ {n} ELSE trash \cup {n}
          /\ (GoTo("residue") \/ Ends("failed"))

\* Up to 12 reads; three empty ones in a row end them, a message found goes for good.
Residue ==
  /\ pc = "residue" /\ UNCHANGED <<desktop, rule, transit, history, commands, others>>
  /\ \/ AllMail = {} /\ empties < 2 /\ polls < MaxPolls /\ empties' = empties + 1
        /\ Poll("residue") /\ UNCHANGED <<inbox, trash>>
     \/ AllMail = {} /\ empties = 2 /\ polls < MaxPolls /\ empties' = 3
        /\ Poll("absence") /\ UNCHANGED <<inbox, trash>>
     \/ Cardinality(AllMail) = 1 /\ polls < MaxPolls /\ empties' = 0 /\ Poll("residue")
        /\ \E n \in AllMail : inbox' = Without(n) /\ trash' = trash \ {n}
     \/ (Cardinality(AllMail) > 1 \/ polls = MaxPolls) /\ Ends("failed") /\ UNCHANGED <<inbox, trash>>

Absence ==
  /\ pc = "absence" /\ Ends(IF Count(rule) = 0 /\ AllMail = {} THEN "clean" ELSE "failed")
  /\ UNCHANGED <<desktop, mailbox, history, commands, others>>

-----------------------------------------------------------------------------
(* Exchange, and the people at the mailbox and the desktop.                *)

\* The rule that stands when the message arrives marks it read.  One that
\* arrives after a confirmed cleanup overtakes that outcome.
Deliver ==
  /\ \E n \in transit :
       /\ transit' = transit \ {n}
       /\ inbox' = [m \in Delivered \cup {n} |-> IF m = n THEN rule = "exact" ELSE inbox[m]]
  /\ outcome' = IF outcome = "clean" THEN "overtaken" ELSE outcome
  /\ UNCHANGED <<desktop, rule, trash, cmd, pc, found, polls, empties, history, commands,
                 others>>

SignsIn ==
  /\ others < MaxOthers /\ others' = others + 1 /\ power = "running"
  /\ \E u \in Users \ sessions : sessions' = sessions \cup {u}
  /\ UNCHANGED <<power, mailbox, cmd, pc, found, polls, empties, outcome, history, commands>>

Edits ==
  /\ others < MaxOthers /\ others' = others + 1 /\ rule = "exact"
  /\ rule' \in {"changed", "two", "none"} /\ guarded' = (guarded /\ rule' # "none")
  /\ UNCHANGED <<desktop, transit, inbox, trash, cmd, pc, found, polls, empties, outcome, mailed,
                 commands>>

Init ==
  /\ power \in {"deallocated", "running"} /\ sessions = {}
  /\ rule = "none" /\ transit = {} /\ inbox = [n \in {} |-> FALSE] /\ trash = {}
  /\ cmd = "none" /\ pc = "none" /\ found = {} /\ polls = 0 /\ empties = 0 /\ outcome = "none"
  /\ mailed = 0 /\ guarded = FALSE /\ commands = 0 /\ others = 0

Next ==
  \/ Throws \/ Issue \/ StartAvd \/ AwaitReady \/ LogOff \/ AwaitLogOff \/ Deallocate
  \/ Gate \/ CreateRule \/ ConfirmRule \/ SendGate \/ Send \/ AwaitEffect
  \/ Inventory \/ DeleteRule \/ DeleteMessage \/ Residue \/ Absence
  \/ Deliver \/ SignsIn \/ Edits

Spec == Init /\ [][Next]_exerciseVars

TypeOK ==
  /\ power \in {"deallocated", "starting", "running"} /\ sessions \subseteq Users
  /\ rule \in {"none", "exact", "changed", "two"}
  /\ transit \cup trash \cup found \cup DOMAIN inbox \subseteq 1..mailed
  /\ outcome \in {"none", "failed", "done", "clean", "overtaken"}

\* The message is sent once for each rule: a run after a lost answer, a timeout
\* or a refused command finds the rule and sends nothing, until a cleanup has
\* (or Marge) has removed the rule.
SendsOncePerRule == [][mailed' > mailed => ~guarded]_exerciseVars

\* A cleanup that reports absence has left neither rule nor message, whatever
\* earlier runs and cleanups left half done; only a message that was still on
\* its way can come after it.
CleanupMeansAbsent == outcome = "clean" => rule = "none" /\ Delivered \cup trash = {}

=============================================================================
