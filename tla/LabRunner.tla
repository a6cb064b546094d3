------------------------------- MODULE LabRunner -------------------------------
(***************************************************************************)
(* The lifecycle runner of the three-VM lab (scripts/                      *)
(* avd-three-vm-runner.ts): run() deploys under an expiry timer, observes  *)
(* readiness and cleans up in a fixed order; it stops at a mutation whose  *)
(* outcome it does not know until reconcile() has read the world.  No      *)
(* mutation is sent twice and each is read three times at most.            *)
(***************************************************************************)
EXTENDS Naturals, Sequences, FiniteSets

CONSTANTS MaxLabCalls  \* bound: calls of run() and reconcile()

VARIABLES
  world,       \* what of the run exists at Azure, Graph, Defender, the timer
  lost,        \* mutations without an answer that may still take effect
  overtaken,   \* history: one did when nothing waited for its outcome any more
  at,          \* the await that the call under way is at; "caller": none is
  checked,     \* #markerChecked
  deployed, cleaned,         \* #deploymentIndex, #cleanupIndex
  attempted,   \* #attempted
  timerSeen,   \* #expiryVerified
  pendingOp, pendingMode,    \* #pendingReconciliation, #pendingMode
  reads,       \* #reconciliationReads
  primary, terminal,         \* #primaryFailure and #terminalFailure are set
  captured,    \* the ids of both temporary roles are known
  prechecked,  \* #cleanupPrecheckedForMutation
  evidence,    \* #evidence
  result,      \* the status of the last call
  expired,     \* the plan's expiry has passed
  labCalls

labVars == <<world, lost, overtaken, at, checked, deployed, cleaned, attempted, timerSeen, pendingOp,
             pendingMode, reads, primary, terminal, captured, prechecked, evidence, result,
             expired, labCalls>>

-----------------------------------------------------------------------------
(* The frozen plan.                                                        *)

Deployment == <<"expiry-create", "roles-grant", "control-submit", "compute-submit">>

Cleanup_GroupFirst == <<"azure-cleanup", "defender-offboard", "endpoint-cleanup", "entra-cleanup",
                        "roles-revoke", "expiry-remove", "sensitive-remove">>
Cleanup == <<"defender-offboard", "endpoint-cleanup", "azure-cleanup", "entra-cleanup",
             "roles-revoke", "expiry-remove", "sensitive-remove">>

Elements(s) == {s[i] : i \in DOMAIN s}
PlanOperations == Elements(Deployment) \cup Elements(Cleanup)
Deploys(o) == o \in Elements(Deployment)
Billable(o) == o \in {"control-submit", "compute-submit"}

\* What an operation makes, or removes.  The computers bring the rest with them.
Things(o) ==
  CASE o \in {"expiry-create", "expiry-remove"} -> {"timer"}
    [] o \in {"roles-grant", "roles-revoke"} -> {"roles"}
    [] o \in {"control-submit", "azure-cleanup"} -> {"group"}
    [] o = "compute-submit" -> {"group", "defender", "endpoint", "entra"}
    [] o = "defender-offboard" -> {"defender"}
    [] o = "endpoint-cleanup" -> {"endpoint"}
    [] o = "entra-cleanup" -> {"entra"}
    [] o = "sensitive-remove" -> {"sensitive"}

Effect(o) == IF Deploys(o) THEN world \cup Things(o) ELSE world \ Things(o)
Desired(o) == IF Deploys(o) THEN Things(o) \subseteq world ELSE Things(o) \cap world = {}

Op == IF at \in {"deploy", "expiry", "verify"} THEN Deployment[deployed + 1] ELSE Cleanup[cleaned + 1]

-----------------------------------------------------------------------------
(* How a call goes on or ends.                                             *)

\* The loops of run(): the rest of the deployment, readiness, the cleanup.
Onward(d, failed) ==
  IF ~failed /\ d < Len(Deployment) THEN "deploy"
  ELSE IF ~failed /\ evidence = "none" THEN "readiness" ELSE "cleanup"

Ends(status) == at' = "caller" /\ result' = status
Stays == UNCHANGED result
Pending(op, mode) == pendingOp' = op /\ pendingMode' = mode
Cleared == Pending("none", "none")
pending == <<pendingOp, pendingMode>>
fixed == <<checked, expired, labCalls>>

\* A broken invariant, or a journal that cannot be written, rejects the call.
Throw == Ends("threw") /\ UNCHANGED <<deployed, cleaned, pending, primary, terminal, prechecked>>

Run ==
  /\ at = "caller" /\ labCalls < MaxLabCalls /\ labCalls' = labCalls + 1
  /\ IF terminal THEN Ends("failed")
     ELSE IF pendingOp # "none" THEN Ends("blocked")
     ELSE at' = (IF checked THEN Onward(deployed, primary) ELSE "marker") /\ result' = "none"
  /\ UNCHANGED <<world, lost, overtaken, checked, deployed, cleaned, attempted, timerSeen, pending,
                 reads, primary, terminal, captured, prechecked, evidence, expired>>

\* A marker that exists belongs to another run; one that cannot be looked up
\* rejects this call, and the next does not look again.
MarkerChecked ==
  /\ at = "marker" /\ checked' = TRUE
  /\ \/ at' = "deploy" /\ UNCHANGED <<terminal, result>>
     \/ Ends("failed") /\ terminal' = TRUE
     \/ Ends("threw") /\ UNCHANGED terminal
  /\ UNCHANGED <<world, lost, overtaken, deployed, cleaned, attempted, timerSeen, pending, reads,
                 primary, captured, prechecked, evidence, expired, labCalls>>

NoBillingWithoutExpiry ==
  /\ at = "deploy" /\ Billable(Op) /\ (~timerSeen \/ expired)
  /\ primary' = TRUE /\ at' = "cleanup" /\ Stays
  /\ UNCHANGED <<world, lost, overtaken, deployed, cleaned, attempted, timerSeen, pending, reads,
                 terminal, captured, prechecked, evidence, fixed>>

-----------------------------------------------------------------------------
(* #mutateOnce, and what follows its outcome.                              *)

Succeeds(o) ==
  /\ CASE o = "expiry-create" -> at' = "expiry" /\ UNCHANGED deployed
       [] o = "roles-grant" -> at' = "verify" /\ UNCHANGED deployed
       [] Billable(o) -> deployed' = deployed + 1 /\ at' = Onward(deployed + 1, FALSE)
       [] OTHER -> at' = "postcheck" /\ UNCHANGED deployed
  /\ Stays /\ UNCHANGED <<pending, primary, terminal>>

Fails(o) ==
  /\ IF Deploys(o) THEN at' = "cleanup" /\ primary' = TRUE /\ Stays /\ UNCHANGED terminal
     ELSE Ends("failed") /\ terminal' = TRUE /\ UNCHANGED primary
  /\ UNCHANGED <<deployed, pending>>

Unknown(o) == Ends("blocked") /\ Pending(o, "advance") /\ UNCHANGED <<deployed, primary, terminal>>

MutateOnce ==
  LET o == Op IN
  /\ at \in {"deploy", "mutate"} /\ (Billable(o) => timerSeen /\ ~expired)
  /\ UNCHANGED <<overtaken, cleaned, timerSeen, reads, evidence, fixed>>
  /\ \/ /\ o \in attempted /\ Throw /\ UNCHANGED <<world, lost, attempted, captured>>
     \/ /\ o = "roles-revoke" /\ ~captured /\ terminal' = TRUE /\ Ends("failed")
        /\ UNCHANGED <<world, lost, attempted, captured, deployed, pending, primary, prechecked>>
     \/ /\ o \notin attempted /\ (o = "roles-revoke" => captured)
        /\ attempted' = attempted \cup {o}
        /\ \/ /\ Throw /\ UNCHANGED captured
              /\ \/ world' \in {world, Effect(o)} /\ UNCHANGED lost
                 \/ lost' = lost \cup {o} /\ UNCHANGED world
           \/ /\ UNCHANGED prechecked
              /\ \/ /\ world' = Effect(o) /\ UNCHANGED lost
                    /\ \/ Succeeds(o) /\ captured' = (captured \/ o = "roles-grant")
                       \/ o = "roles-grant" /\ Unknown(o) /\ UNCHANGED captured
                 \/ Fails(o) /\ world' \in {world, Effect(o)} /\ UNCHANGED <<lost, captured>>
                 \/ /\ Unknown(o) /\ UNCHANGED captured
                    /\ \/ world' \in {world, Effect(o)} /\ UNCHANGED lost
                       \/ lost' = lost \cup {o} /\ UNCHANGED world

Land ==
  \E o \in lost :
    /\ lost' = lost \ {o} /\ world' = Effect(o) /\ overtaken' = (overtaken \/ pendingOp # o)
    /\ UNCHANGED <<at, deployed, cleaned, attempted, timerSeen, pending, reads, primary, terminal,
                   captured, prechecked, evidence, result, fixed>>

\* verifyExpiry after expiry-create, in run() and in reconcile().
VerifyExpiry ==
  /\ at \in {"expiry", "expiry again"}
  /\ UNCHANGED <<world, lost, overtaken, cleaned, attempted, pending, reads, terminal, captured,
                 prechecked, evidence, fixed>>
  /\ \/ Ends("threw") /\ UNCHANGED <<deployed, timerSeen, primary>>
     \/ \E seen \in {FALSE, "timer" \in world} :
          /\ timerSeen' = seen /\ primary' = ~seen
          /\ deployed' = IF seen THEN deployed + 1 ELSE deployed
          /\ IF at = "expiry" THEN at' = Onward(deployed', primary') /\ Stays
             ELSE Ends("ready-to-resume")

ObserveReadiness ==
  /\ at = "readiness" /\ at' = "cleanup" /\ Stays
  /\ evidence' \in {"proven", "not proven"} /\ primary' = (evidence' = "not proven")
  /\ UNCHANGED <<world, lost, overtaken, deployed, cleaned, attempted, timerSeen, pending, reads,
                 terminal, captured, prechecked, fixed>>

-----------------------------------------------------------------------------
(* #readDesiredState, and what follows it.                                 *)

\* A read may fail; that of the roles may also be made with the wrong token.
Outcomes_IncompleteIsGood(o) == {"desired-state"}
Outcomes(o) ==
  {IF Desired(o) THEN "desired-state" ELSE "wrong-state", "incomplete"}
    \cup (IF "roles" \in Things(o) THEN {"wrong-state"} ELSE {})

\* Reading the roles also tells their ids, when both are there.
Captures(o, outcome) ==
  captured' \in (IF "roles" \in Things(o) /\ "roles" \in world
                 THEN IF o = "roles-grant" /\ outcome = "desired-state" THEN {TRUE} ELSE {captured, TRUE}
                 ELSE {captured})

CanRead_OnceMore(o) == reads[o] <= 3
CanRead(o) == reads[o] < 3
Reads(o) == reads' = [reads EXCEPT ![o] = @ + 1]
readOnly == <<world, lost, overtaken, attempted, timerSeen, evidence, fixed>>

\* The read limit counts the reads before, after and during reconciliation.  A
\* read counts, and may have told the ids, when its journal entry cannot be written.
ReadThrows ==
  LET o == IF at = "reconcile" THEN pendingOp ELSE Op IN
  /\ at \in {"verify", "precheck", "postcheck", "reconcile"} /\ Throw /\ UNCHANGED readOnly
  /\ \/ ~CanRead(o) /\ UNCHANGED <<reads, captured>>
     \/ CanRead(o) /\ Reads(o) /\ \E outcome \in Outcomes(o) : Captures(o, outcome)

VerifyRoles ==
  /\ at = "verify" /\ CanRead(Op) /\ Reads(Op) /\ UNCHANGED <<cleaned, terminal, prechecked, readOnly>>
  /\ \E outcome \in Outcomes(Op) :
       /\ Captures(Op, outcome)
       /\ CASE outcome = "desired-state" ->
                 /\ deployed' = deployed + 1 /\ at' = "deploy" /\ Stays
                 /\ UNCHANGED <<pending, primary>>
            [] outcome = "incomplete" ->
                 Ends("blocked") /\ Pending(Op, "advance") /\ UNCHANGED <<deployed, primary>>
            [] OTHER -> at' = "cleanup" /\ primary' = TRUE /\ Stays /\ UNCHANGED <<deployed, pending>>

\* The head of the cleanup loop.
CleanupTurn ==
  /\ at = "cleanup" /\ UNCHANGED <<reads, captured, deployed, cleaned, pending, primary, terminal, readOnly>>
  /\ IF cleaned = Len(Cleanup)
     THEN Ends(IF primary THEN "cleaned-after-failure" ELSE "completed") /\ UNCHANGED prechecked
     ELSE /\ at' = IF prechecked = Op THEN "mutate" ELSE "precheck"
          /\ prechecked' = IF prechecked = Op THEN "none" ELSE prechecked
          /\ Stays

Precheck ==
  /\ at = "precheck" /\ CanRead(Op) /\ Reads(Op)
  /\ UNCHANGED <<deployed, primary, terminal, prechecked, readOnly>>
  /\ \E outcome \in Outcomes(Op) :
       /\ Captures(Op, outcome)
       /\ CASE outcome = "desired-state" ->
                 cleaned' = cleaned + 1 /\ at' = "cleanup" /\ Stays /\ UNCHANGED pending
            [] outcome = "incomplete" ->
                 Ends("blocked") /\ Pending(Op, "pre-cleanup") /\ UNCHANGED cleaned
            [] OTHER -> at' = "mutate" /\ Stays /\ UNCHANGED <<cleaned, pending>>

Postcheck ==
  /\ at = "postcheck" /\ CanRead(Op) /\ Reads(Op)
  /\ UNCHANGED <<deployed, primary, prechecked, readOnly>>
  /\ \E outcome \in Outcomes(Op) :
       /\ Captures(Op, outcome)
       /\ CASE outcome = "desired-state" ->
                 cleaned' = cleaned + 1 /\ at' = "cleanup" /\ Stays /\ UNCHANGED <<pending, terminal>>
            [] outcome = "incomplete" ->
                 Ends("blocked") /\ Pending(Op, "advance") /\ UNCHANGED <<cleaned, terminal>>
            [] OTHER -> Ends("failed") /\ terminal' = TRUE /\ UNCHANGED <<cleaned, pending>>

-----------------------------------------------------------------------------
(* reconcile(), which only reads.                                          *)

Reconcile ==
  /\ at = "caller" /\ pendingOp # "none" /\ labCalls < MaxLabCalls /\ labCalls' = labCalls + 1
  /\ at' = "reconcile" /\ result' = "none"
  /\ UNCHANGED <<world, lost, overtaken, checked, deployed, cleaned, attempted, timerSeen, pending, reads,
                 primary, terminal, captured, prechecked, evidence, expired>>

Advances(o) ==
  /\ Cleared /\ UNCHANGED <<primary, terminal, prechecked>>
  /\ IF o = "expiry-create" THEN at' = "expiry again" /\ Stays /\ UNCHANGED <<deployed, cleaned>>
     ELSE /\ Ends("ready-to-resume")
          /\ IF Deploys(o) THEN deployed' = deployed + 1 /\ UNCHANGED cleaned
             ELSE cleaned' = cleaned + 1 /\ UNCHANGED deployed

GivesUp(o) ==
  /\ Cleared /\ UNCHANGED <<deployed, cleaned, prechecked>>
  /\ IF Deploys(o) THEN Ends("ready-to-resume") /\ primary' = TRUE /\ UNCHANGED terminal
     ELSE Ends("failed") /\ terminal' = TRUE /\ UNCHANGED primary

ReconcileReads ==
  LET o == pendingOp IN
  /\ at = "reconcile" /\ CanRead(o) /\ Reads(o) /\ UNCHANGED readOnly
  /\ \E outcome \in Outcomes(o) :
       /\ Captures(o, outcome)
       /\ CASE outcome = "desired-state" -> Advances(o)
            [] outcome = "wrong-state" /\ pendingMode = "pre-cleanup" ->
                 /\ Cleared /\ prechecked' = o /\ Ends("ready-to-resume")
                 /\ UNCHANGED <<deployed, cleaned, primary, terminal>>
            [] outcome = "incomplete" /\ reads[o] < 2 ->
                 Ends("blocked") /\ UNCHANGED <<deployed, cleaned, pending, primary, terminal, prechecked>>
            [] OTHER -> GivesUp(o)

Expire ==
  /\ ~expired /\ expired' = TRUE
  /\ UNCHANGED <<world, lost, overtaken, at, checked, deployed, cleaned, attempted, timerSeen, pending,
                 reads, primary, terminal, captured, prechecked, evidence, result, labCalls>>

Init ==
  /\ world = {"sensitive"} /\ lost = {} /\ overtaken = FALSE /\ at = "caller"
  /\ checked = FALSE /\ deployed = 0 /\ cleaned = 0 /\ attempted = {} /\ timerSeen = FALSE
  /\ pendingOp = "none" /\ pendingMode = "none" /\ reads = [o \in PlanOperations |-> 0]
  /\ primary = FALSE /\ terminal = FALSE /\ captured = FALSE /\ prechecked = "none"
  /\ evidence = "none" /\ result = "none" /\ expired = FALSE /\ labCalls = 0

Next ==
  \/ Run \/ MarkerChecked \/ NoBillingWithoutExpiry \/ MutateOnce \/ Land \/ VerifyExpiry
  \/ ObserveReadiness \/ ReadThrows \/ VerifyRoles \/ CleanupTurn \/ Precheck \/ Postcheck
  \/ Reconcile \/ ReconcileReads \/ Expire

Spec == Init /\ [][Next]_labVars

TypeOK ==
  /\ world \subseteq {"timer", "roles", "group", "defender", "endpoint", "entra", "sensitive"}
  /\ lost \subseteq attempted /\ attempted \subseteq PlanOperations /\ reads \in [PlanOperations -> 0..3]
  /\ deployed \in 0..Len(Deployment) /\ cleaned \in 0..Len(Cleanup)
  /\ pendingOp \in PlanOperations \cup {"none"} /\ pendingMode \in {"none", "advance", "pre-cleanup"}

\* The roles and the billed resources that exist have the timer that would remove
\* them, and an endpoint known to Defender has the host it must be offboarded from,
\* however runs fail, resume and are reconciled: until a mutation takes effect whose
\* outcome nothing waits for any more, because a read found it not done, three reads
\* failed, or its call was rejected.  The code has no remedy for that.
NothingOrphaned ==
  ~overtaken =>
    /\ world \cap {"roles", "group"} # {} => "timer" \in world
    /\ "defender" \in world => "group" \in world

\* A run that reports its end has left nothing, unless a mutation whose outcome
\* nothing waited for any more took effect later, or still may.
CompletedMeansClean ==
  result \in {"completed", "cleaned-after-failure"} /\ ~overtaken /\ lost = {} => world = {}

=============================================================================
