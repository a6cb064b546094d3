------------------------------ MODULE OperatorSide ------------------------------
(***************************************************************************)
(* What the operator drives himself, side by side: the page and the        *)
(* commands under scripts/.  They share no state in the code (the page has *)
(* the browser's storage, each command its own process and its own objects *)
(* in the tenant), so a behaviour is one of them; which one, its first     *)
(* state tells.                                                            *)
(***************************************************************************)
EXTENDS Naturals, Sequences, FiniteSets

CONSTANTS
  Accounts, Operations, MaxClicks, MaxLoads,                  \* OperatorPage
  MaxLabCalls,                                                \* LabRunner
  MaxCommands, MaxPolls, MaxOthers,                           \* InboxRuleExercise
  MaxFaults,                                                  \* DeactivationCycle
  Families, MaxStarts, MaxFailed, MaxChanges, MaxReads,       \* TenantBaselines
  MaxProofs, MaxSessions,                                     \* SsoProof
  MaxProbes, MaxClones,                                       \* DeployKeyProbe
  MaxPasskeys, MaxModes                                       \* PasskeyProof

VARIABLES
  part,  \* what this behaviour is about
  view, account, connected, stages, run, active, cached, redirect, kept, wire, made, owed,
  clicks, loads,
  world, lost, overtaken, at, checked, deployed, cleaned, attempted, timerSeen, pendingOp,
  pendingMode, reads, primary, terminal, captured, prechecked, evidence, result, expired, labCalls,
  power, sessions, rule, transit, inbox, trash, cmd, pc, found, polls, empties, outcome, mailed,
  guarded, commands, others,
  there, banned, provision, receiver, astray, strayed, restoration, step, thrown, cleanupErrors,
  authorized, verdict, faults,
  family, tenant, command, todo, snapshot, role, inToken, returned, absent, deletes, looks,
  rollback, ended, born, changed, leaked, vouched, begun, failed, changes,
  vm, desk, opened, guest, late, receipt, owned, aged, leg, tidying, staged, proof, guestError,
  doomed, ssoEnd, proofs,
  deployKeys, branches, unlanded, keyId, branchMayExist, confirmed, stride, clones, probeErrors,
  probeOk, probeEnd, probe,
  passkeys, inventory, numbered, mode, onPage, target, swapped, removed, modes

Page == INSTANCE OperatorPage
Lab == INSTANCE LabRunner
Exercise == INSTANCE InboxRuleExercise
Cycle == INSTANCE DeactivationCycle
Baselines == INSTANCE TenantBaselines
Sso == INSTANCE SsoProof
Probe == INSTANCE DeployKeyProbe
Passkey == INSTANCE PasskeyProof

ASSUME OperatorSideAssumption ==
  /\ Operations \subseteq Page!Stored \cup Page!Sends /\ "none" \notin Accounts
  /\ Families \subseteq {"gsa", "tls", "updates", "entra", "passkey", "product", "student"}
  /\ {MaxProofs, MaxSessions, MaxProbes, MaxClones, MaxPasskeys, MaxModes} \subseteq Nat

Parts == {"page", "lab", "exercise", "cycle", "baselines", "sso", "probe", "passkey"}

pageVars == <<view, account, connected, stages, run, active, cached, redirect, kept, wire, made,
              owed, clicks, loads>>
labVars == <<world, lost, overtaken, at, checked, deployed, cleaned, attempted, timerSeen, pendingOp,
             pendingMode, reads, primary, terminal, captured, prechecked, evidence, result, expired,
             labCalls>>
exerciseVars == <<power, sessions, rule, transit, inbox, trash, cmd, pc, found, polls, empties,
                  outcome, mailed, guarded, commands, others>>
cycleVars == <<there, banned, provision, receiver, astray, strayed, restoration, step, thrown,
               cleanupErrors, authorized, verdict, faults>>
baselineVars == <<family, tenant, command, todo, snapshot, role, inToken, returned, absent, deletes,
                  looks, rollback, ended, born, changed, leaked, vouched, begun, failed, changes>>
ssoVars == <<vm, desk, opened, guest, late, receipt, owned, aged, leg, tidying, staged, proof,
             guestError, doomed, ssoEnd, proofs>>
probeVars == <<deployKeys, branches, unlanded, keyId, branchMayExist, confirmed, stride, clones,
               probeErrors, probeOk, probeEnd, probe>>
passkeyVars == <<passkeys, inventory, numbered, mode, onPage, target, swapped, removed, modes>>
operatorVars == <<part, pageVars, labVars, exerciseVars, cycleVars, baselineVars, ssoVars, probeVars,
                  passkeyVars>>

\* What is not this behaviour's has one first state, and stays in it.
Init ==
  /\ part \in Parts
  /\ Page!Init /\ (part # "page" => redirect = CHOOSE a \in Accounts : TRUE)
  /\ Lab!Init
  /\ Exercise!Init /\ (part # "exercise" => power = "running")
  /\ Cycle!Init /\ (part # "cycle" => there = {} /\ ~banned)
  /\ Baselines!Init
  /\ part # "baselines" => family = (CHOOSE f \in Families : TRUE) /\ role = "none"
  /\ Sso!Init /\ (part # "sso" => vm = "off")
  /\ Probe!Init
  /\ Passkey!Init

Only(p) ==
  /\ part = p /\ UNCHANGED part
  /\ IF p = "page" THEN TRUE ELSE UNCHANGED pageVars
  /\ IF p = "lab" THEN TRUE ELSE UNCHANGED labVars
  /\ IF p = "exercise" THEN TRUE ELSE UNCHANGED exerciseVars
  /\ IF p = "cycle" THEN TRUE ELSE UNCHANGED cycleVars
  /\ IF p = "baselines" THEN TRUE ELSE UNCHANGED baselineVars
  /\ IF p = "sso" THEN TRUE ELSE UNCHANGED ssoVars
  /\ IF p = "probe" THEN TRUE ELSE UNCHANGED probeVars
  /\ IF p = "passkey" THEN TRUE ELSE UNCHANGED passkeyVars

Next ==
  \/ Only("page") /\ Page!Next
  \/ Only("lab") /\ Lab!Next
  \/ Only("exercise") /\ Exercise!Next
  \/ Only("cycle") /\ Cycle!Next
  \/ Only("baselines") /\ Baselines!Next
  \/ Only("sso") /\ Sso!Next
  \/ Only("probe") /\ Probe!Next
  \/ Only("passkey") /\ Passkey!Next

Spec == Init /\ [][Next]_operatorVars

-----------------------------------------------------------------------------
(* Properties: those of the parts, joined where they make one promise.     *)

\* The variables of every part have their types.
TypeOK ==
  /\ part \in Parts
  /\ Page!TypeOK /\ Lab!TypeOK /\ Exercise!TypeOK /\ Cycle!TypeOK /\ Baselines!TypeOK
  /\ Sso!TypeOK /\ Probe!TypeOK /\ Passkey!TypeOK

\* Across reloads, reruns and lost answers, no stored create (of a file, a meeting,
\* a contact, a proof) leaves the browser again while an earlier one may have taken
\* effect, and no help desk mail while one of the same load may have: a reload
\* forgets it, and the internal mail may always be repeated.  And no marker message
\* is sent while the inbox rule for which one was sent still stands: once a cleanup
\* or Marge has removed the rule the next run sends another, also while the first
\* is still on its way.
NothingRepeatedBlindly == Page!NothingRepeatedBlindly /\ Exercise!SendsOncePerRule

\* A page that has begun to sign out sends and stores nothing any more.
SilentAfterSignOut == Page!SilentAfterSignOut

\* What the lab has at Azure and Defender can still be found and removed, by its
\* timer or from its hosts, until a mutation takes effect whose outcome the runner
\* no longer waits for: after that nothing is promised.  What the single sign-on
\* proof has in the guest, or may still leave there, always has its receipt.
NothingOrphaned == Lab!NothingOrphaned /\ Sso!TracesHaveReceipt

\* A run that reports that it cleaned up, or restored the baseline, has.
CompletedMeansClean ==
  /\ Lab!CompletedMeansClean /\ Exercise!CleanupMeansAbsent /\ Cycle!RestoredMeansRestored
  /\ Sso!GoodMeansGone

\* What a command took for its own time it gives back when a step of it fails, but
\* for the failures that the code has no answer to:
\* - Kobe is a member again, unless his membership could not be read, his
\*   restoration failed, or a removal that was given up took effect later;
\* - the temporary permission is gone, unless its request failed, the tokens never
\*   came to carry it, or its removal was given up;
\* - branch and deploy key are gone, unless removing that very thing is reported to
\*   have failed, or the key was never confirmed;
\* - a rollback record that was written tells the state before the first change;
\* - no passkey went but a marked one, unless the actor exchanged the passkeys
\*   between the look at the page and the click.
GivenBack ==
  /\ Cycle!KobeReturns /\ Baselines!PermissionGivenBack /\ Baselines!RollbackKept
  /\ Probe!ProbeLeavesNothing /\ Passkey!OnlyMarkedRemoved

\* The baselines: nothing is made twice by a command that is started again, and a
\* command that ends well has read every part of its baseline exact, which it still
\* is where nobody changed the object since.  The TLS part reads nothing again: only
\* the first half is about it.
BaselinesExact == Baselines!MadeOnce /\ Baselines!DoneMeansExact

=============================================================================
