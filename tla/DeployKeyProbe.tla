--------------------------- MODULE DeployKeyProbe ---------------------------
(***************************************************************************)
(* scripts/github-deploy-key-probe.mjs: a run makes a write deploy key,    *)
(* pushes a branch with it, and removes both.  A run is named by its       *)
(* number, as its key's title and its branch are by its time stamp.        *)
(*                                                                         *)
(* External: a POST whose answer is lost may make the key later            *)
(* (unlanded); a git command is synchronous, and one that fails has either *)
(* moved the branch by then or never will.                                 *)
(***************************************************************************)
EXTENDS Naturals, FiniteSets

CONSTANTS MaxProbes, MaxClones  \* bounds: runs; clone attempts (6 in the code)

VARIABLES
  deployKeys, branches,  \* at GitHub, by the run that made them
  unlanded,              \* runs whose POST may still take effect
  keyId, branchMayExist, \* what the run knows
  confirmed,             \* its key was confirmed enabled and writable
  stride,                \* where the run is
  clones, probeErrors,   \* clone attempts; the removals of the finally that failed
  probeOk, probeEnd,     \* the body succeeded; how the last run ended
  probe                  \* the number of the run

probeVars == <<deployKeys, branches, unlanded, keyId, branchMayExist, confirmed, stride, clones,
               probeErrors, probeOk, probeEnd, probe>>
remote == <<deployKeys, branches, unlanded>>
knows == <<keyId, branchMayExist, confirmed>>

Init ==
  /\ deployKeys = {} /\ branches = {} /\ unlanded = {}
  /\ keyId = FALSE /\ branchMayExist = FALSE /\ confirmed = FALSE
  /\ stride = "idle" /\ clones = 0 /\ probeErrors = {} /\ probeOk = FALSE
  /\ probeEnd = "none" /\ probe = 0

PostLands ==
  /\ \E n \in unlanded : unlanded' = unlanded \ {n} /\ deployKeys' = deployKeys \cup {n}
  /\ UNCHANGED <<branches, knows, stride, clones, probeErrors, probeOk, probeEnd, probe>>

To(s) == stride' = s

\* The baseline: no deploy key at all and no such branch; a run that finds
\* another one's key throws before it has made anything.
ProbeStarts ==
  /\ stride = "idle" /\ probe < MaxProbes /\ probe' = probe + 1
  /\ keyId' = FALSE /\ branchMayExist' = FALSE /\ confirmed' = FALSE
  /\ clones' = 0 /\ probeErrors' = {} /\ probeOk' = FALSE /\ probeEnd' = "none"
  /\ \/ deployKeys = {} /\ To("creating")
     \/ To("finallyBranch")
  /\ UNCHANGED remote

\* The create, and after a lost answer one list in its place, never a second
\* create.  What came back must be enabled and writable before it is kept.
CreateKey ==
  /\ stride = "creating"
  /\ \/ deployKeys' = deployKeys \cup {probe} /\ To("checking") /\ UNCHANGED unlanded
     \/ deployKeys' = deployKeys \cup {probe} /\ To("listing") /\ UNCHANGED unlanded
     \/ unlanded' = unlanded \cup {probe} /\ To("listing") /\ UNCHANGED deployKeys
     \/ UNCHANGED <<deployKeys, unlanded>> /\ To("listing")  \* refused
  /\ UNCHANGED <<branches, knows, clones, probeErrors, probeOk, probeEnd, probe>>

ListByTitle ==
  /\ stride = "listing"
  /\ \/ probe \in deployKeys /\ To("checking")
     \/ To("finallyBranch")  \* not there, or the list failed too
  /\ UNCHANGED <<remote, knows, clones, probeErrors, probeOk, probeEnd, probe>>

CheckKey ==
  /\ stride = "checking"
  /\ \/ keyId' = TRUE /\ confirmed' = TRUE /\ To("cloning")
     \/ UNCHANGED <<keyId, confirmed>> /\ To("finallyBranch")
  /\ UNCHANGED <<remote, branchMayExist, clones, probeErrors, probeOk, probeEnd, probe>>

Clone ==
  /\ stride = "cloning"
  /\ \/ To("pushing") /\ UNCHANGED clones
     \/ clones + 1 < MaxClones /\ clones' = clones + 1 /\ UNCHANGED stride
     \/ To("finallyBranch") /\ UNCHANGED clones  \* the last attempt, or the commit
  /\ UNCHANGED <<remote, knows, probeErrors, probeOk, probeEnd, probe>>

\* A failed push is ambiguous, so what the cleanup goes by is set before it.
Push ==
  /\ stride = "pushing"
  /\ \E pushed \in BOOLEAN :
       /\ branches' \in (IF pushed THEN {branches \cup {probe}} ELSE {branches, branches \cup {probe}})
       /\ branchMayExist' = TRUE
       \* What ls-remote shows decides whether the run goes on.
       /\ \/ pushed /\ To("branch")
          \/ To("finallyBranch")
  /\ UNCHANGED <<deployKeys, unlanded, keyId, confirmed, clones, probeErrors, probeOk, probeEnd, probe>>

\* removeBranchIfPresent, whose flag falls only when it came to its end; it
\* needs the key.
BranchRemoved ==
  /\ branchMayExist => probe \in deployKeys
  /\ branchMayExist' = FALSE
  /\ branches' = IF branchMayExist THEN branches \ {probe} ELSE branches
BranchRemovalFails ==
  /\ branchMayExist /\ UNCHANGED branchMayExist
  /\ branches' \in {branches, branches \ {probe}}

\* removeKeyIfPresent, the same for the key.
KeyRemoved ==
  /\ keyId' = FALSE
  /\ deployKeys' = IF keyId THEN deployKeys \ {probe} ELSE deployKeys
KeyRemovalFails ==
  /\ keyId /\ UNCHANGED keyId
  /\ deployKeys' \in {deployKeys, deployKeys \ {probe}}

RemoveBranch ==
  /\ stride = "branch"
  /\ \/ BranchRemoved /\ To("key")
     \/ BranchRemovalFails /\ To("finallyBranch")
  /\ UNCHANGED <<deployKeys, unlanded, keyId, confirmed, clones, probeErrors, probeOk, probeEnd, probe>>

RemoveKey ==
  /\ stride = "key"
  /\ \/ KeyRemoved /\ To("verifying")
     \/ KeyRemovalFails /\ To("finallyBranch")
  /\ UNCHANGED <<branches, unlanded, branchMayExist, confirmed, clones, probeErrors, probeOk, probeEnd,
                 probe>>

Verify ==
  /\ stride = "verifying" /\ To("finallyBranch")
  /\ probeOk' \in (IF deployKeys = {} /\ probe \notin branches THEN BOOLEAN ELSE {FALSE})
  /\ UNCHANGED <<remote, knows, clones, probeErrors, probeEnd, probe>>

\* The finally: both removals, each whatever became of the other.
FinallyBranch ==
  /\ stride = "finallyBranch"
  /\ \/ BranchRemoved /\ To("finallyKey") /\ UNCHANGED probeErrors
     \/ BranchRemovalFails /\ To("finallyKey") /\ probeErrors' = {"branch"}
  /\ UNCHANGED <<deployKeys, unlanded, keyId, confirmed, clones, probeOk, probeEnd, probe>>

FinallyKey ==
  /\ stride = "finallyKey" /\ To("end")
  /\ \/ KeyRemoved /\ UNCHANGED probeErrors
     \/ KeyRemovalFails /\ probeErrors' = probeErrors \cup {"key"}
  /\ UNCHANGED <<branches, unlanded, branchMayExist, confirmed, clones, probeOk, probeEnd, probe>>

ProbeEnds ==
  /\ stride = "end" /\ To("idle")
  /\ probeEnd' = IF probeErrors # {} THEN "cleanup failed" ELSE IF probeOk THEN "good" ELSE "failed"
  /\ UNCHANGED <<remote, knows, clones, probeErrors, probeOk, probe>>

ProbeDies ==
  /\ stride # "idle" /\ To("idle") /\ probeEnd' = "died"
  /\ UNCHANGED <<remote, knows, clones, probeErrors, probeOk, probe>>

Next ==
  \/ PostLands \/ ProbeStarts \/ CreateKey \/ ListByTitle \/ CheckKey \/ Clone \/ Push
  \/ RemoveBranch \/ RemoveKey \/ Verify \/ FinallyBranch \/ FinallyKey \/ ProbeEnds \/ ProbeDies

Spec == Init /\ [][Next]_probeVars

-----------------------------------------------------------------------------
\* The variables have their types.
TypeOK ==
  /\ {deployKeys, branches, unlanded} \subseteq SUBSET (1..MaxProbes)
  /\ {keyId, branchMayExist, confirmed, probeOk} \subseteq BOOLEAN
  /\ probeErrors \subseteq {"branch", "key"}
  /\ stride \in {"idle", "creating", "listing", "checking", "cloning", "pushing", "branch", "key",
                 "verifying", "finallyBranch", "finallyKey", "end"}
  /\ clones \in 0..MaxClones /\ probe \in 0..MaxProbes
  /\ probeEnd \in {"none", "good", "failed", "cleanup failed", "died"}

\* A run that lives to its end leaves no branch and no key it ever confirmed,
\* unless it reports that removing that very thing failed; one that fails before
\* it confirmed its key may leave it, unknown to anyone.
ProbeLeavesNothing ==
  stride = "idle" /\ probeEnd \in {"good", "failed", "cleanup failed"} =>
    /\ probe \in branches => "branch" \in probeErrors
    /\ confirmed /\ probe \in deployKeys => "key" \in probeErrors

=============================================================================
