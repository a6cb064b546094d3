---------------------------- MODULE TenantBaselines ----------------------------
(***************************************************************************)
(* The commands that bring standing objects of the tenant to their         *)
(* baseline: scripts/global-secure-access-baseline.mjs, rachel-gsa-        *)
(* standing.mjs (its TLS part), windows-update-baseline.mjs,               *)
(* entra-security-baseline.mjs, windows-hello-passkey-profile.mjs and      *)
(* configure-api-identity.ts.  Each finds its objects by name, refuses     *)
(* what it does not expect, creates or corrects what is missing and, but   *)
(* for the TLS part, reads all of it again, request by request.  A request *)
(* may fail before or after it takes effect, and ends the command; the     *)
(* operator may start it again, and other administrators change the same   *)
(* objects at any time.                                                    *)
(***************************************************************************)
EXTENDS Naturals, Sequences, FiniteSets

CONSTANTS
  Families,   \* the scripts that a behaviour is about, see Commands
  MaxStarts,  \* bound: commands that a behaviour starts
  MaxFailed,  \* bound: requests that fail
  MaxChanges, \* bound: changes by other administrators
  MaxReads    \* bound: reads while the permission is given back (30 in the code)

VARIABLES
  family,
  tenant,     \* each object: how many have its name, its shape, rest and scope
  command, todo,   \* the command that runs and its steps to come
  snapshot,   \* the objects as the command has read them
  role,       \* the role assignment for Intune: "none", "standing", "temporary"
  inToken,    \* the command's token carries the role
  returned,   \* ensureTemporaryIntunePermission returned created: true
  absent, deletes, looks,   \* while giving back the permission
  rollback,   \* the record of the state before: "none", "original", "tainted"
  ended,      \* how the last command ended
  born,       \* history: own creations of each object that others left alone
  changed,    \* history: a command of the family has changed something
  leaked,     \* history: why a permission is not given back, or "no"
  vouched,    \* history: the last readings whose objects nobody changed since
  begun, failed, changes

baselineVars == <<family, tenant, command, todo, snapshot, role, inToken, returned, absent, deletes,
                  looks, rollback, ended, born, changed, leaked, vouched, begun, failed, changes>>
permission == <<role, inToken, returned, absent, deletes, looks, leaked>>
bounds == <<begun, failed, changes>>

-----------------------------------------------------------------------------
(* The commands, as steps: <<what is done, to which object>>.  Readings     *)
(* that the code makes in parallel are listed in one order; two policies   *)
(* that come in one list are read one after the other.                     *)

GlobalSecureAccess ==
  <<<<"permission", "role">>, <<"ensure", "group">>, <<"members", "group">>,
    <<"reassign", "profile">>, <<"ensure", "app">>, <<"assign", "app">>,
    <<"found", "group">>, <<"shape", "profile">>, <<"scope", "profile">>, <<"scope", "group">>,
    <<"filled", "app">>, <<"scope", "app">>>>

TlsInspection ==
  <<<<"ensure", "authority">>, <<"ensure", "trust">>, <<"ensure", "policy">>,
    <<"ensure", "rule">>, <<"ensure", "filter">>, <<"ensure", "link">>, <<"ensure", "access">>>>

WindowsUpdate ==
  <<<<"ensure", "group">>, <<"members", "group">>, <<"ensure", "ring">>, <<"assign", "ring">>,
    <<"ensure", "feature">>, <<"include", "feature">>,
    <<"found", "group">>, <<"shape", "ring">>, <<"shape", "feature">>, <<"scope", "group">>,
    <<"scope", "ring">>, <<"scope", "feature">>>>

EntraCreate ==
  <<<<"refuse", "one">>, <<"refuse", "two">>, <<"create", "one">>, <<"create", "two">>,
    <<"staged", "one">>, <<"staged", "two">>>>
EntraEnable ==
  <<<<"expect", "one">>, <<"expect", "two">>, <<"enable", "one">>, <<"enable", "two">>,
    <<"enabled", "one">>, <<"enabled", "two">>>>

Passkey == <<<<"patch", "fido">>, <<"whole", "fido">>>>

ProductApply == <<<<"record", "all">>, <<"overwrite", "product">>, <<"shape", "product">>>>
StudentApply ==
  <<<<"record", "all">>, <<"ensure", "grant">>, <<"ensure", "assignment">>,
    <<"shape", "grant">>, <<"shape", "assignment">>>>

Commands(f) ==
  CASE f = "gsa" -> {GlobalSecureAccess}
    [] f = "tls" -> {TlsInspection}
    [] f = "updates" -> {WindowsUpdate}
    [] f = "entra" -> {EntraCreate, EntraEnable}
    [] f = "passkey" -> {Passkey}
    [] f = "product" -> {ProductApply}
    [] f = "student" -> {StudentApply}

Readings == {"found", "filled", "shape", "staged", "enabled", "scope", "whole"}
OwnActions == {"permission", "record", "give back"} \cup Readings
ObjectsOf(f) == {s[2] : s \in UNION {{c[i] : i \in DOMAIN c} : c \in Commands(f)}} \ {"role", "all"}
Objects == UNION {ObjectsOf(f) : f \in Families}

\* The first reads the whole state once, the others each object when its turn comes.
ReadsOnce(f) == f \in {"updates", "entra", "student"}

\* What is there before any command: the forwarding profiles, the FIDO2 policy,
\* the product's application.  Nothing else is.
None == [n |-> 0, right |-> TRUE, rest |-> FALSE, scope |-> {}]
Standing == {"profile", "fido", "product"}

\* What a reading at a command's end demands: of the groups not their type again.
Shaped(x) == tenant[x].n = 1 /\ tenant[x].right
Scoped(x) == tenant[x].n > 0 /\ tenant[x].scope = {"own"}

Holds(s) ==
  LET x == s[2] IN
  CASE s[1] = "found" -> tenant[x].n = 1
    [] s[1] = "filled" -> tenant[x].n = 1 /\ tenant[x].rest
    [] s[1] = "shape" -> Shaped(x)
    [] s[1] = "staged" -> Shaped(x) /\ ~tenant[x].rest
    [] s[1] = "enabled" -> Shaped(x) /\ tenant[x].rest
    [] s[1] = "scope" -> Scoped(x)
    [] s[1] = "whole" -> Shaped(x) /\ Scoped(x)

-----------------------------------------------------------------------------
(* How a command goes on.                                                  *)

Doing == command # "none"
Step == Head(todo)
StepDone == todo' = Tail(todo)
Continues == StepDone /\ UNCHANGED <<command, ended>>
Becomes(x, thing) == tenant' = [tenant EXCEPT ![x] = thing] /\ changed' = TRUE
Leaves == UNCHANGED <<tenant, changed>>

\* A throw ends the command, but for the finally that gives the permission back.
Abandons ==
  IF returned
  THEN todo' = <<<<"give back", "role">>>> /\ ended' = "failed" /\ UNCHANGED command
  ELSE command' = "none" /\ todo' = <<>> /\ ended' = "failed"

\* What the command knows of an object.
Seen(x) == IF ReadsOnce(family) THEN snapshot[x] ELSE tenant[x]

Begin ==
  /\ ~Doing /\ begun < MaxStarts /\ begun' = begun + 1
  /\ \E c \in Commands(family) :
       todo' = c /\ command' = "runs" /\ vouched' = {c[i] : i \in {k \in DOMAIN c : c[k][1] \in Readings}}
  /\ snapshot' = tenant /\ ended' = "none" /\ returned' = FALSE
  /\ inToken' \in (IF role = "none" THEN {FALSE} ELSE BOOLEAN)
  /\ absent' = 0 /\ deletes' = 0 /\ looks' = 0
  /\ leaked' = IF role = "temporary" THEN leaked ELSE "no"
  /\ UNCHANGED <<family, tenant, role, rollback, born, changed, failed, changes>>

\* One request: done and heard of, lost on the way back, or not done.
Request(x, thing) ==
  \/ Becomes(x, thing) /\ Continues /\ UNCHANGED failed
  \/ Becomes(x, thing) /\ Abandons /\ failed < MaxFailed /\ failed' = failed + 1
  \/ Leaves /\ Abandons /\ failed < MaxFailed /\ failed' = failed + 1

\* A read fails, or what it finds is refused.
Refuses == Leaves /\ Abandons /\ UNCHANGED failed
Skips == Leaves /\ Continues /\ UNCHANGED failed

ReadFails ==
  /\ Doing /\ Step[1] # "give back" /\ failed < MaxFailed /\ failed' = failed + 1
  /\ Leaves /\ Abandons
  /\ UNCHANGED <<family, snapshot, permission, rollback, born, vouched, begun, changes>>

-----------------------------------------------------------------------------
(* The steps.                                                              *)

Made(x) == born' = [born EXCEPT ![x] = @ + 1]
Created == [n |-> 1, right |-> TRUE, rest |-> FALSE, scope |-> {}]
Double(thing) == [thing EXCEPT !.n = 2]
WithNew(x) == IF tenant[x].n = 0 THEN Created ELSE Double(tenant[x])

\* The app's content is uploaded only by the command that created it.
Uploads(x) == todo' = <<<<"upload", x>>>> \o Tail(todo)

\* Found by its exact name: two are refused, one of another shape is refused.
ByName_NotLookedUp(x) == None
ByName(x) == Seen(x)

Ensure(x) ==
  LET found == ByName(x) IN
  \/ found.n = 2 /\ Refuses /\ UNCHANGED born
  \/ found.n = 1 /\ found.right /\ Skips /\ UNCHANGED born
  \/ found.n = 1 /\ ~found.right /\ Refuses /\ UNCHANGED born
  \/ /\ found.n = 0
     /\ \/ Becomes(x, WithNew(x)) /\ Made(x) /\ UNCHANGED <<failed, command, ended>>
           /\ (IF x = "app" THEN Uploads(x) ELSE StepDone)
        \/ Becomes(x, WithNew(x)) /\ Made(x) /\ Abandons /\ failed < MaxFailed /\ failed' = failed + 1
        \/ Leaves /\ Abandons /\ UNCHANGED born /\ failed < MaxFailed /\ failed' = failed + 1

Upload(x) == tenant[x].n > 0 /\ Request(x, [tenant[x] EXCEPT !.rest = TRUE])

\* Members, or assignments, one request each, as the list read first says.
InBetween(x, thing) ==
  \/ Becomes(x, thing) /\ UNCHANGED <<todo, command, ended, failed>>
  \/ failed < MaxFailed /\ failed' = failed + 1 /\ Leaves /\ Abandons
Foreign(x) == "other" \in Seen(x).scope \cap tenant[x].scope
Missing(x) == tenant[x].n > 0 /\ "own" \notin Seen(x).scope \cup tenant[x].scope
Evicted(x) == [tenant[x] EXCEPT !.scope = @ \ {"other"}]
Admitted(x) == [tenant[x] EXCEPT !.scope = @ \cup {"own"}]

\* Of a group the others go first, of a forwarding profile ours is added first.
Members(x) ==
  \/ Foreign(x) /\ InBetween(x, Evicted(x))
  \/ ~Foreign(x) /\ Missing(x) /\ Request(x, Admitted(x))
  \/ ~Foreign(x) /\ ~Missing(x) /\ Skips
Reassign(x) ==
  \/ Missing(x) /\ InBetween(x, Admitted(x))
  \/ ~Missing(x) /\ Foreign(x) /\ Request(x, Evicted(x))
  \/ ~Missing(x) /\ ~Foreign(x) /\ Skips

\* assign replaces the assignments; include does it only where ours is missing.
Assign(x) == tenant[x].n > 0 /\ Request(x, [tenant[x] EXCEPT !.scope = {"own"}])
Include(x) == IF "own" \in Seen(x).scope THEN Skips ELSE Assign(x)

\* The Entra policies are created together or not at all, and then enabled.
RefuseExisting(x) == IF Seen(x).n = 0 THEN Skips ELSE Refuses
ExpectPolicy(x) == IF Seen(x).n = 1 /\ Seen(x).right THEN Skips ELSE Refuses
EnablePolicy(x) ==
  IF Seen(x).rest THEN Skips
  ELSE tenant[x].n > 0 /\ Request(x, [tenant[x] EXCEPT !.rest = TRUE])

\* The FIDO2 policy is patched from its clean state only; an answer that is lost
\* is replaced by readings.
PatchPasskey(x) ==
  LET done == [tenant[x] EXCEPT !.scope = {"own"}] IN
  \/ tenant[x].scope = {"own"} /\ Skips
  \/ (tenant[x].scope \notin {{}, {"own"}} \/ ~tenant[x].right) /\ Refuses
  \/ /\ tenant[x].scope = {} /\ tenant[x].right
     /\ \/ Becomes(x, done) /\ Continues /\ failed' \in {failed, IF failed < MaxFailed THEN failed + 1 ELSE failed}
        \/ Leaves /\ Abandons /\ failed < MaxFailed /\ failed' = failed + 1

Overwrite(x) == tenant[x].n > 0 /\ Request(x, [tenant[x] EXCEPT !.right = TRUE])

\* The rollback record is written once, before the first change.
Recorded == IF rollback # "none" THEN rollback ELSE IF changed THEN "tainted" ELSE "original"

Record ==
  /\ Step[1] = "record" /\ rollback' = Recorded
  /\ IF rollback = "none" THEN Skips ELSE Refuses
  /\ UNCHANGED <<family, snapshot, permission, born, vouched, begun, changes>>

\* The TLS part checks each object when it finds it, and not again.  The passkey
\* policy is read until it is as it should be, for a while.
Verify ==
  /\ Step[1] \in Readings
  /\ IF Holds(Step) THEN Skips /\ vouched' = vouched \cup {Step} ELSE Refuses /\ UNCHANGED vouched
  /\ UNCHANGED <<family, snapshot, permission, rollback, born, begun, changes>>

OnObject ==
  LET x == Step[2] IN
  /\ Step[1] \notin OwnActions
  /\ \/ Step[1] \in {"ensure", "create"} /\ Ensure(x)
     \/ /\ UNCHANGED born
        /\ \/ Step[1] = "upload" /\ Upload(x)
           \/ Step[1] = "members" /\ Members(x)
           \/ Step[1] = "reassign" /\ Reassign(x)
           \/ Step[1] = "assign" /\ Assign(x)
           \/ Step[1] = "include" /\ Include(x)
           \/ Step[1] = "refuse" /\ RefuseExisting(x)
           \/ Step[1] = "expect" /\ ExpectPolicy(x)
           \/ Step[1] = "enable" /\ EnablePolicy(x)
           \/ Step[1] = "patch" /\ PatchPasskey(x)
           \/ Step[1] = "overwrite" /\ Overwrite(x)
  /\ UNCHANGED <<family, snapshot, permission, rollback, vouched, begun, changes>>

-----------------------------------------------------------------------------
(* The temporary permission.                                               *)

RequestRole ==
  \/ role' = "temporary" /\ inToken' = TRUE /\ returned' = TRUE /\ Skips /\ UNCHANGED leaked
  \/ /\ role' = "temporary" /\ leaked' = "undelivered" /\ Refuses
     /\ UNCHANGED <<inToken, returned>>
  \/ /\ role' \in {role, "temporary"} /\ leaked' = "unheard" /\ Leaves /\ Abandons
     /\ failed < MaxFailed /\ failed' = failed + 1 /\ UNCHANGED <<inToken, returned>>

\* A role that the token does not carry is waited for; it is created only if it
\* is not assigned.  A throw on the way leaves a created role assigned for good:
\* its request may fail, or the tokens never carry it.
EnsurePermission ==
  /\ Step[1] = "permission" /\ UNCHANGED <<absent, deletes, looks>>
  /\ \/ inToken /\ Skips /\ UNCHANGED <<role, inToken, returned, leaked>>
     \/ /\ role # "none" /\ ~inToken /\ UNCHANGED <<role, returned, leaked>>
        /\ \/ inToken' = TRUE /\ Skips
           \/ UNCHANGED inToken /\ Refuses
     \/ role = "none" /\ ~inToken /\ RequestRole
  /\ UNCHANGED <<family, snapshot, rollback, born, vouched, begun, changes>>

\* The finally block deletes the assignment and reads until it was absent five
\* times in a row; a replica may say four times too early that it is.
Confirmed_AtOnce == 1
Confirmed == 5
Removed == role' \in {role, "none"} /\ deletes' = deletes + 1

GiveBack ==
  /\ Step[1] = "give back" /\ looks < MaxReads /\ looks' = looks + 1
  /\ \/ deletes = 0 /\ Removed /\ UNCHANGED <<absent, command, todo, leaked>>
     \/ /\ deletes > 0 /\ (role = "none" \/ absent < 4) /\ absent' = absent + 1
        /\ UNCHANGED <<role, deletes, leaked>>
        /\ IF absent' = Confirmed THEN command' = "none" /\ todo' = <<>> ELSE UNCHANGED <<command, todo>>
     \/ /\ deletes > 0 /\ role # "none" /\ absent' = 0 /\ UNCHANGED <<command, todo, leaked>>
        /\ IF deletes < 3 THEN Removed ELSE UNCHANGED <<role, deletes>>
  /\ UNCHANGED <<family, tenant, changed, snapshot, inToken, returned, rollback, ended, born, vouched,
                 bounds>>

\* Its bound, or a request that fails, is the end of it.
GivesUp ==
  /\ Step[1] = "give back" /\ command' = "none" /\ todo' = <<>> /\ ended' = "failed"
  /\ leaked' = "abandoned"
  /\ \/ looks = MaxReads /\ UNCHANGED failed
     \/ failed < MaxFailed /\ failed' = failed + 1
  /\ UNCHANGED <<family, tenant, changed, snapshot, role, inToken, returned, absent, deletes, looks,
                 rollback, born, vouched, begun, changes>>

\* After its last step the command is done, but for the permission.
Done ==
  /\ Doing /\ todo = <<>> /\ ended' = "done"
  /\ IF returned THEN todo' = <<<<"give back", "role">>>> /\ UNCHANGED command
     ELSE command' = "none" /\ UNCHANGED todo
  /\ UNCHANGED <<family, tenant, changed, snapshot, permission, rollback, born, vouched, bounds>>

Takes == Doing /\ todo # <<>> /\ (OnObject \/ Record \/ Verify \/ EnsurePermission \/ GiveBack \/ GivesUp)

-----------------------------------------------------------------------------
\* Another administrator deletes, doubles, edits or re-scopes an object: what was
\* read of it before says no more.
OthersChange ==
  /\ changes < MaxChanges /\ changes' = changes + 1
  /\ \E x \in ObjectsOf(family) :
       /\ tenant[x].n = 1
       /\ \E thing \in {None, Double(tenant[x]), [tenant[x] EXCEPT !.right = FALSE],
                        [tenant[x] EXCEPT !.scope = @ \cup {"other"}]} :
            /\ thing = None => x \notin Standing
            /\ tenant' = [tenant EXCEPT ![x] = thing]
            /\ born' = IF thing = None THEN [born EXCEPT ![x] = 0] ELSE born
       /\ vouched' = {s \in vouched : s[2] # x}
  /\ UNCHANGED <<family, command, todo, snapshot, permission, rollback, changed, ended, begun, failed>>

Init ==
  /\ family \in Families
  /\ tenant = [x \in Objects |->
       IF x \in Standing
       THEN [Created EXCEPT !.right = (x # "product"), !.scope = IF x = "profile" THEN {"other"} ELSE {}]
       ELSE None]
  /\ snapshot = tenant /\ command = "none" /\ todo = <<>>
  /\ role \in (IF family = "gsa" THEN {"none", "standing"} ELSE {"none"}) /\ inToken = FALSE
  /\ returned = FALSE /\ absent = 0 /\ deletes = 0 /\ looks = 0 /\ rollback = "none"
  /\ ended = "none" /\ born = [x \in Objects |-> 0] /\ changed = FALSE /\ leaked = "no"
  /\ vouched = {}
  /\ begun = 0 /\ failed = 0 /\ changes = 0

Next == Begin \/ (Doing /\ todo # <<>> /\ ReadFails) \/ Takes \/ Done \/ OthersChange

Spec == Init /\ [][Next]_baselineVars

TypeOK ==
  /\ role \in {"none", "standing", "temporary"} /\ absent \in 0..5 /\ deletes \in 0..3
  /\ \A x \in Objects : tenant[x].n \in 0..2 /\ tenant[x].scope \subseteq {"own", "other"}
  /\ ended \in {"none", "failed", "done"} /\ command \in {"none", "runs"}

\* A command started again, after a lost answer or a partial failure, adopts what
\* it made before and makes no second object.
MadeOnce == \A x \in Objects : born[x] <= 1

\* A command that has ended well has read every part of its baseline again, and
\* what it read was exact and still is, but for the objects that another
\* administrator changed after that reading, also while the later readings were
\* being made.  The TLS part has no such readings and promises nothing here.
DoneMeansExact == ended = "done" => \A s \in vouched : Holds(s)

\* A temporary permission stays behind a command for three reasons only: the
\* request for it failed, the tokens never came to carry it, or its removal was
\* given up at its bound or at a request that failed.
PermissionGivenBack ==
  ~Doing /\ role = "temporary" => leaked \in {"unheard", "undelivered", "abandoned"}

\* The rollback record tells the state before the first change, also after an
\* attempt that failed and was repeated.
RollbackKept == rollback # "tainted"

=============================================================================
