------------------------------ MODULE OperatorPage ------------------------------
(***************************************************************************)
(* The operator's page (src/app.ts) over its MSAL session                  *)
(* (auth/msal-authentication.ts) and its API client (api/client.ts), in    *)
(* one browser tab: an operation shows a stage, runs as token, request,    *)
(* answer, and keeps its stage in the browser's storage under the signed-in *)
(* account, so that a reload finds it.  The API answers, refuses, drains,  *)
(* or is heard of no more while the request still takes effect.            *)
(***************************************************************************)
EXTENDS Naturals, FiniteSets

CONSTANTS
  Accounts,    \* the operator's Microsoft accounts
  Operations,  \* of those of the page: see Stored and Sends
  MaxClicks,   \* bound: operations that a behaviour starts
  MaxLoads     \* bound: loads of the page

VARIABLES
  view,        \* what the page shows
  account,     \* the account of the signed-in view
  connected,   \* api: the page found the account's API
  stages,      \* the stage of each operation in the page's memory
  run,         \* the operation under way, its step and the answer it got
  active,      \* the account that MSAL holds active, in the tab's storage
  cached,      \* the accounts of MSAL's cache
  redirect,    \* the account that a completed sign-in redirect brings back
  kept,        \* the stages in the browser's storage, by account
  wire,        \* requests that the API may still handle
  made,        \* the things that the operations create in Microsoft 365
  owed,        \* history: creates that were sent and not known to be undone
  clicks, loads

pageVars == <<view, account, connected, stages, run, active, cached, redirect, kept, wire,
              made, owed, clicks, loads>>

session == <<view, account, connected, active, cached, redirect>>
api == <<wire, made>>

-----------------------------------------------------------------------------
(* Operations and their stages.                                            *)

Stored == {"onedrive", "calendar", "contact", "fixed"}
Sends == {"email", "help-desk"}

Actions(o) == IF o \in Sends THEN {"create"} ELSE {"create", "remove"}

Fresh(o) == IF o \in Sends THEN "idle" ELSE "not-started"

\* Which actions a stage allows: OneDrive alone may start again, once it is
\* removed, and the internal mail may be sent again until it was accepted.
EmailAllowed(stage) == stage # "success"
HelpDeskAllowed(stage) == stage \in {"idle", "server-shutting-down"}
OneDriveAllowed(action, stage) ==
  stage \in IF action = "create" THEN {"not-started", "removed"} ELSE {"configured", "uncertain"}
CalendarAllowed(action, stage) ==
  stage \in IF action = "create" THEN {"not-started"} ELSE {"configured", "uncertain"}
ContactAllowed(action, stage) ==
  stage \in IF action = "create" THEN {"not-started"} ELSE {"configured", "uncertain"}
FixedAllowed(action, stage) ==
  stage \in IF action = "create" THEN {"not-started"} ELSE {"configured", "uncertain"}

Allowed(o, action, stage) ==
  CASE o = "email" -> EmailAllowed(stage)
    [] o = "help-desk" -> HelpDeskAllowed(stage)
    [] o = "onedrive" -> OneDriveAllowed(action, stage)
    [] o = "calendar" -> CalendarAllowed(action, stage)
    [] o = "contact" -> ContactAllowed(action, stage)
    [] OTHER -> FixedAllowed(action, stage)

\* The stage while a request is out: a reload must find it.  The calendar names
\* its later stages cancellation-uncertain and cancellation-accepted.
OneDriveAttempted(action) == "uncertain"
CalendarAttempted(action) == IF action = "create" THEN "uncertain" ELSE "removal-uncertain"
ContactAttempted(action) == "uncertain"
FixedAttempted(action) == IF action = "create" THEN "uncertain" ELSE "removal-uncertain"

Attempted(o, action) ==
  CASE o = "onedrive" -> OneDriveAttempted(action)
    [] o = "calendar" -> CalendarAttempted(action)
    [] o = "contact" -> ContactAttempted(action)
    [] OTHER -> FixedAttempted(action)

\* The stages that a load believes when it finds them in the storage.
OneDriveReads == {"uncertain", "configured", "removed"}
CalendarReads == {"uncertain", "configured", "removal-uncertain", "removed"}
ContactReads == {"uncertain", "configured", "removed"}
FixedReads == {"uncertain", "configured", "removal-uncertain", "removed"}

Restored(o, value) ==
  IF value \in CASE o = "onedrive" -> OneDriveReads [] o = "calendar" -> CalendarReads
                 [] o = "contact" -> ContactReads [] OTHER -> FixedReads
  THEN value ELSE "not-started"

NoRun == [op |-> "none", action |-> "none", step |-> "none", previous |-> "none", number |-> 0]
Current == view = "signed-in"

-----------------------------------------------------------------------------
(* Sign-in, sign-out and loading the page.                                 *)

\* Loading the page, for the first time, again, or after a redirect: nothing
\* but the storage, MSAL's cache and the requests at the API survives.
Load ==
  /\ loads < MaxLoads /\ loads' = loads + 1
  /\ view' = "processing" /\ run' = [NoRun EXCEPT !.step = "starting"]
  /\ account' = "none" /\ connected' = FALSE
  /\ stages' = [o \in Operations |-> Fresh(o)]
  /\ owed' = {d \in owed : d.op \notin Sends}
  /\ UNCHANGED <<active, cached, kept, api, clicks>>

Reload == view # "closed" /\ Load /\ redirect' = "none"

FindAccount ==
  IF redirect # "none" THEN redirect
  ELSE IF active # "none" THEN active
  ELSE IF Cardinality(cached) = 1 THEN CHOOSE a \in cached : TRUE ELSE "none"

Start ==
  /\ view = "processing" /\ run.step = "starting" /\ run' = NoRun
  /\ \/ /\ view' = "error" /\ UNCHANGED <<account, connected, stages, active>>
     \/ /\ FindAccount = "none" /\ view' = "signed-out" /\ active' = "none"
        /\ UNCHANGED <<account, connected, stages>>
     \/ /\ FindAccount # "none" /\ view' = "signed-in"
        /\ account' = FindAccount /\ active' = FindAccount
        /\ connected' \in BOOLEAN
        /\ stages' = [o \in Operations |-> IF o \in Sends THEN "idle" ELSE Restored(o, kept[FindAccount][o])]
  /\ UNCHANGED <<cached, redirect, kept, api, owed, clicks, loads>>

\* Choosing an account at Microsoft, giving up there, or failing to get there.
SignIn ==
  /\ view \in {"signed-out", "cancelled", "error"}
  /\ \/ /\ loads < MaxLoads /\ loads' = loads + 1
        /\ view' = "processing" /\ run' = [NoRun EXCEPT !.step = "starting"]
        /\ \/ \E a \in Accounts : redirect' = a /\ cached' = cached \cup {a}
           \/ redirect' = "none" /\ UNCHANGED cached
        /\ account' = "none" /\ connected' = FALSE
        /\ stages' = [o \in Operations |-> Fresh(o)]
        /\ owed' = {d \in owed : d.op \notin Sends}
        /\ UNCHANGED <<active, kept, api, clicks>>
     \/ /\ view' \in {"cancelled", "error"}
        /\ UNCHANGED <<account, connected, stages, run, active, cached, redirect, kept, api,
                       owed, clicks, loads>>

\* clearSession, and the page's api, go first; then Microsoft is asked.
SignOut ==
  /\ Current /\ view' = "leaving" /\ connected' = FALSE /\ active' = "none"
  /\ UNCHANGED <<account, stages, run, cached, redirect, kept, api, owed, clicks, loads>>

SignOutReturns ==
  /\ view = "leaving"
  /\ \/ view' = "signed-out" /\ cached' = cached \ {account}
     \/ view' \in {"error", "cancelled"} /\ UNCHANGED cached
  /\ UNCHANGED <<account, connected, stages, run, active, redirect, kept, api, owed, clicks, loads>>

-----------------------------------------------------------------------------
(* One operation: token, request, answer.                                  *)

\* A stage is shown, and also stored unless the operation only sends.
Shows(o, stage) == stages' = [stages EXCEPT ![o] = stage]
Persists(o, stage) ==
  kept' = IF o \in Sends THEN kept ELSE [kept EXCEPT ![account][o] = stage]

Click ==
  /\ Current /\ connected /\ run = NoRun /\ clicks < MaxClicks
  /\ clicks' = clicks + 1
  /\ \E o \in Operations : \E action \in Actions(o) :
       /\ Allowed(o, action, stages[o])
       /\ run' = [op |-> o, action |-> action, step |-> "token", previous |-> stages[o],
                  number |-> clicks + 1]
  /\ UNCHANGED <<session, stages, kept, api, owed, loads>>

\* acquireAccessToken: a token is for the session that asked for it.
SessionHolds_Unchecked == TRUE
SessionHolds == active = account /\ active # "none"

NeedsPopup ==
  /\ run.step = "token"
  /\ run' = [run EXCEPT !.step = IF SessionHolds THEN "popup" ELSE "token refused"]
  /\ UNCHANGED <<session, stages, kept, api, owed, clicks, loads>>

TokenRefused ==
  /\ run.step \in {"token", "popup"}
  /\ run' = [run EXCEPT !.step = "token refused"]
  /\ UNCHANGED <<session, stages, kept, api, owed, clicks, loads>>

TokenCancelled ==
  /\ run.step \in {"token", "popup"}
  /\ run' = IF Current THEN NoRun ELSE [run EXCEPT !.step = "gone"]
  /\ IF Current /\ run.op \in Sends THEN Shows(run.op, "cancelled") ELSE UNCHANGED stages
  /\ UNCHANGED <<session, kept, api, owed, clicks, loads>>

\* The attempted stage is stored before the request leaves.  The mails are sent
\* without another look at the view.
Persisted_Afterwards(o, action) == kept' = kept
Persisted(o, action) == Persists(o, Attempted(o, action))

TokenArrives ==
  /\ run.step \in {"token", "popup"}
  /\ LET o == run.op
         create == [account |-> account, op |-> o] IN
     CASE ~SessionHolds ->
            /\ run' = [run EXCEPT !.step = "token refused"]
            /\ UNCHANGED <<stages, kept, wire, owed>>
       [] SessionHolds /\ ~Current /\ o \notin Sends ->
            run' = [run EXCEPT !.step = "gone"] /\ UNCHANGED <<stages, kept, wire, owed>>
       [] OTHER ->
            /\ IF o \in Sends THEN UNCHANGED stages ELSE Shows(o, Attempted(o, run.action))
            /\ Persisted(o, run.action)
            /\ run' = [run EXCEPT !.step = "sent"]
            /\ wire' = wire \cup {[op |-> o, action |-> run.action, number |-> run.number]}
            /\ owed' = IF run.action = "create" THEN owed \cup {create} ELSE owed
  /\ UNCHANGED <<session, made, clicks, loads>>

-----------------------------------------------------------------------------
(* The API and the way back.                                               *)

\* What the client makes of a reply: only the exact body of a refusal at
\* shutdown, and of a share that failed at the invitation, are told apart.
Classified(r, reply) ==
  CASE reply = "result" -> "done"
    [] reply = "shutdown refusal" -> "server-shutting-down"
    [] reply = "invite failure" /\ r.op = "onedrive" /\ r.action = "create" -> "invite-failed"
    [] OTHER -> "error"

Answered(r, reply) ==
  run' = IF run.step = "sent" /\ run.number = r.number
         THEN [run EXCEPT !.step = Classified(r, reply)] ELSE run

\* The API refuses at shutdown or otherwise, acts, or finds the thing as wanted.
Handle ==
  \E r \in wire :
    /\ wire' = wire \ {r}
    /\ \/ UNCHANGED made /\ \E reply \in {"shutdown refusal", "refusal"} : Answered(r, reply)
       \/ /\ r.action = "create" /\ r.op \notin made
          /\ made' = IF r.op \in Sends THEN made ELSE made \cup {r.op}
          /\ \E reply \in {"result", "unclear", "invite failure"} : Answered(r, reply)
       \/ /\ r.action = "remove" /\ r.op \in made /\ made' = made \ {r.op}
          /\ \E reply \in {"result", "unclear"} : Answered(r, reply)
       \/ /\ r.op \in {"contact", "fixed"} /\ (r.action = "create") = (r.op \in made)
          /\ UNCHANGED made /\ Answered(r, "result")
    /\ UNCHANGED <<session, stages, kept, owed, clicks, loads>>

\* The request is out, and the page hears nothing of it.
ConnectionLost ==
  /\ run.step = "sent" /\ run' = [run EXCEPT !.step = "error"]
  /\ UNCHANGED <<session, stages, kept, api, owed, clicks, loads>>

Settled(d) == run.step = "server-shutting-down" \/ (run.step = "done" /\ run.action = "remove")

Reached(action) == IF action = "create" THEN "configured" ELSE "removed"

\* What a page that hears an answer shows and, for all but the mails, stores.
EmailAfter(answer) == IF answer = "done" THEN "success" ELSE "error"
HelpDeskAfter(answer) ==
  CASE answer = "done" -> "success" [] answer = "server-shutting-down" -> answer [] OTHER -> "error"
OneDriveAfter(action, answer, previous) ==
  CASE answer = "done" -> Reached(action)
    [] answer = "server-shutting-down" -> previous [] OTHER -> "uncertain"
CalendarAfter(action, answer, previous) ==
  CASE answer = "done" -> Reached(action)
    [] answer = "server-shutting-down" -> previous [] OTHER -> CalendarAttempted(action)
ContactAfter(action, answer, previous) ==
  CASE answer = "done" -> Reached(action)
    [] answer = "server-shutting-down" -> previous [] OTHER -> "uncertain"
FixedAfter(action, answer, previous) ==
  CASE answer = "done" -> Reached(action)
    [] answer = "server-shutting-down" -> previous [] OTHER -> FixedAttempted(action)

AfterAnswer ==
  CASE run.op = "email" -> EmailAfter(run.step)
    [] run.op = "help-desk" -> HelpDeskAfter(run.step)
    [] run.op = "onedrive" -> OneDriveAfter(run.action, run.step, run.previous)
    [] run.op = "calendar" -> CalendarAfter(run.action, run.step, run.previous)
    [] run.op = "contact" -> ContactAfter(run.action, run.step, run.previous)
    [] OTHER -> FixedAfter(run.action, run.step, run.previous)

\* OneDrive shows a request that never left as uncertain but does not store it.
Finish ==
  /\ run.step \in {"done", "error", "invite-failed", "server-shutting-down", "token refused"}
  /\ owed' = {d \in owed : ~(d.op = run.op /\ d.account = account /\ Settled(d))}
  /\ IF Current
     THEN /\ run' = NoRun /\ Shows(run.op, AfterAnswer)
          /\ IF run.op = "onedrive" /\ run.step \in {"error", "token refused"}
             THEN UNCHANGED kept ELSE Persists(run.op, AfterAnswer)
     ELSE run' = [run EXCEPT !.step = "gone"] /\ UNCHANGED <<stages, kept>>
  /\ UNCHANGED <<session, api, clicks, loads>>

-----------------------------------------------------------------------------
Init ==
  /\ view = "closed" /\ account = "none" /\ connected = FALSE
  /\ stages = [o \in Operations |-> Fresh(o)] /\ run = NoRun
  /\ active = "none" /\ cached = {} /\ redirect \in Accounts /\ wire = {} /\ owed = {}
  /\ kept = [a \in Accounts |-> [o \in Operations |-> Fresh(o)]]
  /\ made = {} /\ clicks = 0 /\ loads = 0

\* The first page is the one a completed sign-in redirects to.
FirstLoad == view = "closed" /\ Load /\ UNCHANGED redirect

Next ==
  \/ FirstLoad \/ Reload \/ Start \/ SignIn \/ SignOut \/ SignOutReturns
  \/ Click \/ NeedsPopup \/ TokenRefused \/ TokenCancelled \/ TokenArrives
  \/ Handle \/ ConnectionLost \/ Finish

Spec == Init /\ [][Next]_pageVars

Stages == {"not-started", "uncertain", "configured", "removal-uncertain", "removed",
           "idle", "success", "cancelled", "error", "server-shutting-down"}

TypeOK ==
  /\ view \in {"closed", "processing", "signed-in", "signed-out", "leaving", "error", "cancelled"}
  /\ {account, active, redirect} \subseteq Accounts \cup {"none"} /\ cached \subseteq Accounts
  /\ stages \in [Operations -> Stages] /\ kept \in [Accounts -> [Operations -> Stages]]
  /\ connected \in BOOLEAN /\ made \subseteq Operations

\* A create leaves the browser only if the account has no create out that
\* might have happened: none was sent, the API said it took none, or its
\* removal was confirmed since, however often the page was reloaded or the
\* answer was lost.  The mails, whose stage is not stored, per load of the page;
\* the internal mail may be repeated.
NothingRepeatedBlindly ==
  [][\A r \in wire' \ wire :
       r.action = "create" /\ r.op # "email" => [account |-> account, op |-> r.op] \notin owed]_pageVars

\* A page that has begun to sign out sends nothing and stores nothing any more,
\* whatever token or answer still arrives.
SilentAfterSignOut ==
  [][~Current => wire' \subseteq wire /\ kept' = kept]_pageVars

=============================================================================
