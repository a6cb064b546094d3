# Formal models of AP2

AP2 is a training-tenant workbench: a browser page and an API that carry out a
few fixed Microsoft Graph operations under strict "once, never blindly again"
rules, a journal by which several API replicas could share those rules, a bot
that places one Teams call, and a body of operator scripts. This directory holds
TLA+ models of its stateful parts, the TLC runs that check them on small
instances, and TLAPS proofs of what matters most for every instance.

Everything here was written from the code. Paths below are relative to the
repository's root.

## What is modelled, at a glance

| Module | What it is | Code |
|---|---|---|
| `DispatchLedger` | what the shared journal promises its callers, with proofs | the promise of `api/shared-operation-journal.ts` |
| `SharedOperationJournal` | the journal: five operations over one table row | `api/shared-operation-journal.ts` |
| `SharedOperationJournalProofs` | its inductive invariant and theorems | |
| `MCSharedOperationJournal` | small instances of it for TLC | |
| `CallingCanary` | the calling canary, its journal, and Graph as it uses it | `teams-calling-bot/call-canary.ts`, `journal.ts` |
| `CallingBot` | the canary composed with its process | `teams-calling-bot/index.ts`, `startup-gate.ts`, `server.ts` |
| `CallingBotProofs` | its inductive invariant and theorems | |
| `ApiServer` | the API process: admission, handlers, connections, records, shutdown | `api/index.ts`, `server.ts`, `process-admission.ts`, `api-telemetry.ts` |
| `ApiServerProofs` | its inductive invariant and theorems | |
| `FixedProofs` | six create-and-remove rehearsals | `api/contact-proof.ts`, `inbox-rule-proof.ts`, `category-proof.ts`, `draft-proof.ts`, `todo-task-proof.ts`, `sharepoint-file-proof.ts` |
| `MailSends` | the two rehearsals that send a mail | `api/simulated-email.ts`, `help-desk-scenario.ts` |
| `CalendarMeeting` | create, cancel, recovery and telemetry of the meeting | `api/calendar-meeting.ts`, `operation-telemetry.ts`, `operation-telemetry-collector.ts` |
| `DelegatedTokens` | shared acquisitions and the one sign-in | `api/simulated-user-cba.ts` |
| `OneDriveShare` | share and removal, request by request | `api/onedrive-share-proof.ts` |
| `PrivateDocument` | the private-document runner | `api/private-document-evidence.ts` |
| `TrustedVersion` | the trusted-version lifecycle | `api/sharepoint-trusted-version-lifecycle.ts` |
| `ApiOperations` | the seven above, each in a run of its own | `api/index.ts` |
| `ApiSendingProofs` | theorems about the mails, the meeting and the tokens | |
| `ApiOperationsProofs` | one object each, and the share's invariant | |
| `ApiLifecycleProofs` | the lifecycles, and what all operations promise together | |
| `OperatorPage` | the page over its session, storage and API | `src/app.ts`, `src/api/client.ts`, `src/auth/msal-authentication.ts` |
| `LabRunner` | the lifecycle of the three-VM lab | `scripts/avd-three-vm-runner.ts` |
| `InboxRuleExercise` | the inbox-rule exercise | `scripts/marge-user-inbox-rule-proof.ts` |
| `DeactivationCycle` | the YouTrack deactivation cycle | `scripts/youtrack-deactivated-app-delivery.mjs` |
| `TenantBaselines` | six commands on standing objects of the tenant | `scripts/global-secure-access-baseline.mjs` and five more |
| `SsoProof` | the single sign-on proof on a standing desktop | `scripts/retained-avd-sso-proof.mjs` |
| `DeployKeyProbe` | the deploy-key probe | `scripts/github-deploy-key-probe.mjs` |
| `PasskeyProof` | the passkey registration and its cleanup | `scripts/homer-self-service-auth-proof.mjs` |
| `OperatorSide` | the eight above, each in a run of its own | |
| `OperatorSideProofs` | an inductive invariant of each, and the theorems that join them | |

## Inventory of the system

**Shared operation journal** (`api/shared-operation-journal.ts`).
State: one Azure table row per operation tuple (state, version, lease owner and
expiry, retention, terminal time, ambiguity reason, ETag). Operations:
`acquireDispatch`, `recordTerminal`, `recordAmbiguous`, `resolveAmbiguous`,
`retireTerminal`; each reads once, writes conditionally at most twice, and after
an uncertain write reads exactly once more. Interaction: none but the table;
replicas race through it. Hard: lost replies, late writes, skewed clocks,
takeover of expired leases, a row deleted and created again under one key.
Correct when one owner at most is told to dispatch in a life of the row, answers
agree with the table, the journal can read what it wrote, and every call ends whose
requests do (the table client has no timeout).

**Teams calling canary** (`teams-calling-bot/call-canary.ts`, `journal.ts`).
State: call identity, last state heard, digests of callbacks, the one hang-up,
the window, an exclusive append-only file. Operations: `run`,
`handleNotificationEnvelope`, `shutdown`. Hard: callbacks, run, hang-up and
shutdown interleave at every await; journal writes fail; Graph answers late or
never. Correct when one call and one hang-up are ever sent, each on record
before it leaves, the recorded outcome agrees with Graph, and a known call ends.

**Calling bot process** (`teams-calling-bot/index.ts`, `startup-gate.ts`,
`server.ts`). State: gate, canary, server. It polls its own public revision,
dispatches, routes callbacks, drains on a signal. Hard: restart beside the
journal a crash left; a rejected run looks like a failed probe. Correct when
nothing is placed twice or after a stop, and a stop is held up by nothing but an
open connection or a token request without an answer.
`callback-auth.ts` and `config.ts` verify tokens and parse settings.

**API admission and server lifecycle** (`api/process-admission.ts`,
`api/server.ts`, `api/index.ts`). State: slots by kind and route, the
shutting-down flag, connections. Operations: admit, route, release, drain,
forced exit after ten seconds. Correct when slots never leak or exceed their
limits, a stop owes no answer, and the process ends.

**Calendar meeting** (`api/calendar-meeting.ts`). State: stage and busy flag of
the process-local boundary, the retained event id. Operations: create, cancel
with recovery of a lost id by run marker. Correct when one meeting at most is
created and an uncertain change is never repeated.

**Operation telemetry** (`api/operation-telemetry*.ts`, `api/api-telemetry.ts`).
State: runs that finish once, a bounded collector with an age limit.

**OneDrive share proof** (`api/onedrive-share-proof.ts`). State: busy flag; on
Graph a file and a permission. Share and remove are chains of four to seven
requests, each of which may fail or stay uncertain.

**Private document evidence** (`api/private-document-evidence.ts`). A plan of
mutations, each sent once, reconciled by up to three reads, cleaned up in
reverse order.

**SharePoint trusted version lifecycle**
(`api/sharepoint-trusted-version-lifecycle.ts`). A marker used once per process;
folder, file and versions created, checked and deleted, with cleanup after any
failure.

**Simulated user tokens** (`api/simulated-user-cba.ts`). State: acquisitions
shared per scope, one shared interactive sign-in, the account.

**Mail, help desk and the fixed proofs** (`api/simulated-email.ts`,
`help-desk-scenario.ts`, `todo-task-proof.ts`, `contact-proof.ts`, ...). One small
check-then-act operation each; some retain an id or an uncertainty in memory.

**Single-page application** (`src/app.ts`, `src/api/client.ts`,
`src/auth/msal-authentication.ts`). State: sign-in, one stage per operation kept
in local storage. The stage is made uncertain before the request leaves and is
read again after a reload.

**Lab runner** (`scripts/avd-three-vm-runner.ts`). A frozen plan of mutations
under an expiry timer; each sent once, read three times at most, cleaned up in a
fixed order; `reconcile` after an outcome that is not known. Correct when what
exists can always be found again and a run that calls itself clean is.

**Exercises and proofs of the operator** (`scripts/marge-user-inbox-rule-proof.ts`,
`youtrack-deactivated-app-delivery.mjs`, `retained-avd-sso-proof.mjs`,
`github-deploy-key-probe.mjs`, `homer-self-service-auth-proof.mjs`). Commands that
take something for their own time (a rule, a membership, a session, a key) and
give it back. Hard: a crash or a lost answer at any step, a rerun beside what an
earlier one left, others who use the same mailbox, desktop or account.

**Tenant baselines** (`scripts/global-secure-access-baseline.mjs` and others).
Commands that create or correct standing objects found by name, started again
after a failure, beside other administrators.

**Without a state machine to check**: `api/token-verifier.ts`, `auth-policy.ts`,
`config.ts`, `rehearsal-status.ts`, `src/audit`, `src/validation`,
`src/installation-discovery.ts` (parsing, classification, read-only queries);
most of `scripts/`, and `infra/`, `installation/`, `e2e/` (artifact checks,
reports, templates and tests around the program).

How the parts interact: the page calls the API over HTTP with a token of its
own; the API admits the request, verifies it, and calls one operation, which
takes a delegated token from the provider and calls Graph. The bot is a process
of its own that talks to Graph and hears from it. The shared journal is complete
and tested, but no operation uses it yet: `docs/shared-operation-journal.md`
keeps that for a later goal, so its callers are modelled as anybody who obeys
its interface.

## The shared operation journal

`SharedOperationJournal` follows one row. `Calls` is the set of invocations,
`MayCall` says which operation each may be. A call is `idle`, `reading`,
`writing`, `rechecking` (the read after an uncertain write), `conflicted` (the
read after a 409 or 412), `unnamed` (the read after an insert without an ETag)
or `done`. A reply travels: the service's step puts it into `reply`, a later step of
the caller hears it, and others may write the row in between. Actions and code:

| Action | Code |
|---|---|
| `Invoke` | entry of the five public methods; arguments from small sets |
| `FirstRead` | the first `#read` and all that follows up to the next request: `acquireDispatch`, the guards of the four transitions, `#claimExisting` |
| `GiveUp` | the SDK throws without an answer in `#create`, `#replace`, `deleteEntity` |
| `Recheck` | the one read after that |
| `AfterConflict` | the read in the branch for 409 and 412 |
| `AfterUnnamedCreate` | the read in `#create` when `response.etag` is missing |
| `Hear` | what follows the answer to a write in `#create`, `#replace`, `deleteEntity` |
| `Land` | the table service applies or refuses a request; the reply sets out or is lost |
| `Damage` | another program spoils the row |

A request stays in `wire` until it lands, which may be long after its caller
gave up. Each call has its own clock (`now`), with no relation to any other.
ETags are numbers, used once. History, which no action reads: `born`, the ETag of a row's
first version, tells one life of the row from the next; `applied` are the calls whose
last write took effect, `held` what the row was since a call began, `executor` the
owner under which the present life of the row executed.
Identities, aliases and times of day are abstracted to model values and small
numbers; the key order that `matchesStored` relies on is the same on both sides
and is left out.

`DispatchLedger` says what this is for: an entry is claimed, may change hands
until it is held, and from then on only the holder is told to dispatch. The
refinement mapping is at the end of `SharedOperationJournal`: `told` is the set of
owners of the calls that were told to dispatch in the present life of the row.

### Runs

- `journal_race`: three claims, two owners, two instants, one lease length,
  damage allowed. Three is the least number for a takeover between another's
  read and write with a third one in between. Symmetric in calls and owners.
- `journal_settle`: a claim, a settlement or ambiguity, a resolution or
  retirement, and another claim, in any order: retirement and a new life of the
  row fit in. Symmetric in the two claims and in owners.
- `journal_returns`: one claim and one call of any kind, with inserts that may
  not tell their ETag. A call returns if its own requests end, be it in an error.
  That they end is a condition inside `CallsReturn` and not a fairness assumed of
  the system: the table client is made with `maxRetries: 0` and no timeout
  (`:574-576`), so a request that is never answered holds its call for ever.
  Nothing is assumed of the service or of any other call.
- `journal_unnamed_create` and `journal_claim_again` end in a violation, see
  Findings.

What the properties do not say: `ConflictMeansNotApplied` is about the write whose
refusal is reported. A claim that inserted or took over the row, and is then refused
the move to executing, is told of a conflict although its earlier write stands.
`AnswersProvedByStore` is about the row at some moment of the call: when the answer
is heard, others may have written the row again.

Every call is bounded by the code to two writes, so no counter needs a bound.
Deadlock checking is off: when all calls are done, the system stops.

### Findings

1. *An insert without an ETag is believed unread.* `#create` accepts whatever
   record the read after a successful insert shows (`:480-486`), while
   `docs/shared-operation-journal.md:54-57` has every uncertain create compared
   with what was intended. With a lease that runs out in between, two owners
   dispatch. The proofs of `OneOwner` and its kin therefore assume
   `CreateReturnsEtag`, which Azure Tables grants in its default mode.
2. *A held lease dispatches again to the same alias.* `#claimExisting`
   (`:372-377`) grants dispatch to every claim under the alias that holds the
   unexpired executing lease; `docs/shared-operation-journal.md:45-48` grants it
   only to the transition itself. "One owner" is therefore one alias, and the
   code's promise depends on each process using an alias of its own and
   claiming once.

## The calling bot

`CallingCanary` keeps one program counter for the run (`pc`), one for the hang-up
(`hangup`), and what callbacks change (`callId`, `heard`, `digests`). One action
is what happens between two awaits; a throw is a disjunct. The body's outcome and
its entry in the journal are two steps (`finishing` lies between them), since the
run awaits its body and the process may die there; where the code gets from one
to the other within one turn of the event loop, the model allows more. `file` is the journal
as written, `closed` its descriptor. `phase`, `wire` and `reply` are Graph: calls
and their states, requests under way, an answer on its way back. `posts` and
`deletes` count what was sent. `CallingBot` adds the process: `stage`, the
`gate`, and `starts`.

| Action | Code |
|---|---|
| `TokenArrives`, `TokenRefused` | `#run` around `getToken`, up to the POST |
| `CreateConfirmed`, `CreateRefused`, `CreateUncertain` | the three branches on the answer |
| `Identify`, `Ring`, `End` | the three waits |
| `HangupReturns`, `Complete` | `#hangupAndFinish`, the catch and the last append |
| `LogThrows`, `OpenThrows`, `CallbackThrows`, `DispatchThrows` | an append that throws, in the run, when it opens the file, in a callback, in the dispatch |
| `HangupAnswered`, `HangupUncertain`, `HangupObserved` | `#performHangup`, `#observeCallOnce` |
| `Callback` | `handleNotificationEnvelope` |
| `WindowCloses` | the fifteen seconds since the attempt are over |
| `Dispatch`, `GateRetries`, `GateCloses` | `startup-gate.ts` with the dispatch of `index.ts` |
| `Stop`, `Drain`, `DrainFails`, `Exit` | the shutdown handler of `index.ts` |
| `Start`, `Crash` | the host |

Abstractions: call states are their ranks, of which a run keeps some; an
envelope's digest is the triple of call, state and a body tag (`Bodies`), so
that a state can be reported in two envelopes; an append writes, then syncs
(`journal.ts:102-108`), so one that throws has left its line or not (`left` are the
lines so left, `MaxLeft` their bound), also the first one, of the file it creates; the three
waits of at most fifteen seconds share one window. `Strays` are calls of the same
application whose callbacks reach this process, for instance of an earlier run
with another journal.

### Runs

- `bot_runs`: one stray call, two call states, journal writes that fail without
  their line or (once) with it on file, crashes at every point, one restart: two
  starts are enough to meet the file a first process left, and any later start meets
  the same. Here two calls report to one file, some envelopes again after an append
  that threw. Safety only. `CallbacksTellOneCall` excepts what an append left behind
  that threw: its callback is not remembered, so it may be recorded again.
- `bot_stops`: the bot's own call and a stray one, three call states, writes that
  succeed, one start. Fairness: a run that has its token (`RunOn`), the hang-up, the
  window and the shutdown that waits for them keep going, because the requests to
  Graph (ten seconds) and the waits (fifteen and twenty seconds) are bounded by the
  code. Nothing is assumed of Graph, of callbacks, of the gate; nor of the token
  request, which has no timeout; nor of `Exit`, since `server.close`
  (`index.ts:109-112`) waits for open connections without a timer. `StopDrains`
  therefore says that a process told to stop, unless it still waits for its token,
  has its run and its hang-up behind it, and nothing of the process's end.
  `KnownCallEnds` needs the journal to take its writes: if the append after a
  confirmed create throws, the run is over and nobody hangs up.

## The API process

`ApiServer` follows each request from its arrival on a connection through the
awaits of its handler (`pc`: "verifying" the token, "reading" a body,
"operating") to its answer, and each connection until it is gone.

| Action | Code |
|---|---|
| `Connect` | a client connects; a request may be on its way on a connection that looks idle |
| `Arrive` | `route` up to its first await: shutdown and capacity refusals, `tryAcquire` |
| `Verified`, `BodyRead`, `Operated` | the three awaits of a handler and what follows them, release included |
| `Finish`, `Disconnect` | a response goes through, or its connection is lost |
| `Listen`, `Shutdown`, `CloseFails`, `ListenerCloses`, `Exits`, `ForcedExit` | `index.ts` |

Control traffic (health, preflight, unknown routes) is handled within one
synchronous stretch, so it never holds a slot that another request can see. A
client that disconnects leaves its handler, and with it its lane, at work. A
request admitted before the signal may begin its operation while draining.
Responses on one connection may finish in any order, which is more than HTTP
allows. Create and remove of one proof have route keys of their own, so they may
overlap: `FixedProofs` takes it from there.

The signal closes the connections that are idle. One on which a request has begun to
arrive is kept, as `docs/api-container-lifecycle.md:41` says, and which those are the
server cannot know, so `Shutdown` keeps any set of them beside the busy ones.
`StopLosesNoAnswer` is what this must not break: a listener that reports it stopped
owes nobody an answer.

Run `api_server`: three requests on up to three connections, one route of each
side-effect class, a pure and an operator limit that two requests reach. Fairness: the
armed timer fires, the listener closes with its last connection, and a process that
nothing keeps ends. Nothing is assumed of clients, nor of handlers: token requests and
MSAL's calls pass no signal and have no timeout. So `SignalEndsProcess` has one
exception: the listener stopped, which disarms the forced exit (`index.ts:222`), and a
handler whose client has left never ends. Run `api_drains` is finding 3.

## The operations of the API

Each module is one operation over the part of Microsoft Graph it touches. An
action is what happens between two awaits; a request takes effect and is
answered, is refused, or loses its answer and then takes effect at once, later
or never. Processes restart where the operation keeps memory. History
variables, marked so, tell what was sent, made or seen; no action reads them
except to be bounded.

`ApiOperations` puts the seven next to each other. They share no state in the
code (one process, one object each, one tenant), so a behaviour is about one of
them, named by `part`; the rest keeps its first state. A property that is one
promise made by several is their conjunction. Bounds: two identifiers of
artefacts, three calls and one edit for the fixed proofs (a create, a remove
that overlaps it, and a later call that has to cope); two senders; two meetings,
one restart, three events of which an answer shows two; two scopes, two callers
and three questions, so that one joins another's sign-in and one comes after a
failure; three calls and two acts of the owner for OneDrive; three stale reads
and one late effect for the document; one edit by others for the versions.
Fairness is that of the sign-in page alone, whose visit the provider bounds. The code
exchange, the silent acquisition and the check of the identity have no timeout
(`simulated-user-cba.ts:111-118`, `189`, `227`, `264`), so that every caller is answered
is checked as long as those services answer. With questions without end one scope could
wait for ever behind others; a finite number is checked.

What to know of them:

- `FixedProofs`: a definition that stands for the same code in six files names
  one of them in the project map. An overlapping create and remove of the To Do
  task may leave a stale retained id, which the next call copes with.
  A deletion goes by id but for the file, so what was edited between look and deletion
  goes too, and a category goes by the id retained although the look found nothing
  (`category-proof.ts:71-82`). `shown` keeps what each side of a proof was shown;
  `DeletesOnlyItsOwn` says which of it a deletion may take.
- `CalendarMeeting`: the branch of `create` for an id it already has cannot be
  reached behind the boundary. An answer of 4xx is taken to mean no effect.
- `PrivateDocument`: an append to the run's journal that throws rejects `run()`
  without any cleanup; the claims are about what it returns.
- `TrustedVersion`: a version write whose answer was lost leaves the run with
  the old eTag, so its cleanup ends in a 412 and says that it is incomplete.
- `OneDriveShare`: of the refusals of a revoke or delete only the 412 is a conflict
  (`Refusal`). Run `onedrive_conflict` is finding 4.

## The operator's side

`OperatorPage` is one tab: what it shows, the stage of every operation in memory
and in storage, MSAL's active account and cache, one operation under way at a
time and the requests the API may still handle. `LabRunner`,
`InboxRuleExercise`, `DeactivationCycle`, `TenantBaselines`, `SsoProof`,
`DeployKeyProbe` and `PasskeyProof` are the commands, each with the objects it
works on, its own death or failure at any step and its being started again.
`OperatorSide` joins the eight as `ApiOperations` does its seven. Every property
is one of safety, and no fairness is assumed.

Bounds: two accounts, one operation of each family, two clicks and three loads
(an operation, a reload, the operation again, a reload); four calls of the lab
runner; four commands, four reads of a poll and two acts of others for the inbox
rule; three failing requests for the cycle; two starts, one failing request and
one change by others per baseline, which may fall between two readings; nine reads
while the permission is given back
(the five absences in a row that the code asks for, after four stale ones); three
commands and two sessions for single sign-on; three runs and two clone attempts
for the deploy key; three passkeys and three commands.

What to know of them:

- `OperatorPage`: a second tab is not modelled; with one, a tab whose stage is
  stale may write "not-started" over another's "configured". A token failure
  stores "uncertain" for calendar, contact and the fixed proofs though nothing
  was sent; OneDrive keeps it in memory only. A cancelled help-desk send cannot
  be tried again until the page is loaded anew. The internal mail may be repeated as
  often as it is clicked, and a reload forgets that a help-desk mail may have gone
  out: only the stored creates are guarded across loads.
- `LabRunner`: the three reads of a mutation count those before a cleanup, those
  of `reconcile` and the verification, so a cleanup may get stuck at the limit
  with everything in place. A read is counted before its entry is written, and
  the append may throw (`ReadThrows`). `#markerChecked` is set before the look at
  the marker, so a look that throws is not made again. Once a mutation takes effect
  that the runner had given up (`overtaken`), nothing is promised of the run: its
  cleanup may have removed the timer before the computers came to stand.
- `InboxRuleExercise`: a read mark may also be Marge's own; mail may arrive after
  a confirmed cleanup. While a rule stands for which a marker message was sent
  (`guarded`) none is sent again; when a cleanup or Marge has removed the rule the
  next run sends another, also while the first is still on its way.
- `DeactivationCycle`: when the cycle has thrown, the errors of its cleanup are
  not reported. A removal that was given up may take effect later (`strayed`).
  `restoration` tells an attempt that failed ("refused") from none at all because
  the membership could not be read ("untried"); with either, and with a removal
  that landed late, Kobe stays out.
- `TenantBaselines`: up to four stale reads are assumed, a lookup by name is
  taken as consistent. At its end a command reads its objects one request after
  another, and others may change them in between: `vouched` are the readings whose
  object nobody changed since, and `Holds` says of each what its command demands.
  What changed after its reading goes unnoticed, in the code as here. The TLS part
  of `rachel-gsa-standing.mjs` reads nothing again, and the list of what the
  student part created (`student-changes.json`, written once at the end) is left out. The temporary permission stays for
  one of three reasons: its request failed though the role was assigned
  ("unheard"), no token ever came to carry it ("undelivered",
  `global-secure-access-baseline.mjs:114-122`), or its removal was given up
  ("abandoned"). `createIntuneApp` that fails between app and upload leaves an
  app that a rerun adopts and never fills, and `entra-security-baseline.mjs`
  that fails between two policies can neither create the rest nor enable: both
  commands then never end well, which is what `DoneMeansExact` demands.
- `SsoProof`: a command that dies before it saw its session leaves one that no
  cleanup may remove. A placeholder that another command saw less than fifteen
  minutes ago gives up any session of the actor.
- `DeployKeyProbe`: a key that was made but not confirmed stays, and every later
  run refuses its baseline.
- `PasskeyProof`: the look at the page, the click on a delete button and its
  confirmation are three steps, as they are three awaits. If the actor exchanges
  the passkeys between look and click (`swapped`), an unmarked one may go.
  A registration that dies before the passkey is named leaves one
  that neither mode accepts. The name is the run id cut to thirty characters,
  which for Rachel leaves out the seconds.

### Findings

3. *A listener that stopped has not drained.* `server.close` waits for
   connections; the handler of a client that went away has none. The process
   reports "stopped" and lets the timer go while that handler works on
   (`api/index.ts:220`), where `docs/api-container-lifecycle.md:14-19` has the
   listener close after the admitted requests drain, and a forced exit bound
   those that do not.
4. *"Nothing was changed."* The removal of the OneDrive proof may end in a
   conflict after it revoked Marge's permission (`api/onedrive-share-proof.ts:174`);
   the page (`src/api/client.ts:813`) then says that nothing was changed.

## What is proved

Every safety property that a passing run checks is a theorem: for every value of
the constants that satisfies the module's assumptions, not for the small instance
only. The bounds of the runs are constants of the models too, so a theorem holds
for any number of calls, faults, reruns and restarts. Two
hypotheses come on top, both named below: that an insert tells its ETag (most
theorems of the journal) and that reads lag no longer than an absence is read
(`CleanupIsClean`).

What the assumptions say. `JournalAssumption`, `CanaryAssumption`,
`BotAssumption`, `ServerAssumption`, `OperationsAssumption` and
`OperatorSideAssumption` give the constants their kinds (bounds are numbers, sets
of identifiers are finite, a subset of the kinds, families and operations the
code knows) and keep names apart: what Graph or an operator may name is none of
the words a module uses beside such names ("none", "unclear", "refused" and the
like), which in the code are `undefined`, other fields or other types.

**The journal**, for any set of calls, owners, clocks, leases and any retention:

- `LedgerTellsOneOwner`: the ledger tells at most one owner. Inductive because
  nobody is told before the entry is held, and then only its holder.
- `JournalTyped`: `TypeOK` is an invariant.
- `JournalReadsItsWrites`: what the journal stored, it can read.
- `OneOwner`: one owner per life of the row.
- `ConflictsAreReal`: the write whose refusal is reported was not applied and never
  will be; an earlier write of the same claim may stand. This one needs
  nothing of inserts. `ConflictInv` says why: a call is told of a conflict only
  after the service refused its write, a request lands once, and a caller that
  lost a reply does not hear of it again.
- `AnswersAreProved`: whatever a call answers, the row was at some moment of the
  call (`held`); others may have written it by the time the answer is heard.
  `AnswerInv` ties what each call is writing to the question it was asked
  (`LegalAnswer`), so that the read after an uncertain write compares the row with
  the right record, and a reply on its way to a version the row has been at.
- `JournalImplementsLedger`: each step is a step of `DispatchLedger` or leaves it
  as it was. `JournalTellsOneOwner` then gets the ledger's theorem for the journal
  without another induction.

But for `ConflictsAreReal` they are proved where inserts tell their ETag
(`ASSUME CreateReturnsEtag`), the assumption finding 1 shows to be needed. They
rest on one inductive invariant, `IInv`. `OneOwnerPerLife` says nothing of what is
still on the wire, so it cannot be inductive: a request sent by a call that gave
up may land at any time. `IInv` adds that every request and every write names a
base the row once was, that a row whose ETag is still that base *is* that base
record, so that a write that applies moves the row from a state in which its
sender was entitled to it; and that once a row is executing its owner never
changes until it leaves that state, to which it never returns in the same life.
One lemma per kind of write states what its landing does, one per caller's step
that it sends and returns only what the invariant allows.

**The calling bot**, for any stray calls, ranks, envelopes and number of starts,
with or without failing writes: every safety property the two runs check, namely
`BotTypesHold`, `OneCallHolds`, `OnRecordHolds`, `RefusedHolds`, `EndedHolds`,
`CallbacksHold` and, as a property of steps, `StopHolds`. Their inductive
invariant relates what the process remembers, what is under way to Graph and what
the file says:

- `RunOK`: nothing was sent while the file is empty, and a run that holds its
  token has a fresh file. As a canary is only made where the exclusive create
  succeeds, this carries "once" over crashes. Within one life, no hang-up was
  sent while `hangup` is "none".
- `RefusedOK`: before a request is sent, and from the moment Graph declined it
  or the run gave up without it, the call is not placed and nothing under way
  can place it.
- `EndedOK`: the terminal state is only heard of a call that is over; once a
  create is confirmed the run's call is the bot's own; no outcome is on record
  while the run is still going.
- `RecordOK`: every callback that was accepted is remembered, so the next one is
  measured against all of them. What is on record without being remembered was left
  there by an append that threw, and `CallbacksHold` promises nothing of it.
- `StopOK`: a run that holds its token when the signal comes is told so.

`Adds(E)` is all the proofs know of an append that returns: what is on record
afterwards, and that only its first entry can be a callback. `RunMoves(E)` is what every step of
the run but the first and the last amounts to; `RunStep` proves the invariant
for it once, and each action is shown to be an instance.

**The API process**, for any finite set of requests, any routes of the contract
and any limits:

- `CountersRight`: the admission counters say how many handlers are under way
  (`SlotsMatchHandlers`). `Inv` adds that a handler under way has an operator
  route. Every step does one of three things to the counters, `Begins`, `Ends` or
  `Stays`, and one lemma each shows that it keeps `Inv`.
- `MutationsNeverOverlap`: `MutationsExclusive`, from `Inv` and `WithinLimits`.
- `StopOwesNoAnswer` (`StopLosesNoAnswer`). `StopInv`: an answer that is due has its
  connection, and a listener that stopped has none left; the connections that the
  shutdown closes are those of which nothing is due.
- `OneRecord` and `ServerTyped`, from `RecordInv`: how far a request's handler is
  tells what its response and its connection are, so no second end is reported of
  one that is already finished or closed.

**The operations of the API.** An operation's variables change by its own steps
only (`EachSteps`), so each has an invariant of its own; a theorem about several
joins them.

- `SendingKnown` (`KnowsWhatWasSent`). `MailInv`: while the help desk sends, one
  call alone is busy and what is posted is that call's. `StageInv` and
  `CollectorInv`: a busy boundary has already left the stage of its act behind
  it, so a stage that says an act may be begun finds nothing of it sent.
- `TelemetryIsTrue` (`TelemetryTruthful`). `TelemetryInv` gives the log of a
  meeting its shape (`Shape`: so many events of the create, then so many of the
  cancel, as the stage tells) and ties each outcome in it to what landed and what
  may still land. What an operator reads is always the end of that log.
- `TokensAreOwn` (`TokenForOwnScope`), which is inductive with its types.
- `OneObjectEach` (`OneObject`). `OneObject` counts objects; `MadeInv` counts what
  was made, what may still be made unheard and what a create that found nothing
  may make, together, since a request whose answer was lost may land after its
  create has ended.
- `CallsDoHeal` (`CallsHeal`). `HealthyInv` says what an undisturbed fixed proof
  knows between a look and its request; `SoundInv`, what each phase of an
  undisturbed share knows of the file and of Marge's access.
- `DeletionsAreOwn` (`DeletesOnlyItsOwn`, a property of steps), from
  `FixedInv`, `ShareInv` and `TrustedInv`: an eTag that a deletion names belongs
  to a version that may be deleted, and every change by others gives a new one.
  `ShownInv`: what a removal aims at it has made or was shown exact before (`Known`);
  the kinds that are deleted by id are so whether edited since or not.
- `CleanupIsClean` (`CleanupLeavesNothing`), from `TrustedInv` and `DocumentInv`,
  with the hypothesis `MaxLag <= AbsenceReads`: the private document takes an
  object for gone when it was read absent three times in a row. `GoneInv` relates
  the number of those reads to how often the object may still read as it was. With
  reads that lag more often than they are made no code can tell: with `MaxLag` at
  four TLC finds such a run at once, and `api_operations` has it at three, the
  most that the hypothesis allows.
- `OperationsTyped`.

**The operator's side**, in the same way, one invariant for each part:

- `FallsSilent` and `RepeatsNothing` (`SilentAfterSignOut`,
  `NothingRepeatedBlindly`, properties of steps). `SessionInv`: a session is one
  account's, and a run that asks for a token has lost it with the session.
  `OwedInv`: a create that may have happened keeps its operation from being begun
  again in three places, the storage, the memory of the page and the run that is
  already asking for a token; the internal mail is exempt, and of the help-desk mail
  it holds within one load. `ExerciseInv` does the rest for the rule's message:
  nothing is sending while a rule stands for which a message went out.
- `NothingIsOrphaned` (`NothingOrphaned`), of the lab until a mutation takes effect
  that was given up. `LabCore` follows the plan: what has
  been deployed and cleaned, which request is out, and that the expiry timer is
  the first thing made and the last one removed. `TracesInv` is the receipt's part.
- `ReportsAreTrue` (`CompletedMeansClean`): `LabCore`, `ExerciseInv`, `CycleInv`
  and `GoodInv`. For the cycle: what each step so far has delivered to the
  receiver, and that the verdict is the last thing a cycle does. For single
  sign-on: from the tidying of the guest on, the guest is clean or its error known.
- `AllIsGivenBack` (`GivenBack`): `MemberInv`, `PermInv`, `TodoInv`, `RecordInv`,
  `ProbeInv`, `PasskeyInv`, each with the failures the code has no answer to, which
  the property names. `PermInv`: while a temporary permission is assigned and
  its removal still due, a command runs that knows of it. `TodoInv`: what is still
  to do are steps of the family's commands in their order, which is what lets a
  permission not outlive the step that gives it back. `ClickedInv`: what a click has
  aimed at is marked or was exchanged after the look.
- `BaselinesAreExact` (`BaselinesExact`). `MadeInv`: an object that is missing has
  never been made, nor has one that a command saw missing and has yet to make.
  `VerifyInv`: of each object that nobody changed since, a command has its reading
  still before it, or what it read still holds and nothing but readings comes
  after; so none ends well on what it only meant to leave. TLS is exempt, as its
  command reads nothing again.
- `OperatorSideTyped`.

Only model-checked: the five liveness properties (`CallsReturn`, `KnownCallEnds`,
`StopDrains`, `SignalEndsProcess`, `CallersAnswered`), which are beyond the
prover, and the four findings, which are counterexamples.

## Not modelled

- Verification of tokens and callbacks, configuration, route contract, rehearsal
  status, audit, validation and discovery: parsing, comparison and queries.
- Rendering, texts and layout of the page; request bodies, error evidence and
  redaction everywhere.
- `validateScenario` and `validateTerminalReplay` of the lab runner: checks of a
  document as a whole.
- `scripts/preview-calendar-reset.ts` and the other previews and readiness
  checks: they read and classify, and change nothing.
- The container, artifact and provenance scripts, `codex-session-report.ts` and
  `development-key-vault.mjs`: data in, data out.
- Templates under `infra/` and `teams-calling-bot/deploy/`.

## What is left to do

In order of weight:

1. A second tab for `OperatorPage`.
2. The desktop part of `rachel-gsa-standing.mjs`, and the static validation of a
   scenario in the lab runner.
3. The three hazards without a property. The models have these behaviours and the
   code no remedy, so that a property would have to except what the hazard is about:
   an append that throws after a confirmed create, or a hang-up that reports to a
   closed journal (`call-canary.ts:227`); a mutation that takes effect after it was
   given up (`avd-three-vm-runner.ts:914`); and a cleanup stuck at the limit of
   reads (`:918`).
