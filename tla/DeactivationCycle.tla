--------------------------- MODULE DeactivationCycle ---------------------------
(***************************************************************************)
(* The YouTrack deactivation cycle (scripts/                               *)
(* youtrack-deactivated-app-delivery.mjs): runCycle installs a temporary   *)
(* app, configures it as Kobe with a temporary token, lets it deliver      *)
(* once, takes Kobe out of the entitlement group, waits until SCIM has     *)
(* banned him, lets the app deliver again, and in a finally puts back the  *)
(* group, the tokens and the app.  No mutation is retried: a failed one is *)
(* read back.  A request may fail before or after it takes effect, or take *)
(* effect once the cycle no longer waits for it.                           *)
(***************************************************************************)
EXTENDS Naturals, Sequences, FiniteSets

CONSTANT MaxFaults  \* bound: requests that fail

VARIABLES
  there,      \* what exists: Kobe's membership, the app, its token, its marker
  banned,     \* Kobe at YouTrack
  provision,  \* what a running SCIM job will make of it, or "none"
  receiver,   \* checkpoints that were delivered
  astray,     \* mutations without an answer that may still take effect
  strayed,  \* history: one did
  restoration, \* history: how that of the group failed: "untried", "refused" or "no"
  step,       \* the next step of runCycle
  thrown,    \* the try block has thrown
  cleanupErrors,
  authorized, \* cleanups that the finally block will do
  verdict,    \* of the cycle
  faults

cycleVars == <<there, banned, provision, receiver, astray, strayed, restoration, step, thrown,
               cleanupErrors, authorized, verdict, faults>>

-----------------------------------------------------------------------------
(* The steps, in their order.                                              *)

\* Before each mutation its cleanup is authorized.
Order ==
  <<"precheck", "authorize app", "install app", "authorize token", "create token", "configure",
    "drop token", "deliver 1", "authorize group", "leave group", "nudge", "await ban", "recheck",
    "deliver 2">>

Finally == <<"restore group", "nudge again", "await return", "drop tokens", "delete app">>

IndexIn(order, s) == CHOOSE i \in DOMAIN order : order[i] = s
In(order, s) == \E i \in DOMAIN order : order[i] = s

NeededFor(s) ==
  CASE s \in {"restore group", "nudge again", "await return"} -> "group"
    [] s = "drop tokens" -> "token" [] OTHER -> "app"

\* The next step of the finally block that is authorized.
FinallyFrom(i) ==
  LET left == {k \in i..Len(Finally) : NeededFor(Finally[k]) \in authorized} IN
  IF left = {} THEN "final" ELSE Finally[CHOOSE k \in left : \A m \in left : k <= m]

Goes ==
  /\ UNCHANGED <<thrown, cleanupErrors, verdict>>
  /\ step' = IF In(Order, step)
             THEN IF step = "deliver 2" THEN FinallyFrom(1) ELSE Order[IndexIn(Order, step) + 1]
             ELSE FinallyFrom(IndexIn(Finally, step) + 1)

\* A throw in the try block enters the finally block; there it is collected.
\* configureApp has a finally of its own, which drops the token first.
Throws ==
  /\ UNCHANGED verdict
  /\ IF In(Order, step)
     THEN /\ thrown' = TRUE /\ UNCHANGED cleanupErrors
          /\ step' = IF step \in {"create token", "configure"} THEN "drop token" ELSE FinallyFrom(1)
     ELSE /\ cleanupErrors' = TRUE /\ UNCHANGED thrown
          /\ step' = FinallyFrom(IndexIn(Finally, step) + 1)

-----------------------------------------------------------------------------
(* One mutation, never retried, and its read-back.                         *)

Effect(m) ==
  CASE m = "install app" -> there \cup {"app"}
    [] m = "create token" -> there \cup {"token"}
    [] m = "configure" -> there \cup {"marker"}
    [] m \in {"drop token", "drop tokens"} -> there \ {"token"}
    [] m = "leave group" -> there \ {"member"}
    [] m = "restore group" -> there \cup {"member"}
    [] m = "delete app" -> there \ {"app", "marker"}

Mutates(s) ==
  s \in {"install app", "create token", "configure", "drop token", "leave group", "restore group",
         "drop tokens", "delete app"}

\* What is left when nothing needs the mutation.
Needless(m) == m \in {"drop token", "drop tokens", "restore group", "delete app"} /\ Effect(m) = there

\* The read that decides whether a mutation was accepted; a token whose answer
\* is lost is of no use even if it exists.
Accepted(m, heard) == Effect(m) = there' /\ (m = "create token" => heard)

MutationReturns(m, heard) ==
  /\ IF Accepted(m, heard) /\ ~(m = "drop token" /\ thrown) THEN Goes ELSE Throws
  /\ restoration' = IF m = "restore group" /\ ~Accepted(m, heard) THEN "refused" ELSE restoration
  /\ UNCHANGED <<banned, provision, receiver, strayed, authorized>>

Mutate ==
  LET m == step IN
  /\ Mutates(m)
  /\ \/ there' = Effect(m) /\ UNCHANGED <<astray, faults>> /\ MutationReturns(m, TRUE)
     \/ /\ ~Needless(m) /\ faults < MaxFaults /\ faults' = faults + 1
        /\ \/ there' \in {there, Effect(m)} /\ UNCHANGED astray
           \/ UNCHANGED there /\ astray' = astray \cup {m}
        /\ MutationReturns(m, FALSE)

\* A read that fails: the one before a mutation, after which that is not tried, or
\* the one after it, which then counts as not done though it may be.
ReadFails ==
  /\ step \notin {"final", "ended", "authorize app", "authorize token", "authorize group",
                 "deliver 1", "deliver 2"}
  /\ faults < MaxFaults /\ faults' = faults + 1 /\ Throws
  /\ \/ UNCHANGED there /\ restoration' = IF step = "restore group" THEN "untried" ELSE restoration
     \/ /\ Mutates(step) /\ ~Needless(step) /\ there' = Effect(step)
        /\ restoration' = IF step = "restore group" THEN "refused" ELSE restoration
  /\ UNCHANGED <<banned, provision, receiver, astray, strayed, authorized>>

Land ==
  /\ \E m \in astray : there' = Effect(m) /\ astray' = astray \ {m}
  /\ strayed' = TRUE
  /\ UNCHANGED <<banned, provision, receiver, restoration, step, thrown, cleanupErrors, authorized,
                 verdict, faults>>

-----------------------------------------------------------------------------
(* The other steps.                                                        *)

Authorizes(s) ==
  CASE s = "authorize app" -> "app" [] s = "authorize token" -> "token" [] OTHER -> "group"

Authorize ==
  /\ step \in {"authorize app", "authorize token", "authorize group"}
  /\ authorized' = authorized \cup {Authorizes(step)} /\ Goes
  /\ UNCHANGED <<there, banned, provision, receiver, astray, strayed, restoration, faults>>

\* Kobe must begin as a member, active, without app, token or delivery.
Precheck ==
  /\ step = "precheck"
  /\ (IF there = {"member"} /\ ~banned /\ receiver = <<>> THEN Goes ELSE Throws)
  /\ UNCHANGED <<there, banned, provision, receiver, astray, strayed, restoration, authorized, faults>>

\* A restart of the SCIM job is a nudge; its failure is only logged.
Nudge ==
  /\ step \in {"nudge", "nudge again"} /\ Goes
  /\ UNCHANGED <<there, banned, provision, receiver, astray, strayed, restoration, authorized, faults>>

AwaitBanned ==
  /\ step \in {"await ban", "await return"}
  /\ \/ banned = (step = "await ban") /\ Goes /\ UNCHANGED faults
     \/ banned # (step = "await ban") /\ faults < MaxFaults /\ faults' = faults + 1 /\ Throws
  /\ UNCHANGED <<there, banned, provision, receiver, astray, strayed, restoration, authorized>>

Recheck ==
  /\ step = "recheck" /\ (IF {"app", "marker"} \subseteq there THEN Goes ELSE Throws)
  /\ UNCHANGED <<there, banned, provision, receiver, astray, strayed, restoration, authorized, faults>>

\* deliverOnce believes the receiver, not YouTrack's answer; if the receiver
\* cannot be read, it throws.
Deliver ==
  /\ step \in {"deliver 1", "deliver 2"}
  /\ \/ {"app", "marker"} \subseteq there /\ receiver' = Append(receiver, step) /\ Goes /\ UNCHANGED faults
     \/ faults < MaxFaults /\ faults' = faults + 1 /\ Throws /\ receiver' \in {receiver, Append(receiver, step)}
  /\ UNCHANGED <<there, banned, provision, astray, strayed, restoration, authorized>>

\* A cleanup error is named only when the try block has not thrown.
FinalChecks ==
  /\ step = "final" /\ step' = "ended"
  /\ verdict' = IF ~thrown /\ cleanupErrors THEN "cleanup failed"
                ELSE IF ~thrown /\ there = {"member"} /\ ~banned THEN "baseline restored" ELSE "failed"
  /\ UNCHANGED <<there, banned, provision, receiver, astray, strayed, restoration, thrown,
                 cleanupErrors, authorized, faults>>

\* SCIM looks at the group and, later, writes what it saw.
ScimReads ==
  /\ provision = "none" /\ banned # ("member" \notin there)
  /\ provision' = IF "member" \in there THEN "activate" ELSE "ban"
  /\ UNCHANGED <<there, banned, receiver, astray, strayed, restoration, step, thrown, cleanupErrors,
                 authorized, verdict, faults>>

ScimWrites ==
  /\ provision # "none" /\ provision' = "none" /\ banned' = (provision = "ban")
  /\ UNCHANGED <<there, receiver, astray, strayed, restoration, step, thrown, cleanupErrors, authorized,
                 verdict, faults>>

Init ==
  /\ there \in {{"member"}, {}, {"member", "app"}, {"member", "token"}} /\ banned \in BOOLEAN
  /\ provision = "none" /\ receiver = <<>> /\ astray = {} /\ strayed = FALSE /\ restoration = "no"
  /\ step = "precheck" /\ thrown = FALSE /\ cleanupErrors = FALSE /\ authorized = {}
  /\ verdict = "none" /\ faults = 0

Next ==
  \/ Mutate \/ ReadFails \/ Land \/ Authorize \/ Precheck \/ Nudge \/ AwaitBanned \/ Recheck
  \/ Deliver \/ FinalChecks \/ ScimReads \/ ScimWrites

Spec == Init /\ [][Next]_cycleVars

TypeOK ==
  /\ there \subseteq {"member", "app", "token", "marker"} /\ authorized \subseteq {"app", "token", "group"}
  /\ provision \in {"none", "ban", "activate"} /\ Len(receiver) <= 2
  /\ step \in {Order[i] : i \in DOMAIN Order} \cup {Finally[i] : i \in DOMAIN Finally} \cup {"final", "ended"}

\* Whatever step fails, a cycle that found Kobe in the group and has ended has
\* him in the group again, but for three cases: the membership could not even be
\* read, so that no restoration was tried; the restoration failed, or could not be
\* read back; a removal that was given up took effect later.
KobeReturns ==
  step = "ended" /\ authorized # {} /\ restoration = "no" /\ ~strayed => "member" \in there

\* A cycle that reports the baseline restored has delivered once before the ban
\* and once under it, and left Kobe active and a member, and neither app nor
\* token, unless a mutation that was given up took effect later.
RestoredMeansRestored ==
  verdict = "baseline restored" /\ ~strayed =>
    receiver = <<"deliver 1", "deliver 2">> /\ there = {"member"} /\ ~banned

=============================================================================
