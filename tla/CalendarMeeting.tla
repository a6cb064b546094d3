--------------------------- MODULE CalendarMeeting ---------------------------
(***************************************************************************)
(* The calendar rehearsal (api/calendar-meeting.ts): a process-local       *)
(* boundary that lets one create and one cancel through, the operation     *)
(* that creates a meeting at Graph, recovers its id after a lost answer    *)
(* and cancels it, and the telemetry the operation leaves behind           *)
(* (api/operation-telemetry.ts, api/operation-telemetry-collector.ts).     *)
(***************************************************************************)
EXTENDS Naturals, Sequences, FiniteSets

CONSTANTS
  Meetings,     \* ids Graph may give
  MaxEvents,    \* 64 in the code: events the collector holds
  MaxRead,      \* events that fit an answer (16 KiB in the code)
  MaxAge,       \* 15 minutes in the code
  MaxClock,     \* bound: the clock
  MaxRestarts   \* bound: restarts

VARIABLES
  stage,      \* #stage of the boundary
  act,        \* "none" (not #busy), "create" or "cancel"
  at,         \* "idle", "token", "recovering", "sent"
  eventId,    \* #eventId
  meeting,    \* Graph: id -> "none", "live", "cancelled"
  wire,       \* requests Graph may still act upon: [op, id, mine]; mine: of this process
  heard,      \* the answer to the request of act: the new id, "done", or what went wrong
  run,        \* the telemetry run: recoveryState
  log,        \* events emitted by the process, oldest first
  collected,  \* those the collector holds, with their times
  clock,
  restarts,
  sent,       \* history: requests sent by this process, per act
  landed      \* history: acts whose request took effect

boundary == <<stage, act>>
telemetry == <<run, log, collected>>
calendarVars == <<boundary, at, eventId, meeting, wire, heard, telemetry, clock, restarts, sent, landed>>

NoMeeting == "none"
Acts == {"create", "cancel"}
Stages == {"not-started", "uncertain", "configured", "cancellation-uncertain", "cancellation-accepted"}

-----------------------------------------------------------------------------
(* Telemetry. *)

\* The clock never goes back, so what is too old to keep comes first.
Pruned(c) == SubSeq(c, Cardinality({k \in DOMAIN c : c[k].time + MaxAge < clock}) + 1, Len(c))

RecordEvents_OneTooMany(c, events) ==
  LET all == Pruned(c) \o [k \in 1..Len(events) |-> [time |-> clock, event |-> events[k]]]
  IN  SubSeq(all, IF Len(all) > MaxEvents THEN Len(all) - MaxEvents ELSE 1, Len(all))

\* The oldest go when there are too many.
RecordEvents(c, events) ==
  LET all == Pruned(c) \o [k \in 1..Len(events) |-> [time |-> clock, event |-> events[k]]]
  IN  SubSeq(all, IF Len(all) > MaxEvents THEN Len(all) - MaxEvents + 1 ELSE 1, Len(all))

Emit(events) ==
  /\ log' = log \o events
  /\ collected' = RecordEvents(collected, events)

\* An answer leaves out the oldest until it fits.
Snapshot ==
  LET fresh == Pruned(collected)
      kept == SubSeq(fresh, IF Len(fresh) > MaxRead THEN Len(fresh) - MaxRead + 1 ELSE 1, Len(fresh))
  IN  [k \in 1..Len(kept) |-> kept[k].event]

Phase(a) == IF a = "create" THEN "execution" ELSE "cleanup"
Started(a) == [op |-> a, phase |-> Phase(a), outcome |-> "started",
               ambiguity |-> "none", recovery |-> "not-applicable"]
Finished(a, outcome, ambiguity, recovery) ==
  [op |-> a, phase |-> Phase(a), outcome |-> outcome, ambiguity |-> ambiguity, recovery |-> recovery]
RecoveryStarted == [op |-> "cancel", phase |-> "recovery", outcome |-> "started",
                    ambiguity |-> "none", recovery |-> "in-progress"]
RecoveryFinished(outcome, ambiguity, recovery) ==
  [op |-> "cancel", phase |-> "recovery", outcome |-> outcome,
   ambiguity |-> ambiguity, recovery |-> recovery]

-----------------------------------------------------------------------------
(* The boundary: a call during another, or out of its stage, is refused and *)
(* changes nothing.                                                         *)

Begin_StageAfterwards(a, attempted) ==
  /\ act = "none" /\ act' = a /\ UNCHANGED stage
  /\ at' = "token" /\ run' = "not-needed" /\ Emit(<<Started(a)>>)
  /\ UNCHANGED <<eventId, meeting, wire, heard, clock, restarts, sent, landed>>

Begin(a, attempted) ==
  /\ act = "none" /\ act' = a /\ stage' = attempted
  /\ at' = "token" /\ run' = "not-needed" /\ Emit(<<Started(a)>>)
  /\ UNCHANGED <<eventId, meeting, wire, heard, clock, restarts, sent, landed>>

Create == stage = "not-started" /\ Begin("create", "uncertain")

Cancel ==
  /\ stage \notin {"cancellation-uncertain", "cancellation-accepted"}
  /\ Begin("cancel", "cancellation-uncertain")

Leave(reached) ==
  /\ act' = "none" /\ at' = "idle" /\ heard' = "none" /\ run' = "not-needed"
  /\ stage' = reached

-----------------------------------------------------------------------------
(* The operation. *)

\* finishUnexpected before a mutation was attempted.
TokenFails ==
  /\ at = "token" /\ Leave(stage) /\ Emit(<<Finished(act, "refused", "none", "not-needed")>>)
  /\ UNCHANGED <<eventId, meeting, wire, clock, restarts, sent, landed>>

Send(id) ==
  /\ at' = "sent" /\ wire' = wire \cup {[op |-> act, id |-> id, mine |-> TRUE]}
  /\ sent' = [sent EXCEPT ![act] = @ + 1]

TokenArrives ==
  /\ at = "token"
  /\ \/ /\ act = "create" \/ eventId # NoMeeting
        /\ Send(IF act = "create" THEN NoMeeting ELSE eventId)
        /\ UNCHANGED <<run, log, collected>>
     \/ /\ act = "cancel" /\ eventId = NoMeeting
        /\ at' = "recovering" /\ run' = "unresolved" /\ Emit(<<RecoveryStarted>>)
        /\ UNCHANGED <<wire, sent>>
  /\ UNCHANGED <<boundary, eventId, meeting, heard, clock, restarts, landed>>

Marked == {i \in Meetings : meeting[i] # "none"}

\* Exactly one event bears the marker, unchanged and not cancelled.
Recovers ==
  /\ at = "recovering"
  /\ \E i \in Marked :
       /\ Marked = {i} /\ meeting[i] = "live"
       /\ eventId' = i /\ run' = "reconciled"
       /\ Emit(<<RecoveryFinished("succeeded", "none", "reconciled")>>)
       /\ Send(i)
  /\ UNCHANGED <<boundary, meeting, heard, clock, restarts, landed>>

RecoveryRefused(outcome) ==
  /\ Leave(stage)
  /\ Emit(<<RecoveryFinished(outcome, "unresolved", "unresolved"),
            Finished("cancel", "refused", "unresolved", "unresolved")>>)
  /\ UNCHANGED <<eventId, meeting, wire, clock, restarts, sent, landed>>

FindsNoneOrSeveral ==
  /\ at = "recovering"
  /\ ~ \E i \in Marked : Marked = {i} /\ meeting[i] = "live"
  /\ RecoveryRefused("refused")

\* A refused, failed or incomprehensible read.
RecoveryReadFails ==
  at = "recovering" /\ \E o \in {"refused", "ambiguous"} : RecoveryRefused(o)

Outcome_RefusedUnlessThrown(answer) ==
  IF answer \in Meetings \cup {"done"} THEN "succeeded" ELSE IF answer = "thrown" THEN "ambiguous" ELSE "refused"

\* finishMutationResponse, finishUnexpected.
Outcome(answer) ==
  CASE answer \in Meetings \cup {"done"}          -> "succeeded"
    [] answer = "refused"                         -> "refused"
    [] answer \in {"inexact", "failed", "thrown"} -> "ambiguous"

Finish(answer) ==
  LET o == Outcome(answer) IN
  /\ Leave(IF o # "succeeded" THEN stage
           ELSE IF act = "create" THEN "configured" ELSE "cancellation-accepted")
  /\ Emit(<<Finished(act, o, IF o = "ambiguous" THEN "possible-mutation" ELSE "none", run)>>)

Hears ==
  /\ at = "sent" /\ heard # "none"
  /\ Finish(heard)
  /\ eventId' = IF heard \in Meetings THEN heard ELSE eventId
  /\ UNCHANGED <<meeting, wire, clock, restarts, sent, landed>>

\* The fetch throws; the request may still be acted upon.
Lost ==
  /\ at = "sent" /\ Finish("thrown")
  /\ UNCHANGED <<eventId, meeting, wire, clock, restarts, sent, landed>>

-----------------------------------------------------------------------------
(* Graph, the user, time and the process. *)

Awaits(q) == q.mine /\ at = "sent" /\ act = q.op /\ heard = "none"

\* A 4xx is a definite refusal; a 5xx or a 2xx of another shape may follow an effect.
GraphActs(q) ==
  /\ wire' = wire \ {q}
  /\ \E i \in Meetings :
       /\ IF q.op = "create"
          THEN meeting[i] = "none" /\ meeting' = [meeting EXCEPT ![i] = "live"]
          ELSE i = q.id /\ meeting[i] = "live" /\ meeting' = [meeting EXCEPT ![i] = "cancelled"]
       /\ IF Awaits(q)
          THEN heard' \in {IF q.op = "create" THEN i ELSE "done", "inexact", "failed"}
          ELSE UNCHANGED heard
  /\ landed' = IF q.mine THEN landed \cup {q.op} ELSE landed
  /\ UNCHANGED <<boundary, at, eventId, telemetry, clock, restarts, sent>>

GraphRefuses(q) ==
  /\ wire' = wire \ {q}
  /\ IF Awaits(q) THEN heard' \in {"refused", "failed"} ELSE UNCHANGED heard
  /\ UNCHANGED <<boundary, at, eventId, meeting, telemetry, clock, restarts, sent, landed>>

UserCancels(i) ==
  /\ meeting[i] = "live" /\ meeting' = [meeting EXCEPT ![i] = "cancelled"]
  /\ UNCHANGED <<boundary, at, eventId, wire, heard, telemetry, clock, restarts, sent, landed>>

Tick ==
  /\ clock < MaxClock /\ clock' = clock + 1
  /\ UNCHANGED <<boundary, at, eventId, meeting, wire, heard, telemetry, restarts, sent, landed>>

\* All is forgotten; requests on their way may still be acted upon.
Restart ==
  /\ restarts < MaxRestarts /\ restarts' = restarts + 1
  /\ stage' = "not-started" /\ act' = "none" /\ at' = "idle" /\ eventId' = NoMeeting
  /\ heard' = "none" /\ run' = "not-needed" /\ log' = <<>> /\ collected' = <<>>
  /\ sent' = [a \in Acts |-> 0] /\ landed' = {}
  /\ wire' = {[q EXCEPT !.mine = FALSE] : q \in wire}
  /\ UNCHANGED <<meeting, clock>>

Init ==
  /\ stage = "not-started" /\ act = "none" /\ at = "idle" /\ eventId = NoMeeting
  /\ heard = "none" /\ run = "not-needed" /\ log = <<>> /\ collected = <<>>
  /\ sent = [a \in Acts |-> 0] /\ landed = {} /\ wire = {}
  /\ meeting = [i \in Meetings |-> "none"] /\ clock = 0 /\ restarts = 0

Next ==
  \/ Create \/ Cancel \/ TokenFails \/ TokenArrives
  \/ Recovers \/ FindsNoneOrSeveral \/ RecoveryReadFails \/ Hears \/ Lost
  \/ \E q \in wire : GraphActs(q) \/ GraphRefuses(q)
  \/ \E i \in Meetings : UserCancels(i)
  \/ Tick \/ Restart

Spec == Init /\ [][Next]_calendarVars

-----------------------------------------------------------------------------
(* Properties. *)

\* The variables have their types.
TypeOK ==
  /\ stage \in Stages /\ act \in Acts \cup {"none"} /\ eventId \in Meetings \cup {NoMeeting}
  /\ at \in {"idle", "token", "recovering", "sent"}
  /\ meeting \in [Meetings -> {"none", "live", "cancelled"}]
  /\ wire \subseteq [op : Acts, id : Meetings \cup {NoMeeting}, mine : BOOLEAN]
  /\ heard \in Meetings \cup {"none", "done", "inexact", "refused", "failed"}
  /\ run \in {"not-needed", "unresolved", "reconciled"}
  /\ Len(collected) <= MaxEvents /\ clock \in 0..MaxClock /\ restarts \in 0..MaxRestarts
  /\ sent \in [Acts -> Nat] /\ landed \subseteq Acts

\* A process sends each mutation at most once, and its stage tells what became
\* of them: nothing was sent while a create is allowed, no cancel while a cancel
\* is, and a confirmed stage stands for an effect at Graph
\* (ProcessLocalCalendarMeetingBoundary).
StageKnowsWhatWasSent ==
  /\ \A a \in Acts : sent[a] <= 1
  /\ act = "none" /\ stage = "not-started" => sent["create"] = 0 /\ sent["cancel"] = 0
  /\ stage \in {"uncertain", "configured"} => sent["cancel"] = 0
  /\ stage = "configured" => "create" \in landed
  /\ stage = "cancellation-accepted" => "cancel" \in landed

Terminal(a, o) == \E k \in 1..Len(log) : log[k].phase = Phase(a) /\ log[k].outcome = o

\* docs/operation-telemetry.md: what was recorded as succeeded took effect, what
\* was recorded as refused did not and never will; a finished act has one start
\* and one end, at most four events in all; and what an operator reads is the
\* latest part of what happened (OperationTelemetryRun, collector snapshot).
TelemetryTruthful ==
  /\ \A a \in Acts :
       /\ Terminal(a, "succeeded") => a \in landed
       /\ Terminal(a, "refused") => a \notin landed /\ \A q \in wire : q.mine => q.op # a
       /\ act # a => Cardinality({k \in 1..Len(log) : log[k].phase = Phase(a)}) \in {0, 2}
       /\ Cardinality({k \in 1..Len(log) : log[k].op = a}) <= 4
  /\ Snapshot = SubSeq(log, Len(log) - Len(Snapshot) + 1, Len(log))

=============================================================================
