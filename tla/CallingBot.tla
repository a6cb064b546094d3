------------------------------ MODULE CallingBot ------------------------------
(***************************************************************************)
(* The process that hosts the calling canary (teams-calling-bot/index.ts,  *)
(* startup-gate.ts, server.ts): it starts, polls its own public revision,  *)
(* dispatches the canary, delivers callbacks to it, is told to stop, or    *)
(* crashes, and is started again beside the journal it left behind.        *)
(***************************************************************************)
EXTENDS CallingCanary

CONSTANT MaxStarts   \* bound: how often the process is started

ASSUME BotAssumption == MaxStarts \in Nat

VARIABLES
  stage,    \* "down", "up", "stopping", "draining", "exited"
  gate,     \* the startup gate: "polling", "running", "closed"
  starts

bot == <<stage, gate, starts>>
vars == <<journal, canary, graph, bot>>

-----------------------------------------------------------------------------
Start ==
  /\ stage = "down" /\ starts < MaxStarts
  /\ stage' = "up" /\ gate' = "polling" /\ starts' = starts + 1
  /\ closed' = FALSE
  /\ UNCHANGED <<file, left, canary, graph>>

\* The public host shows this revision: the journal is opened, a canary made
\* and run.  Where opening throws, the gate swallows it and polls on.
Dispatch ==
  /\ stage = "up" /\ gate = "polling" /\ Open
  /\ gate' = "running" /\ pc' = "token" /\ NewCanary
  /\ UNCHANGED <<graph, stage, starts>>

DispatchThrows ==
  /\ stage = "up" /\ gate = "polling" /\ OpenThrows
  /\ UNCHANGED <<canary, graph, bot>>

\* A run that rejected is taken for a failed probe: the gate polls on.
GateRetries ==
  /\ gate = "running" /\ pc = "failed" /\ stage = "up"
  /\ gate' = "polling"
  /\ UNCHANGED <<journal, canary, graph, stage, starts>>

GateCloses ==
  /\ gate = "polling" /\ gate' = "closed"
  /\ UNCHANGED <<journal, canary, graph, stage, starts>>

\* SIGINT or SIGTERM.
Stop ==
  /\ stage = "up" /\ stage' = "stopping"
  /\ gate' = IF gate = "polling" THEN "closed" ELSE gate
  /\ shutdown' = (pc # "off")
  /\ UNCHANGED <<journal, pc, outcome, attempted, deadline, callId, heard, digests,
                 hangup, graph, starts>>

\* The canary's shutdown has waited for its run, and then for its hang-up.
Drain ==
  /\ stage = "stopping" /\ pc \in {"off", "done"} /\ hangup \in {"none", "settled"}
  /\ stage' = "draining"
  /\ UNCHANGED <<journal, canary, graph, gate, starts>>

\* The last connection is gone: the journal is closed.
Exit ==
  /\ stage = "draining" /\ stage' = "exited" /\ closed' = TRUE
  /\ UNCHANGED <<file, left, canary, graph, gate, starts>>

\* The process ends, and with it all it remembers.
Dies ==
  /\ stage' = "down" /\ gate' = "closed"
  /\ pc' = "off" /\ NewCanary /\ reply' = "none"
  /\ UNCHANGED <<journal, phase, wire, posts, deletes, starts>>

\* The canary's shutdown threw: nothing handles that, and the process ends.
DrainFails ==
  /\ stage = "stopping"
  /\ pc = "failed" \/ (pc = "done" /\ hangup = "failed")
  /\ Dies

\* The process ends, however far it got.
Crash == stage # "down" /\ Dies

Deliver(k, r, b) ==
  /\ stage \in {"up", "stopping", "draining"}
  /\ Callback(k, r, b) \/ CallbackThrows(k, r, b)
  /\ UNCHANGED bot

-----------------------------------------------------------------------------
Init ==
  /\ file = <<>> /\ closed = FALSE /\ left = {}
  /\ pc = "off" /\ outcome = "" /\ shutdown = FALSE /\ attempted = FALSE /\ deadline = FALSE
  /\ callId = NoCall /\ heard = 0 /\ digests = {} /\ hangup = "none"
  /\ phase = [k \in Calls |-> IF k = Ours THEN 0 ELSE 1]
  /\ wire = {} /\ reply = "none" /\ posts = 0 /\ deletes = 0
  /\ stage = "down" /\ gate = "closed" /\ starts = 0

CanaryStep == Run \/ HangupStep \/ WindowCloses
Draining == Drain \/ DrainFails

Next ==
  \/ CanaryStep /\ UNCHANGED bot
  \/ Graph /\ UNCHANGED bot
  \/ \E k \in Calls, r \in Ranks, b \in Bodies : Deliver(k, r, b)
  \/ Start \/ Dispatch \/ DispatchThrows \/ GateRetries \/ GateCloses \/ Stop
  \/ Draining \/ Exit \/ Crash

Spec == Init /\ [][Next]_vars

\* The requests to Graph and the waits have timeouts, so a run that has its token
\* keeps going, and so do the hang-up and the shutdown that waits for them.  Nothing
\* is assumed of Graph; nor of the token, whose request has no timeout; nor of the
\* end of the process, which waits for the connections without one.
FairSpec ==
  /\ Spec
  /\ WF_vars(RunOn /\ UNCHANGED bot)
  /\ WF_vars(HangupStep /\ UNCHANGED bot)
  /\ WF_vars(WindowCloses /\ UNCHANGED bot)
  /\ WF_vars(Draining)

-----------------------------------------------------------------------------
Phases == {"opened", "attempting", "create-result", "callback", "hangup-attempting",
           "hangup-result", "hangup-observation", "complete"}
Outcomes == {"ended", "uncertain", "refused"}
EntryStates == {"", "creating", "active", "uncertain", "refused", "ended"}
CallIds == Calls \union {NoCall}
Heard == {0} \union Ranks
Tags == {0} \union Bodies

Entries ==
  [phase : Phases, state : EntryStates, call : CallIds, rank : Heard, body : Tags]

FileTyped ==
  /\ file \in Seq(Entries) /\ closed \in BOOLEAN /\ left \subseteq 1..Len(file)
  /\ \A i \in 1..Len(file) : file[i].phase = "complete" => file[i].state \in Outcomes

CanaryTyped ==
  /\ pc \in {"off", "token", "creating", "identifying", "ringing", "hanging",
             "ending", "finishing", "done", "failed"}
  /\ outcome \in {""} \union Outcomes
  /\ shutdown \in BOOLEAN /\ attempted \in BOOLEAN /\ deadline \in BOOLEAN
  /\ callId \in CallIds /\ heard \in Heard
  /\ digests \subseteq Calls \X Ranks \X Bodies
  /\ hangup \in {"none", "deleting", "observing", "settled", "failed"}

GraphTyped ==
  /\ phase \in [Calls -> Heard]
  /\ wire \subseteq {"post", "delete"} \X Calls
  /\ reply \in {"none", "created", "refused"}
  /\ posts \in Nat /\ deletes \in Nat

BotTyped ==
  /\ stage \in {"down", "up", "stopping", "draining", "exited"}
  /\ gate \in {"polling", "running", "closed"}
  /\ starts \in 0..MaxStarts

\* The variables have their types, and a run on record has one of its outcomes.
TypeOK == FileTyped /\ CanaryTyped /\ GraphTyped /\ BotTyped

\* Whatever crashes, restarts, repeated dispatches and failed writes happen
\* beside one journal file, one call request is ever sent and one hang-up.
OneCallOneHangup == posts <= 1 /\ deletes <= 1

\* A request that may have changed something outside is on record: the file
\* names the attempt before Graph can see it, even if the process then dies.
AttemptsOnRecord ==
  /\ posts > 0 => Logged(Entry("attempting", "creating"))
  /\ deletes > 0 => Logged(Entry("hangup-attempting", ""))

\* A run recorded as refused placed no call, and none appears later.
RefusedPlacedNothing ==
  Logged(Entry("complete", "refused")) =>
    phase[Ours] = 0 /\ <<"post", Ours>> \notin wire

\* Once Graph confirmed the call, only that call's end makes the run "ended".
EndedIsOver ==
  Logged(Entry("complete", "ended")) /\ Logged(Entry("create-result", "active")) =>
    phase[Ours] = Over

\* The callbacks on record tell one call's progress: after one that was accepted
\* there is none of another call, none of an earlier state, and not the same envelope
\* again.  What an append left behind that threw was not accepted, and may be
\* recorded again, or be contradicted.
CallbacksTellOneCall ==
  \A i, j \in 1..Len(file) :
    i < j /\ i \notin left /\ file[i].phase = "callback" /\ file[j].phase = "callback" =>
      /\ file[i].call = file[j].call /\ file[i].rank <= file[j].rank
      /\ file[i] # file[j]

\* A process told to stop places no call any more.
NoCallAfterStop == [][posts' > posts => stage = "up"]_vars

\* A call whose identity the bot learnt, be it after the run gave up on it, is
\* hung up or ends by itself, unless the process dies first.
KnownCallEnds ==
  callId = Ours ~> deletes > 0 \/ heard = Over \/ stage = "down"

\* A process told to stop ends its call and its records, though Graph never answer:
\* then only open connections keep it.  If it still waits for its token it may not.
StopDrains == stage = "stopping" /\ pc # "token" ~> stage # "stopping"
=============================================================================
