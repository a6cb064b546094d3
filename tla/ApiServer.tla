------------------------------ MODULE ApiServer ------------------------------
(***************************************************************************)
(* The API process (api/index.ts, server.ts, process-admission.ts and      *)
(* api-telemetry.ts): it listens, admits requests into slots counted per   *)
(* route, runs their handlers across awaits, answers on connections that   *)
(* may go away at any time, writes one record per request, and drains or   *)
(* is cut off after a signal.                                              *)
(*                                                                         *)
(* What an operation does at Microsoft Graph is the subject of the other   *)
(* modules: here it is one await with an outcome.                          *)
(***************************************************************************)
EXTENDS Naturals, FiniteSets, Sequences

CONSTANTS
  Requests,       \* the requests that may arrive; a connection is made, and named, for one
  Owners,         \* the operator routes that are exercised
  OperatorLimit,  \* 24 in the code
  PureLimit,      \* 8
  ReadLimit,      \* 4
  MutationLimit   \* 1

PureOwners == {"whoami", "operation-events"}
ReadOwners == {"rehearsal-status"}
JsonOwners == {"sharepoint-trusted-version-lifecycle"}
MutationOwners ==
  {"simulated-email-send", "help-desk-scenario-send",
   "calendar-meeting-create", "calendar-meeting-cancel",
   "onedrive-proof-create", "onedrive-proof-remove",
   "contact-proof-create", "contact-proof-remove",
   "inbox-rule-proof-create", "inbox-rule-proof-remove",
   "category-proof-create", "category-proof-remove",
   "sharepoint-file-proof-create", "sharepoint-file-proof-remove",
   "draft-proof-create", "draft-proof-remove",
   "todo-task-proof-create", "todo-task-proof-remove"} \cup JsonOwners

ASSUME ServerAssumption ==
  /\ IsFiniteSet(Requests) /\ "none" \notin Requests
  /\ Owners \subseteq PureOwners \cup ReadOwners \cup MutationOwners
  /\ OperatorLimit \in Nat /\ PureLimit \in Nat /\ ReadLimit \in Nat /\ MutationLimit \in Nat

VARIABLES
  phase,     \* "starting", "listening", "draining", "stopped", and the ends "exited", "exit-1"
  timer,     \* the forced exit is armed
  operator,  \* admitted operator requests
  routes,    \* the same, per route
  pc,        \* request -> "unsent", "verifying", "reading", "operating", "settled"
  route,     \* request -> the operator route whose handler it is in
  conn,      \* request -> the connection it came on
  alive,     \* the connections that are open
  response,  \* request -> "none", "open", the answer it was ended with, "finished", "closed"
  records    \* request -> the records written about it

slots == <<operator, routes>>
wire == <<conn, alive, response, records>>
vars == <<phase, timer, slots, pc, route, wire>>

Answers == {"completed", "refused", "failed", "shutdown-refused"}
NoRequest == "none"
NoRoute == "none"

-----------------------------------------------------------------------------
(* Admission.  A slot that a request takes and gives back within one        *)
(* synchronous stretch of its handler is never seen by another request, so  *)
(* only those that reach their first await hold one here; control traffic   *)
(* never does.                                                              *)

RouteLimit(o) == IF o \in PureOwners THEN PureLimit
                 ELSE IF o \in ReadOwners THEN ReadLimit ELSE MutationLimit

Room_PerRouteForgotten(o) == operator < OperatorLimit
Room(o) == operator < OperatorLimit /\ routes[o] < RouteLimit(o)

TryAcquire(o) ==
  /\ operator' = operator + 1
  /\ routes' = [routes EXCEPT ![o] = @ + 1]

Release_Twice(o) ==
  /\ operator' = operator - 2
  /\ routes' = [routes EXCEPT ![o] = @ - 2]

Release(o) ==
  /\ operator' = operator - 1
  /\ routes' = [routes EXCEPT ![o] = @ - 1]

-----------------------------------------------------------------------------
(* Responses and their records. *)

\* The first of "finish" and "close" writes the record, the other finds it written.
Emit_Always(r, outcome) == Append(records[r], outcome)
Emit(r, outcome) == IF records[r] = <<>> THEN <<outcome>> ELSE records[r]

\* sendJson: nothing on a response that is gone.
SendJson(r, a) ==
  IF response[r] \in {"none", "open"}
  THEN response' = [response EXCEPT ![r] = a]
  ELSE UNCHANGED response

Finish(r) ==
  /\ phase \in {"listening", "draining"} /\ response[r] \in Answers
  /\ response' = [response EXCEPT ![r] = "finished"]
  /\ records' = [records EXCEPT ![r] = Emit(r, response[r])]
  /\ UNCHANGED <<phase, timer, slots, pc, route, conn, alive>>

\* The client leaves, or one of the connection's timeouts destroys it.
Disconnect(c) ==
  /\ phase \in {"listening", "draining"} /\ c \in alive
  /\ alive' = alive \ {c}
  /\ response' = [r \in Requests |->
       IF conn[r] = c /\ response[r] \in Answers \cup {"open"} THEN "closed" ELSE response[r]]
  /\ records' = [r \in Requests |->
       IF conn[r] = c THEN Emit(r, "connection-closed") ELSE records[r]]
  /\ UNCHANGED <<phase, timer, slots, pc, route, conn>>

-----------------------------------------------------------------------------
(* A handler. *)

Active == {r \in Requests : pc[r] \in {"verifying", "reading", "operating"}}
Holders(o) == {r \in Active : route[r] = o}

\* A client connects to send a request, and need not have sent all of it at once.
Connect(c) ==
  /\ phase = "listening" /\ pc[c] = "unsent" /\ c \notin alive
  /\ \A r \in Requests : conn[r] # c
  /\ alive' = alive \cup {c}
  /\ UNCHANGED <<phase, timer, slots, pc, route, conn, response, records>>

\* Any request may follow on an open connection, also while the server drains.
Reaches(r, c) ==
  /\ pc[r] = "unsent" /\ c \in alive /\ phase \in {"listening", "draining"}
  /\ conn' = [conn EXCEPT ![r] = c] /\ UNCHANGED alive

\* Everything the handler does before it first waits.
Refused(r, c, a) ==
  /\ Reaches(r, c)
  /\ pc' = [pc EXCEPT ![r] = "settled"]
  /\ SendJson(r, a)
  /\ UNCHANGED <<phase, timer, slots, route, records>>

RefusedAtShutdown(r, c) == phase = "draining" /\ Refused(r, c, "shutdown-refused")

\* Health, preflight, an undeclared route: answered at once.
Control(r, c) ==
  phase = "listening" /\ \E a \in {"completed", "refused"} : Refused(r, c, a)

RefusedFull(r, c, o) == phase = "listening" /\ ~Room(o) /\ Refused(r, c, "failed")

\* A foreign origin, or no bearer token.
TurnedAway(r, c, o) == phase = "listening" /\ Room(o) /\ Refused(r, c, "refused")

Admitted(r, c, o) ==
  /\ phase = "listening" /\ Room(o) /\ Reaches(r, c)
  /\ TryAcquire(o)
  /\ pc' = [pc EXCEPT ![r] = "verifying"] /\ route' = [route EXCEPT ![r] = o]
  /\ response' = [response EXCEPT ![r] = "open"]
  /\ UNCHANGED <<phase, timer, records>>

Arrive(r, c) ==
  \/ RefusedAtShutdown(r, c) \/ Control(r, c)
  \/ \E o \in Owners : RefusedFull(r, c, o) \/ TurnedAway(r, c, o) \/ Admitted(r, c, o)

Up == phase \in {"listening", "draining", "stopped"}

Settle_NoReleaseWhenClientLeft(r, a) ==
  /\ pc' = [pc EXCEPT ![r] = "settled"]
  /\ SendJson(r, a)
  /\ IF response[r] = "open" THEN Release(route[r]) ELSE UNCHANGED slots
  /\ route' = [route EXCEPT ![r] = NoRoute]
  /\ UNCHANGED <<phase, timer, conn, alive, records>>

Settle(r, a) ==
  /\ pc' = [pc EXCEPT ![r] = "settled"]
  /\ SendJson(r, a)
  /\ Release(route[r]) /\ route' = [route EXCEPT ![r] = NoRoute]
  /\ UNCHANGED <<phase, timer, conn, alive, records>>

GoesOn(r, step) ==
  /\ pc' = [pc EXCEPT ![r] = step]
  /\ UNCHANGED <<phase, timer, slots, route, wire>>

\* The token is verified and the caller authorized, or not.  Nobody operates
\* for a client that has left; a pure operation ends with this step.
Verified(r) ==
  /\ Up /\ pc[r] = "verifying"
  /\ \/ \E a \in {"refused", "failed"} : Settle(r, a)
     \/ response[r] # "open" /\ Settle(r, "completed")
     \/ response[r] = "open" /\ route[r] \in PureOwners /\ Settle(r, "completed")
     \/ response[r] = "open" /\ route[r] \in JsonOwners /\ GoesOn(r, "reading")
     \/ /\ response[r] = "open" /\ route[r] \notin PureOwners \cup JsonOwners
        /\ GoesOn(r, "operating")

\* readBoundedJson: a body that is too large, malformed or cut off is refused;
\* one that was received goes on even where the client has left meanwhile.
BodyRead(r) ==
  /\ Up /\ pc[r] = "reading"
  /\ \/ \E a \in {"refused", "failed"} : Settle(r, a)
     \/ GoesOn(r, "operating")

\* The operation answers, conflicts, or fails; an answer too large is a failure.
Operated(r) ==
  /\ Up /\ pc[r] = "operating"
  /\ \E a \in {"completed", "refused", "failed"} : Settle(r, a)

-----------------------------------------------------------------------------
(* The process. *)

Listen ==
  /\ phase = "starting" /\ phase' \in {"listening", "exit-1"}
  /\ UNCHANGED <<timer, slots, pc, route, wire>>

Pending(r) == response[r] \in Answers \cup {"open"}
Busy(c) == \E r \in Requests : conn[r] = c /\ Pending(r)

Shutdown_NoTimer ==
  /\ phase = "listening" /\ phase' = "draining"
  /\ \E begun \in SUBSET alive : alive' = begun \cup {c \in alive : Busy(c)}
  /\ UNCHANGED <<timer, slots, pc, route, conn, response, records>>

Shutdown_DropsAll ==
  /\ phase = "listening" /\ phase' = "draining" /\ timer' = TRUE
  /\ alive' = {}
  /\ UNCHANGED <<slots, pc, route, conn, response, records>>

\* SIGINT or SIGTERM: a second one changes nothing.  Idle connections are closed;
\* one on which a request has begun to arrive is kept, like one with an answer due.
Shutdown ==
  /\ phase = "listening" /\ phase' = "draining" /\ timer' = TRUE
  /\ \E begun \in SUBSET alive : alive' = begun \cup {c \in alive : Busy(c)}
  /\ UNCHANGED <<slots, pc, route, conn, response, records>>

\* The signal comes before the listener is up: the close reports an error, and
\* nothing holds the process.
CloseFails ==
  /\ phase = "starting" /\ phase' = "exit-1"
  /\ UNCHANGED <<timer, slots, pc, route, wire>>

\* The close callback: the listener has no connection left.
ListenerCloses ==
  /\ phase = "draining" /\ alive = {}
  /\ phase' = "stopped" /\ timer' = FALSE
  /\ UNCHANGED <<slots, pc, route, wire>>

\* Nothing is left to wait for.
Exits ==
  /\ phase = "stopped" /\ Active = {}
  /\ phase' = "exited"
  /\ UNCHANGED <<timer, slots, pc, route, wire>>

ForcedExit ==
  /\ phase = "draining" /\ timer
  /\ phase' = "exit-1"
  /\ UNCHANGED <<timer, slots, pc, route, wire>>

Init ==
  /\ phase = "starting" /\ timer = FALSE
  /\ operator = 0 /\ routes = [o \in Owners |-> 0]
  /\ pc = [r \in Requests |-> "unsent"]
  /\ route = [r \in Requests |-> NoRoute]
  /\ conn = [r \in Requests |-> NoRequest] /\ alive = {}
  /\ response = [r \in Requests |-> "none"]
  /\ records = [r \in Requests |-> <<>>]

Next ==
  \/ Listen \/ Shutdown \/ CloseFails \/ ListenerCloses \/ Exits \/ ForcedExit
  \/ \E r \in Requests : \/ Verified(r) \/ BodyRead(r) \/ Operated(r)
                         \/ Finish(r) \/ Connect(r) \/ Disconnect(r)
                         \/ \E c \in Requests : Arrive(r, c)

Spec == Init /\ [][Next]_vars

(* The timer that is armed fires, the listener closes with its last          *)
(* connection, and a process that no handler keeps ends.  Nothing is assumed *)
(* of the handlers: token requests and some Graph calls have no timeout.     *)
Fairness == WF_vars(ForcedExit) /\ WF_vars(ListenerCloses) /\ WF_vars(Exits)

FairSpec == Spec /\ Fairness

-----------------------------------------------------------------------------
(* Properties. *)

\* The variables have their types.
TypeOK ==
  /\ phase \in {"starting", "listening", "draining", "stopped", "exited", "exit-1"}
  /\ timer \in BOOLEAN
  /\ operator \in Nat /\ routes \in [Owners -> Nat]
  /\ pc \in [Requests -> {"unsent", "verifying", "reading", "operating", "settled"}]
  /\ route \in [Requests -> Owners \cup {NoRoute}]
  /\ conn \in [Requests -> Requests \cup {NoRequest}] /\ alive \subseteq Requests
  /\ response \in [Requests -> Answers \cup {"none", "open", "finished", "closed"}]
  /\ records \in [Requests -> Seq(Answers \cup {"connection-closed"})]

\* The admission counters say how many handlers are under way, on every path a
\* handler can leave by: a refusal, a throw, a disconnected client, a shutdown
\* (process-admission.ts tryAcquire, server.ts finally release).
SlotsMatchHandlers ==
  /\ operator = Cardinality(Active)
  /\ \A o \in Owners : routes[o] = Cardinality(Holders(o))

\* A mutation of one route never starts while another of that route is under
\* way, also when the client of the first has gone (routeLimit).
MutationsExclusive ==
  \A o \in Owners \cap MutationOwners : Cardinality(Holders(o)) <= MutationLimit

\* A request leaves one record, written when its response is through or its
\* connection lost; "completed" is recorded only of a handler that has ended
\* (api-telemetry.ts observe).
OneRecordEach ==
  \A r \in Requests :
    /\ Len(records[r]) = (IF response[r] \in {"finished", "closed"} THEN 1 ELSE 0)
    /\ records[r] = <<"completed">> => pc[r] = "settled"

\* A listener that stopped owes no answer: each request that had reached it was
\* answered to the end, or its client left, also where it came on a connection that
\* looked idle when the signal came (index.ts shutdown, closeIdleConnections).  Only
\* the forced exit cuts answers off.
StopLosesNoAnswer ==
  phase \in {"stopped", "exited"} => \A r \in Requests : ~Pending(r)

\* A signal ends the process: by its own drain or by the timer (index.ts shutdown).
\* There is one exception: the listener stopped, which disarms the timer, and a
\* handler whose client has left never ends.
SignalEndsProcess ==
  \/ phase = "draining" ~> phase \in {"exited", "exit-1"}
  \/ <>[](phase = "stopped" /\ Active # {})

\* docs/api-container-lifecycle.md: "The listener closes after those requests
\* drain."  A listener that reports it stopped has no admitted handler left.
StoppedMeansDrained == phase = "stopped" => Active = {}

=============================================================================
