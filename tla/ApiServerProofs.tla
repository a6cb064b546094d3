--------------------------- MODULE ApiServerProofs ---------------------------
(***************************************************************************)
(* Proofs about ApiServer, for any number of requests, any set of routes   *)
(* and any limits: the admission counters count the handlers under way,    *)
(* and so no mutation overlaps another one of its route; each request      *)
(* leaves one record; and a listener that stopped owes no answer.          *)
(*                                                                         *)
(* A step does one of three things to the handlers: one begins, one ends,  *)
(* or none does either.  The invariant is carried through each of the      *)
(* three once, and every action is shown to be one of them.                *)
(***************************************************************************)
EXTENDS ApiServer, FiniteSetTheorems, TLAPS

Steps == {"unsent", "verifying", "reading", "operating", "settled"}
UnderWay == {"verifying", "reading", "operating"}

\* What the counters' meaning rests on: a handler that is under way is one of
\* an operator route.
Inv ==
  /\ operator \in Nat /\ routes \in [Owners -> Nat]
  /\ pc \in [Requests -> Steps] /\ route \in [Requests -> Owners \cup {NoRoute}]
  /\ \A r \in Active : route[r] \in Owners
  /\ SlotsMatchHandlers

Begins(r, o) ==
  /\ pc[r] = "unsent" /\ TryAcquire(o)
  /\ pc' = [pc EXCEPT ![r] = "verifying"] /\ route' = [route EXCEPT ![r] = o]

Ends(r) ==
  /\ r \in Active /\ Release(route[r])
  /\ pc' = [pc EXCEPT ![r] = "settled"] /\ route' = [route EXCEPT ![r] = NoRoute]

Stays ==
  /\ UNCHANGED <<slots, route>>
  /\ \/ UNCHANGED pc
     \/ \E r \in Requests : pc[r] = "unsent" /\ pc' = [pc EXCEPT ![r] = "settled"]
     \/ \E r \in Active, step \in UnderWay : pc' = [pc EXCEPT ![r] = step]

-----------------------------------------------------------------------------
\* The handlers are finitely many, those of a route among them.
LEMMA HandlersFinite ==
  /\ IsFiniteSet(Active) /\ \A o \in Owners : IsFiniteSet(Holders(o))
  /\ Cardinality(Active) \in Nat /\ \A o \in Owners : Cardinality(Holders(o)) \in Nat
<1>1. Active \subseteq Requests /\ \A o \in Owners : Holders(o) \subseteq Requests
  BY DEF Active, Holders
<1>2. IsFiniteSet(Active) /\ \A o \in Owners : IsFiniteSet(Holders(o))
  BY <1>1, ServerAssumption, FS_Subset
<1> QED  BY <1>2, FS_CardinalityType

\* The counters are right when the process starts.
LEMMA InitRight == Init => Inv
<1> SUFFICES ASSUME Init PROVE Inv  OBVIOUS
<1>1. Active = {} /\ \A o \in Owners : Holders(o) = {}
  BY DEF Init, Active, Holders
<1>2. SlotsMatchHandlers
  BY <1>1, FS_EmptySet DEF Init, SlotsMatchHandlers
<1> QED  BY <1>1, <1>2 DEF Init, Inv, Steps

\* A handler that begins counts in its own route and in no other.
LEMMA BeginsRight ==
  ASSUME Inv, NEW r \in Requests, NEW o \in Owners, Begins(r, o)
  PROVE  Inv'
<1> USE DEF Begins, TryAcquire, Inv
<1>1. r \notin Active
  BY DEF Active
<1>2. Active' = Active \cup {r}
  BY DEF Active, Steps
<1>3. Holders(o)' = Holders(o) \cup {r} /\ r \notin Holders(o)
  BY <1>1, <1>2 DEF Holders, Active
<1>4. ASSUME NEW p \in Owners, p # o PROVE Holders(p)' = Holders(p)
  BY <1>1, <1>2, <1>4 DEF Holders, Active
<1>5. Cardinality(Active') = Cardinality(Active) + 1
  BY <1>1, <1>2, HandlersFinite, FS_AddElement
<1>6. Cardinality(Holders(o)') = Cardinality(Holders(o)) + 1
  BY <1>3, HandlersFinite, FS_AddElement
<1>7. operator' = Cardinality(Active')
  BY <1>5 DEF SlotsMatchHandlers
<1>8. ASSUME NEW p \in Owners PROVE routes'[p] = Cardinality(Holders(p)')
  <2>1. CASE p = o
    BY <2>1, <1>6 DEF SlotsMatchHandlers
  <2>2. CASE p # o
    BY <2>2, <1>4 DEF SlotsMatchHandlers
  <2> QED  BY <2>1, <2>2
<1>9. SlotsMatchHandlers'
  BY <1>7, <1>8 DEF SlotsMatchHandlers
<1>10. /\ operator' \in Nat /\ routes' \in [Owners -> Nat]
       /\ pc' \in [Requests -> Steps] /\ route' \in [Requests -> Owners \cup {NoRoute}]
  BY DEF Steps
<1>11. \A q \in Active' : route'[q] \in Owners
  BY <1>2 DEF Active
<1> QED  BY <1>9, <1>10, <1>11

\* A handler that ends takes its own count with it.
LEMMA EndsRight ==
  ASSUME Inv, NEW r \in Requests, Ends(r)
  PROVE  Inv'
<1>0. PICK o \in Owners : o = route[r]
  BY DEF Ends, Inv
<1>1. r \in Active /\ r \in Holders(o)
  BY <1>0 DEF Ends, Holders
<1>2. Active' = Active \ {r}
  BY DEF Ends, Inv, Active, Steps
<1>3. Holders(o)' = Holders(o) \ {r}
  BY <1>0, <1>2 DEF Ends, Inv, Holders, Active
<1>4. ASSUME NEW p \in Owners, p # o PROVE Holders(p)' = Holders(p)
  BY <1>0, <1>1, <1>2, <1>4 DEF Ends, Inv, Holders, Active
<1>5. Cardinality(Active') = Cardinality(Active) - 1
  BY <1>1, <1>2, HandlersFinite, FS_RemoveElement
<1>6. Cardinality(Holders(o)') = Cardinality(Holders(o)) - 1
  BY <1>0, <1>1, <1>3, HandlersFinite, FS_RemoveElement
<1>7. operator' = Cardinality(Active')
  BY <1>5 DEF Ends, Release, Inv, SlotsMatchHandlers
<1>8. routes' = [routes EXCEPT ![o] = @ - 1]
  BY <1>0 DEF Ends, Release
<1>9. ASSUME NEW p \in Owners PROVE routes'[p] = Cardinality(Holders(p)')
  <2>1. CASE p = o
    BY <2>1, <1>0, <1>6, <1>8 DEF Inv, SlotsMatchHandlers
  <2>2. CASE p # o
    BY <2>2, <1>4, <1>8 DEF Inv, SlotsMatchHandlers
  <2> QED  BY <2>1, <2>2
<1>10. SlotsMatchHandlers'
  BY <1>7, <1>9 DEF SlotsMatchHandlers
<1>11. IsFiniteSet(Active') /\ \A p \in Owners : IsFiniteSet(Holders(p)')
  <2>1. Active' \subseteq Requests /\ \A p \in Owners : Holders(p)' \subseteq Requests
    BY DEF Active, Holders
  <2> QED  BY <2>1, ServerAssumption, FS_Subset
<1>12. operator' \in Nat /\ \A p \in Owners : routes'[p] \in Nat
  BY <1>7, <1>9, <1>11, FS_CardinalityType
<1>13. routes' \in [Owners -> Nat]
  BY <1>8, <1>12 DEF Inv
<1>14. pc' \in [Requests -> Steps] /\ route' \in [Requests -> Owners \cup {NoRoute}]
  BY DEF Ends, Inv, Steps
<1>15. \A q \in Active' : route'[q] \in Owners
  BY <1>2 DEF Ends, Inv, Active
<1> QED  BY <1>10, <1>12, <1>13, <1>14, <1>15 DEF Inv

\* Where no handler begins or ends, the counters stand as they were.
LEMMA StaysRight ==
  ASSUME Inv, Stays
  PROVE  Inv'
<1>1. Active' = Active
  <2>1. CASE UNCHANGED pc
    BY <2>1 DEF Active
  <2>2. ASSUME NEW r \in Requests, pc[r] = "unsent", pc' = [pc EXCEPT ![r] = "settled"]
        PROVE  Active' = Active
    BY <2>2 DEF Active, Inv, Steps
  <2>3. ASSUME NEW r \in Active, NEW step \in UnderWay, pc' = [pc EXCEPT ![r] = step]
        PROVE  Active' = Active
    BY <2>3 DEF Active, Inv, Steps, UnderWay
  <2> QED  BY <2>1, <2>2, <2>3 DEF Stays
<1>2. \A o \in Owners : Holders(o)' = Holders(o)
  BY <1>1 DEF Holders, Stays
<1>3. SlotsMatchHandlers'
  BY <1>1, <1>2 DEF Stays, Inv, SlotsMatchHandlers, slots
<1>4. pc' \in [Requests -> Steps]
  BY DEF Stays, Inv, Steps, UnderWay
<1>5. \A q \in Active' : route'[q] \in Owners
  BY <1>1 DEF Stays, Inv
<1> QED  BY <1>3, <1>4, <1>5 DEF Stays, Inv, slots

\* What a request meets on arrival: only an admitted one begins a handler.
LEMMA ArriveKinds ==
  ASSUME NEW r \in Requests, NEW c \in Requests, Arrive(r, c)
  PROVE  Stays \/ \E o \in Owners : Begins(r, o)
<1>1. ASSUME NEW a \in Answers, Refused(r, c, a) PROVE Stays
  BY <1>1 DEF Refused, Reaches, Stays, slots
<1>2. CASE RefusedAtShutdown(r, c)
  BY <1>1, <1>2 DEF RefusedAtShutdown, Answers
<1>3. CASE Control(r, c)
  BY <1>1, <1>3 DEF Control, Answers
<1>4. ASSUME NEW o \in Owners, RefusedFull(r, c, o) \/ TurnedAway(r, c, o) PROVE Stays
  BY <1>1, <1>4 DEF RefusedFull, TurnedAway, Answers
<1>5. ASSUME NEW o \in Owners, Admitted(r, c, o) PROVE Begins(r, o)
  BY <1>5 DEF Admitted, Reaches, Begins
<1> QED  BY <1>2, <1>3, <1>4, <1>5 DEF Arrive

\* What a handler's own steps are: it goes on, or it ends.
LEMMA HandlerKinds ==
  ASSUME NEW r \in Requests, Verified(r) \/ BodyRead(r) \/ Operated(r)
  PROVE  Stays \/ Ends(r)
<1>1. r \in Active
  BY DEF Verified, BodyRead, Operated, Active
<1>2. ASSUME NEW a, Settle(r, a) PROVE Ends(r)
  BY <1>1, <1>2 DEF Settle, Ends
<1>3. ASSUME NEW step \in UnderWay, GoesOn(r, step) PROVE Stays
  BY <1>1, <1>3 DEF GoesOn, Stays, slots
<1>4. CASE Verified(r)
  BY <1>2, <1>3, <1>4 DEF Verified, UnderWay
<1>5. CASE BodyRead(r)
  BY <1>2, <1>3, <1>5 DEF BodyRead, UnderWay
<1>6. CASE Operated(r)
  BY <1>2, <1>6 DEF Operated
<1> QED  BY <1>4, <1>5, <1>6

\* Every step keeps the counters right.
LEMMA NextRight == Inv /\ [Next]_vars => Inv'
<1> SUFFICES ASSUME Inv, [Next]_vars PROVE Inv'  OBVIOUS
<1>1. ASSUME UNCHANGED <<slots, pc, route>> PROVE Stays
  BY <1>1 DEF Stays
<1>2. CASE UNCHANGED vars
  BY <1>1, <1>2, StaysRight DEF vars
<1>3. CASE Listen \/ Shutdown \/ CloseFails \/ ListenerCloses \/ Exits \/ ForcedExit
  BY <1>1, <1>3, StaysRight DEF Listen, Shutdown, CloseFails, ListenerCloses, Exits, ForcedExit
<1>4. ASSUME NEW r \in Requests, Finish(r) \/ Connect(r) \/ Disconnect(r) PROVE Inv'
  BY <1>1, <1>4, StaysRight DEF Finish, Connect, Disconnect
<1>5. ASSUME NEW r \in Requests, Verified(r) \/ BodyRead(r) \/ Operated(r) PROVE Inv'
  BY <1>5, HandlerKinds, StaysRight, EndsRight
<1>6. ASSUME NEW r \in Requests, NEW c \in Requests, Arrive(r, c) PROVE Inv'
  BY <1>6, ArriveKinds, StaysRight, BeginsRight
<1> QED  BY <1>2, <1>3, <1>4, <1>5, <1>6 DEF Next

\* At every moment the admission counters count the handlers under way: no path
\* out of a handler leaks a slot or gives one back twice (process-admission.ts).
THEOREM CountersRight == Spec => []SlotsMatchHandlers
<1>1. Inv => SlotsMatchHandlers
  BY DEF Inv
<1> QED  BY <1>1, InitRight, NextRight, PTL DEF Spec

-----------------------------------------------------------------------------
\* No route has more handlers under way than its limit.
WithinLimits == \A o \in Owners : routes[o] <= RouteLimit(o)

LEMMA LimitsTyped == \A o \in Owners : RouteLimit(o) \in Nat
BY ServerAssumption DEF RouteLimit

\* A slot is taken only where there is room.
LEMMA LimitsKept == Inv /\ WithinLimits /\ [Next]_vars => WithinLimits'
<1> SUFFICES ASSUME Inv, WithinLimits, [Next]_vars PROVE WithinLimits'  OBVIOUS
<1> USE LimitsTyped
<1>1. ASSUME UNCHANGED routes PROVE WithinLimits'
  BY <1>1 DEF WithinLimits, RouteLimit
<1>2. ASSUME NEW r \in Requests, NEW c \in Requests, NEW o \in Owners, Admitted(r, c, o)
      PROVE  WithinLimits'
  <2>1. routes[o] < RouteLimit(o) /\ routes' = [routes EXCEPT ![o] = @ + 1]
    BY <1>2 DEF Admitted, Room, TryAcquire
  <2>2. ASSUME NEW p \in Owners PROVE routes'[p] <= RouteLimit(p)
    BY <2>1, <2>2 DEF WithinLimits, Inv
  <2> QED  BY <2>2 DEF WithinLimits, RouteLimit
<1>3. ASSUME NEW r \in Requests, Verified(r) \/ BodyRead(r) \/ Operated(r)
      PROVE  WithinLimits'
  <2>1. CASE Stays
    BY <2>1, <1>1 DEF Stays, slots
  <2>2. CASE Ends(r)
    <3>1. routes' = [routes EXCEPT ![route[r]] = @ - 1] /\ route[r] \in Owners
      BY <2>2 DEF Ends, Release, Inv
    <3>2. ASSUME NEW p \in Owners PROVE routes'[p] <= RouteLimit(p)
      BY <3>1, <3>2 DEF WithinLimits, Inv
    <3> QED  BY <3>2 DEF WithinLimits, RouteLimit
  <2> QED  BY <1>3, <2>1, <2>2, HandlerKinds
<1>4. ASSUME NEW r \in Requests, NEW c \in Requests, Arrive(r, c) PROVE WithinLimits'
  <2>1. ASSUME NEW a, Refused(r, c, a) PROVE WithinLimits'
    BY <2>1, <1>1 DEF Refused, slots
  <2> QED
    BY <1>2, <1>4, <2>1 DEF Arrive, RefusedAtShutdown, Control, RefusedFull, TurnedAway
<1>5. ASSUME NEW r \in Requests, Finish(r) \/ Connect(r) \/ Disconnect(r) PROVE WithinLimits'
  BY <1>1, <1>5 DEF Finish, Connect, Disconnect, slots
<1>6. CASE Listen \/ Shutdown \/ CloseFails \/ ListenerCloses \/ Exits \/ ForcedExit
  BY <1>1, <1>6 DEF Listen, Shutdown, CloseFails, ListenerCloses, Exits, ForcedExit, slots
<1>7. CASE UNCHANGED vars
  BY <1>1, <1>7 DEF vars, slots
<1> QED  BY <1>3, <1>4, <1>5, <1>6, <1>7 DEF Next

\* Mutations of one route never overlap, whatever became of their clients
\* (process-admission.ts routeLimit, server.ts route).
THEOREM MutationsNeverOverlap == Spec => []MutationsExclusive
<1>1. Init => WithinLimits
  BY LimitsTyped DEF Init, WithinLimits
<1>2. ASSUME Inv, WithinLimits PROVE MutationsExclusive
  <2>1. ASSUME NEW o \in Owners \cap MutationOwners PROVE Cardinality(Holders(o)) <= MutationLimit
    <3>1. RouteLimit(o) = MutationLimit
      BY DEF RouteLimit, MutationOwners, PureOwners, ReadOwners, JsonOwners
    <3> QED  BY <1>2, <3>1 DEF Inv, SlotsMatchHandlers, WithinLimits
  <2> QED  BY <2>1 DEF MutationsExclusive
<1>3. Inv /\ WithinLimits => MutationsExclusive
  BY <1>2
<1> QED  BY <1>1, <1>3, InitRight, NextRight, LimitsKept, PTL DEF Spec

-----------------------------------------------------------------------------
\* What the variables of the connections are made of.
WireTyped ==
  /\ phase \in {"starting", "listening", "draining", "stopped", "exited", "exit-1"}
  /\ timer \in BOOLEAN
  /\ conn \in [Requests -> Requests \cup {NoRequest}] /\ alive \subseteq Requests
  /\ response \in [Requests -> Answers \cup {"none", "open", "finished", "closed"}]
  /\ records \in [Requests -> Seq(Answers \cup {"connection-closed"})]

\* Where a request stands with its response: none before it arrives, "completed"
\* only from a handler that has ended, and then one record.
Told ==
  \A r \in Requests :
    /\ pc[r] = "unsent" => response[r] = "none" /\ conn[r] = NoRequest
    /\ pc[r] # "unsent" => response[r] # "none"
    /\ response[r] = "completed" => pc[r] = "settled"

RecordInv == Inv /\ WireTyped /\ Told /\ OneRecordEach

\* A record is the one that was written first.
LEMMA EmitTyped ==
  ASSUME NEW r \in Requests, NEW a \in Answers \cup {"connection-closed"}, WireTyped, OneRecordEach
  PROVE  /\ Emit(r, a) \in Seq(Answers \cup {"connection-closed"}) /\ Len(Emit(r, a)) = 1
         /\ IF response[r] \in {"finished", "closed"} THEN Emit(r, a) = records[r] ELSE Emit(r, a) = <<a>>
<1>1. records[r] \in Seq(Answers \cup {"connection-closed"})
  BY DEF WireTyped
<1>2. records[r] = <<>> <=> Len(records[r]) = 0
  BY <1>1
<1>3. <<a>> \in Seq(Answers \cup {"connection-closed"}) /\ Len(<<a>>) = 1
  OBVIOUS
<1>4. CASE response[r] \in {"finished", "closed"}
  <2>1. Len(records[r]) = 1
    BY <1>4 DEF OneRecordEach
  <2> QED  BY <1>1, <1>2, <1>4, <2>1 DEF Emit
<1>5. CASE response[r] \notin {"finished", "closed"}
  <2>1. Len(records[r]) = 0
    BY <1>5 DEF OneRecordEach
  <2> QED  BY <1>2, <1>3, <1>5, <2>1 DEF Emit
<1> QED  BY <1>4, <1>5

\* Before anything arrives there is no response and no record.
LEMMA RecordsInit == Init => RecordInv
<1> SUFFICES ASSUME Init PROVE RecordInv  OBVIOUS
<1>0. <<>> \in Seq(Answers \cup {"connection-closed"})
  OBVIOUS
<1>1. WireTyped /\ Told
  BY <1>0 DEF Init, WireTyped, Told
<1>2. OneRecordEach
  BY DEF Init, OneRecordEach
<1> QED  BY <1>1, <1>2, InitRight DEF RecordInv

\* Every step keeps one record for each response that is through or lost.
LEMMA RecordsKept == RecordInv /\ [Next]_vars => RecordInv'
<1> SUFFICES ASSUME RecordInv, [Next]_vars PROVE RecordInv'  OBVIOUS
<1>0. Inv'
  BY NextRight DEF RecordInv
<1> SUFFICES WireTyped' /\ Told' /\ OneRecordEach'
  BY <1>0 DEF RecordInv
<1>1. ASSUME UNCHANGED <<pc, conn, response, records>>, alive' \subseteq Requests,
             phase' \in {"starting", "listening", "draining", "stopped", "exited", "exit-1"},
             timer' \in BOOLEAN
      PROVE  WireTyped' /\ Told' /\ OneRecordEach'
  <2>1. WireTyped'
    BY <1>1 DEF RecordInv, WireTyped
  <2>2. Told'
    BY <1>1 DEF RecordInv, Told
  <2>3. OneRecordEach'
    BY <1>1 DEF RecordInv, OneRecordEach
  <2> QED  BY <2>1, <2>2, <2>3
<1>2. CASE UNCHANGED vars
  <2>1. UNCHANGED <<phase, timer, alive>> /\ UNCHANGED <<pc, conn, response, records>>
    BY <1>2 DEF vars, wire
  <2>2. /\ alive \subseteq Requests /\ timer \in BOOLEAN
        /\ phase \in {"starting", "listening", "draining", "stopped", "exited", "exit-1"}
    BY DEF RecordInv, WireTyped
  <2> QED  BY <1>1, <2>1, <2>2
<1>3. CASE Listen \/ Shutdown \/ CloseFails \/ ListenerCloses \/ Exits \/ ForcedExit
  BY <1>1, <1>3 DEF Listen, Shutdown, CloseFails, ListenerCloses, Exits, ForcedExit, wire, RecordInv, WireTyped
<1>4. ASSUME NEW r \in Requests, Finish(r) PROVE WireTyped' /\ Told' /\ OneRecordEach'
  <2>1. response[r] \in Answers
    BY <1>4 DEF Finish
  <2>2. /\ Emit(r, response[r]) \in Seq(Answers \cup {"connection-closed"})
        /\ Len(Emit(r, response[r])) = 1 /\ Emit(r, response[r]) = <<response[r]>>
    BY <2>1, EmitTyped DEF RecordInv, Answers
  <2>3. Emit(r, response[r]) = <<"completed">> => pc[r] = "settled"
    <3>1. Emit(r, response[r]) = <<"completed">> => response[r] = "completed"
      BY <2>2
    <3> QED  BY <3>1 DEF RecordInv, Told
  <2>4. WireTyped'
    BY <1>4, <2>2 DEF Finish, RecordInv, WireTyped
  <2>5. Told'
    BY <1>4, <2>1 DEF Finish, RecordInv, WireTyped, Told, Answers
  <2>6. ASSUME NEW q \in Requests
        PROVE  /\ Len(records'[q]) = (IF response'[q] \in {"finished", "closed"} THEN 1 ELSE 0)
               /\ records'[q] = <<"completed">> => pc'[q] = "settled"
    BY <1>4, <2>2, <2>3 DEF Finish, RecordInv, WireTyped, OneRecordEach
  <2> QED  BY <2>4, <2>5, <2>6 DEF OneRecordEach
<1>5. ASSUME NEW c \in Requests, Disconnect(c) PROVE WireTyped' /\ Told' /\ OneRecordEach'
  <2>1. ASSUME NEW q \in Requests
        PROVE  /\ Emit(q, "connection-closed") \in Seq(Answers \cup {"connection-closed"})
               /\ Len(Emit(q, "connection-closed")) = 1
               /\ Emit(q, "connection-closed") = <<"completed">> => pc[q] = "settled"
    <3>1. <<"connection-closed">> # <<"completed">>
      OBVIOUS
    <3> QED  BY <3>1, EmitTyped DEF RecordInv, OneRecordEach
  <2>2. WireTyped'
    BY <1>5, <2>1 DEF Disconnect, RecordInv, WireTyped
  <2>3. Told'
    BY <1>5, ServerAssumption DEF Disconnect, RecordInv, WireTyped, Told, Answers, NoRequest
  <2>4. ASSUME NEW q \in Requests, conn[q] = c
        PROVE  response'[q] \in {"finished", "closed"}
    BY <1>5, <2>4, ServerAssumption DEF Disconnect, RecordInv, WireTyped, Told, NoRequest
  <2>5. ASSUME NEW q \in Requests
        PROVE  /\ Len(records'[q]) = (IF response'[q] \in {"finished", "closed"} THEN 1 ELSE 0)
               /\ records'[q] = <<"completed">> => pc'[q] = "settled"
    <3>1. CASE conn[q] = c
      BY <3>1, <1>5, <2>1, <2>4 DEF Disconnect
    <3>2. CASE conn[q] # c
      BY <3>2, <1>5 DEF Disconnect, RecordInv, OneRecordEach
    <3> QED  BY <3>1, <3>2
  <2> QED  BY <2>2, <2>3, <2>5 DEF OneRecordEach
<1>6. ASSUME NEW r \in Requests, NEW a \in Answers, Settle(r, a), pc[r] \in UnderWay
      PROVE  WireTyped' /\ Told' /\ OneRecordEach'
  BY <1>6 DEF Settle, SendJson, RecordInv, WireTyped, Told, OneRecordEach, Answers, Inv, Steps, UnderWay
<1>7. ASSUME NEW r \in Requests, NEW step \in UnderWay, GoesOn(r, step), pc[r] \in UnderWay
      PROVE  WireTyped' /\ Told' /\ OneRecordEach'
  BY <1>7 DEF GoesOn, wire, RecordInv, WireTyped, Told, OneRecordEach, Inv, Steps, UnderWay
<1>8. ASSUME NEW r \in Requests, Verified(r) \/ BodyRead(r) \/ Operated(r)
      PROVE  WireTyped' /\ Told' /\ OneRecordEach'
  BY <1>6, <1>7, <1>8 DEF Verified, BodyRead, Operated, Answers, UnderWay
<1>9. ASSUME NEW r \in Requests, NEW c \in Requests, Arrive(r, c)
      PROVE  WireTyped' /\ Told' /\ OneRecordEach'
  <2>1. pc[r] = "unsent" /\ response[r] = "none" /\ alive' \subseteq Requests
    BY <1>9 DEF Arrive, RefusedAtShutdown, Control, RefusedFull, TurnedAway, Admitted, Refused,
                Reaches, RecordInv, Told, WireTyped
  <2>2. ASSUME NEW a \in Answers, Refused(r, c, a) PROVE WireTyped' /\ Told' /\ OneRecordEach'
    BY <2>1, <2>2 DEF Refused, Reaches, SendJson, RecordInv, WireTyped, Told, OneRecordEach,
                      Answers, Inv, Steps
  <2>3. ASSUME NEW o \in Owners, Admitted(r, c, o) PROVE WireTyped' /\ Told' /\ OneRecordEach'
    BY <2>1, <2>3 DEF Admitted, Reaches, RecordInv, WireTyped, Told, OneRecordEach,
                      Answers, Inv, Steps
  <2> QED
    BY <1>9, <2>2, <2>3 DEF Arrive, RefusedAtShutdown, Control, RefusedFull, TurnedAway, Answers
<1>10. ASSUME NEW c \in Requests, Connect(c) PROVE WireTyped' /\ Told' /\ OneRecordEach'
  <2>1. /\ alive' \subseteq Requests /\ timer' \in BOOLEAN
        /\ phase' \in {"starting", "listening", "draining", "stopped", "exited", "exit-1"}
    BY <1>10 DEF Connect, RecordInv, WireTyped
  <2> QED  BY <1>1, <1>10, <2>1 DEF Connect
<1> QED  BY <1>2, <1>3, <1>4, <1>5, <1>8, <1>9, <1>10 DEF Next

\* The variables keep their types.  The admission counters are natural numbers:
\* no path out of a handler takes them below zero (process-admission.ts release).
THEOREM ServerTyped == Spec => []TypeOK
<1>1. RecordInv => TypeOK
  BY DEF RecordInv, Inv, WireTyped, TypeOK, Steps
<1> QED  BY <1>1, RecordsInit, RecordsKept, PTL DEF Spec

\* Every request leaves one record at most, when its response is through or its
\* connection lost, and "completed" is never recorded of a handler that is still
\* under way (api-telemetry.ts observe).
THEOREM OneRecord == Spec => []OneRecordEach
<1>1. RecordInv => OneRecordEach
  BY DEF RecordInv
<1> QED  BY <1>1, RecordsInit, RecordsKept, PTL DEF Spec

-----------------------------------------------------------------------------
\* An answer that is due has its connection, and a listener that stopped has none.
AnswersHaveConnections ==
  /\ \A r \in Requests : Pending(r) => conn[r] \in alive
  /\ phase \in {"stopped", "exited"} => alive = {}

StopInv == RecordInv /\ AnswersHaveConnections

\* Every step keeps the connection of an answer that is due: those the shutdown
\* closes have none, and a client that leaves takes its answers with it.
LEMMA ConnectionsKept == StopInv /\ [Next]_vars => StopInv'
<1> SUFFICES ASSUME StopInv, [Next]_vars PROVE StopInv'  OBVIOUS
<1>0. RecordInv'
  BY RecordsKept DEF StopInv
<1> SUFFICES AnswersHaveConnections'
  BY <1>0 DEF StopInv
<1> USE DEF AnswersHaveConnections, Pending
<1>1. CASE UNCHANGED vars
  BY <1>1 DEF vars, wire, StopInv
<1>2. CASE Shutdown
  BY <1>2 DEF Shutdown, Busy, StopInv
<1>3. CASE Listen \/ CloseFails \/ ForcedExit
  BY <1>3 DEF Listen, CloseFails, ForcedExit, wire, StopInv
<1>4. CASE ListenerCloses \/ Exits
  BY <1>4 DEF ListenerCloses, Exits, wire, StopInv
<1>5. ASSUME NEW r \in Requests, Finish(r) PROVE AnswersHaveConnections'
  BY <1>5 DEF Finish, StopInv, RecordInv, WireTyped, Answers
<1>6. ASSUME NEW r \in Requests, Connect(r) PROVE AnswersHaveConnections'
  BY <1>6 DEF Connect, StopInv
<1>7. ASSUME NEW c \in Requests, Disconnect(c) PROVE AnswersHaveConnections'
  <2>1. ASSUME NEW q \in Requests, response'[q] \in Answers \cup {"open"}
        PROVE  response[q] \in Answers \cup {"open"} /\ conn[q] # c
    BY <1>7, <2>1 DEF Disconnect, Answers
  <2> QED  BY <1>7, <2>1 DEF Disconnect, StopInv
<1>8. ASSUME NEW r \in Requests, Verified(r) \/ BodyRead(r) \/ Operated(r)
      PROVE  AnswersHaveConnections'
  <2>1. pc[r] \in UnderWay
    BY <1>8 DEF Verified, BodyRead, Operated, UnderWay
  <2>2. ASSUME NEW a, Settle(r, a) PROVE AnswersHaveConnections'
    <3>1. response[r] # "none"
      BY <2>1 DEF UnderWay, StopInv, RecordInv, Told
    <3>2. ASSUME NEW q \in Requests, response'[q] \in Answers \cup {"open"}
          PROVE  response[q] \in Answers \cup {"open"}
      BY <2>2, <3>1, <3>2 DEF Settle, SendJson, StopInv, RecordInv, WireTyped
    <3> QED  BY <2>2, <3>2 DEF Settle, StopInv
  <2>3. ASSUME NEW step, GoesOn(r, step) PROVE AnswersHaveConnections'
    BY <2>3 DEF GoesOn, wire, StopInv
  <2> QED  BY <1>8, <2>2, <2>3 DEF Verified, BodyRead, Operated
<1>9. ASSUME NEW r \in Requests, NEW c \in Requests, Arrive(r, c)
      PROVE  AnswersHaveConnections'
  <2>1. /\ c \in alive /\ alive' = alive /\ phase' = phase
        /\ phase \in {"listening", "draining"} /\ conn' = [conn EXCEPT ![r] = c]
        /\ \A q \in Requests : q # r => response'[q] = response[q]
    BY <1>9 DEF Arrive, RefusedAtShutdown, Control, RefusedFull, TurnedAway, Admitted, Refused,
                Reaches, SendJson, StopInv, RecordInv, WireTyped
  <2> QED  BY <2>1 DEF StopInv, RecordInv, WireTyped
<1> QED  BY <1>1, <1>2, <1>3, <1>4, <1>5, <1>6, <1>7, <1>8, <1>9 DEF Next

\* A listener that stopped owes no answer to anybody whose connection still stood:
\* what the shutdown closes as idle was owed nothing (index.ts shutdown).
THEOREM StopOwesNoAnswer == Spec => []StopLosesNoAnswer
<1>1. Init => StopInv
  BY RecordsInit DEF Init, StopInv, AnswersHaveConnections, Pending, Answers
<1>2. StopInv => StopLosesNoAnswer
  BY DEF StopInv, AnswersHaveConnections, StopLosesNoAnswer
<1> QED  BY <1>1, <1>2, ConnectionsKept, PTL DEF Spec
=============================================================================
