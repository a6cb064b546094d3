-------------------------- MODULE ApiOperationsProofs --------------------------
(***************************************************************************)
(* Proofs about the fixed proofs and the OneDrive share of ApiOperations,  *)
(* for any identifiers, any number of calls and of edits by others.        *)
(***************************************************************************)
EXTENDS ApiSendingProofs

-----------------------------------------------------------------------------
\* The fixed proofs: types, and one object at a time.

LEMMA IdsApart == /\ Proofs!None = "none" /\ Proofs!Unclear = "unclear"
                  /\ "none" \notin Ids /\ "unclear" \notin Ids /\ "refused" \notin Ids
BY OperationsAssumption DEF Proofs!None, Proofs!Unclear

\* A lookup finds nothing, or one exact object, or what is not to be touched.
LEMMA LookupIs ==
  /\ Proofs!Lookup \in Ids \union {Proofs!None, Proofs!Unclear}
  /\ Proofs!Lookup = Proofs!None <=> Proofs!Visible = {}
  /\ Proofs!Lookup \in Ids => Proofs!Visible = {Proofs!Lookup} /\ store[Proofs!Lookup] = "exact"
<1> DEFINE V == Proofs!Visible
<1>0. V \subseteq Ids /\ IsFiniteSet(V)
  <2>1. V \subseteq Ids
    BY DEF Proofs!Visible
  <2> HIDE DEF V
  <2> QED  BY <2>1, OperationsAssumption, FS_Subset
<1>1. CASE V = {}
  BY <1>1, IdsApart DEF Proofs!Lookup
<1>2. CASE V # {} /\ Proofs!Cardinality(V) = 1 /\ \A i \in V : store[i] = "exact"
  <2>1. Proofs!Lookup = CHOOSE i \in V : TRUE
    BY <1>2 DEF Proofs!Lookup
  <2> HIDE DEF V
  <2>2. Cardinality(V) = 1
    BY <1>2, SameCardinality
  <2>3. PICK x : V = {x}
    BY <1>0, <2>2, FS_Singleton
  <2>4. Proofs!Lookup = x
    BY <2>1, <2>3
  <2> QED  BY <1>0, <1>2, <2>3, <2>4, IdsApart DEF V
<1>3. CASE V # {} /\ ~(Proofs!Cardinality(V) = 1 /\ \A i \in V : store[i] = "exact")
  <2>1. Proofs!Lookup = Proofs!Unclear
    BY <1>3 DEF Proofs!Lookup
  <2> QED  BY <1>3, <2>1, IdsApart
<1> QED  BY <1>1, <1>2, <1>3

\* The proof of each kind, by its name.
LEMMA JudgeIs ==
  ASSUME NEW h, NEW l, l # Proofs!Unclear
  PROVE  /\ kind = "contact" => Proofs!Judge(h, l) =
              IF h = "create" THEN Proofs!ContactCreate(l) ELSE Proofs!ContactRemove(l)
         /\ kind = "inbox-rule" => Proofs!Judge(h, l) =
              IF h = "create" THEN Proofs!InboxRuleCreate(l) ELSE Proofs!InboxRuleRemove(l)
         /\ kind = "category" => Proofs!Judge(h, l) =
              IF h = "create" THEN Proofs!CategoryCreate(l) ELSE Proofs!CategoryRemove(l)
         /\ kind = "draft" => Proofs!Judge(h, l) =
              IF h = "create" THEN Proofs!DraftCreate(l) ELSE Proofs!DraftRemove(l)
         /\ kind = "todo-task" => Proofs!Judge(h, l) =
              IF h = "create" THEN Proofs!TaskCreate(l) ELSE Proofs!TaskRemove(l)
         /\ kind = "sharepoint-file" => Proofs!Judge(h, l) =
              IF h = "create" THEN Proofs!FileCreate(l) ELSE Proofs!FileRemove(l)
<1>1. CASE kind = "contact"
  <2>1. kind \notin {"inbox-rule", "category", "draft", "todo-task", "sharepoint-file"}
    BY <1>1
  <2> QED  BY <1>1, <2>1, Zenon DEF Proofs!Judge
<1>2. CASE kind = "inbox-rule"
  <2>1. kind \notin {"contact", "category", "draft", "todo-task", "sharepoint-file"}
    BY <1>2
  <2> QED  BY <1>2, <2>1, Zenon DEF Proofs!Judge
<1>3. CASE kind = "category"
  <2>1. kind \notin {"contact", "inbox-rule", "draft", "todo-task", "sharepoint-file"}
    BY <1>3
  <2> QED  BY <1>3, <2>1, Zenon DEF Proofs!Judge
<1>4. CASE kind = "draft"
  <2>1. kind \notin {"contact", "inbox-rule", "category", "todo-task", "sharepoint-file"}
    BY <1>4
  <2> QED  BY <1>4, <2>1, Zenon DEF Proofs!Judge
<1>5. CASE kind = "todo-task"
  <2>1. kind \notin {"contact", "inbox-rule", "category", "draft", "sharepoint-file"}
    BY <1>5
  <2> QED  BY <1>5, <2>1, Zenon DEF Proofs!Judge
<1>6. CASE kind = "sharepoint-file"
  <2>1. kind \notin {"contact", "inbox-rule", "category", "draft", "todo-task"}
    BY <1>6
  <2> QED  BY <1>6, <2>1, Zenon DEF Proofs!Judge
<1> QED  BY <1>1, <1>2, <1>3, <1>4, <1>5, <1>6

\* What the proofs make of a lookup: an answer or a request, for an id the proof
\* retains or has found; a create asks for nothing but a new object, and only when
\* nothing was found.
LEMMA JudgeTyped ==
  ASSUME kind \in Proofs!AllKinds, retained \in Ids \union {Proofs!None}, NEW h \in Proofs!Ops,
         NEW l \in Ids \union {Proofs!None, Proofs!Unclear}
  PROVE  /\ Proofs!Judge(h, l).told \in {"sent", "conflict", "configured", "removed"}
         /\ Proofs!Judge(h, l).target \in Ids \union {Proofs!None}
         /\ Proofs!Judge(h, l).keep \in Ids \union {Proofs!None}
         /\ Proofs!Judge(h, l).told = "sent" =>
              /\ h = "create" => l = Proofs!None
              /\ h = "remove" => Proofs!Judge(h, l).target \in Ids
              /\ Proofs!Judge(h, l).keep = retained
<1>1. CASE l = Proofs!Unclear
  <2>1. Proofs!Judge(h, l) = Proofs!Conflict
    BY <1>1, Zenon DEF Proofs!Judge
  <2> QED  BY <2>1 DEF Proofs!Conflict, Proofs!Ends
<1>2. CASE l # Proofs!Unclear
  <2> USE DEF Proofs!Ends, Proofs!Sends, Proofs!Conflict
  <2>1. CASE kind = "contact"
    BY <1>2, <2>1, JudgeIs DEF Proofs!ContactCreate, Proofs!ContactRemove
  <2>2. CASE kind = "inbox-rule"
    BY <1>2, <2>2, JudgeIs DEF Proofs!InboxRuleCreate, Proofs!InboxRuleRemove
  <2>3. CASE kind = "category"
    BY <1>2, <2>3, JudgeIs DEF Proofs!CategoryCreate, Proofs!CategoryRemove
  <2>4. CASE kind = "draft"
    BY <1>2, <2>4, JudgeIs DEF Proofs!DraftCreate, Proofs!DraftRemove
  <2>5. CASE kind = "todo-task"
    BY <1>2, <2>5, JudgeIs DEF Proofs!TaskCreate, Proofs!TaskRemove
  <2>6. CASE kind = "sharepoint-file"
    BY <1>2, <2>6, JudgeIs DEF Proofs!FileCreate, Proofs!FileRemove
  <2> QED  BY <2>1, <2>2, <2>3, <2>4, <2>5, <2>6 DEF Proofs!AllKinds
<1> QED  BY <1>1, <1>2

Mutations == [op : Proofs!Ops, target : Ids \union {Proofs!None}, tag : 0..MaxEdits,
              number : 0..MaxCalls, heard : BOOLEAN]

Muted(q) == [q EXCEPT !.heard = FALSE]

\* Requests nobody hears about any more are the ones they were but for that.
LEMMA AbandonedIs ==
  ASSUME flight \subseteq Mutations, IsFiniteSet(flight), NEW ops
  PROVE  /\ Proofs!Abandoned(ops) \subseteq Mutations
         /\ IsFiniteSet(Proofs!Abandoned(ops))
         /\ \A q \in flight : ~q.heard \/ q.op \notin ops => q \in Proofs!Abandoned(ops)
         /\ \A r \in Proofs!Abandoned(ops) :
              /\ r.heard \/ r.op \notin ops => r \in flight
              /\ r.heard => r.op \notin ops
              /\ \E q \in flight :
                   /\ r.op = q.op /\ r.target = q.target /\ r.tag = q.tag
                   /\ r # q => q.heard /\ ~r.heard /\ q.op \in ops /\ r = Muted(q)
<1> DEFINE Mute(q) == [q EXCEPT !.heard = q.heard /\ q.op \notin ops]
<1>1. Proofs!Abandoned(ops) = {Mute(q) : q \in flight}
  BY DEF Proofs!Abandoned
<1>2. ASSUME NEW q \in Mutations
      PROVE  /\ Mute(q) \in Mutations
             /\ Mute(q).op = q.op /\ Mute(q).target = q.target /\ Mute(q).tag = q.tag
             /\ Mute(q).heard = (q.heard /\ q.op \notin ops)
             /\ ~q.heard \/ q.op \notin ops => Mute(q) = q
             /\ q.heard /\ q.op \in ops => Mute(q) = Muted(q)
  BY DEF Mutations, Muted
<1> HIDE DEF Mute
<1>3. IsFiniteSet({Mute(q) : q \in flight})
  <2> DEFINE muted == [q \in flight |-> Mute(q)]
             all == {Mute(q) : q \in flight}
  <2>1. muted \in Surjection(flight, all)
    BY Zenon DEF Surjection
  <2> HIDE DEF muted, all
  <2>2. IsFiniteSet(all)
    BY <2>1, FS_Surjection
  <2> QED  BY <2>2 DEF all
<1>4. \A q \in flight : ~q.heard \/ q.op \notin ops => q \in Proofs!Abandoned(ops)
  BY <1>1, <1>2
<1>5. ASSUME NEW r \in Proofs!Abandoned(ops)
      PROVE  /\ r \in Mutations
             /\ r.heard \/ r.op \notin ops => r \in flight
             /\ r.heard => r.op \notin ops
             /\ \E q \in flight :
                  /\ r.op = q.op /\ r.target = q.target /\ r.tag = q.tag
                  /\ r # q => q.heard /\ ~r.heard /\ q.op \in ops /\ r = Muted(q)
  <2>1. PICK q \in flight : r = Mute(q)
    BY <1>1
  <2> QED  BY <1>2, <2>1 DEF Mutations
<1> QED  BY <1>1, <1>3, <1>4, <1>5

\* Creates that nobody hears about any more.
Unheard == {q \in flight : q.op = "create" /\ ~q.heard}

\* A create that found nothing, or has sent its request and not heard of it.
Underway == step["create"] = "waiting" \/ (step["create"] = "looked" /\ seen["create"] = Proofs!None)

\* A request that is heard of is its call's only one, and the call waits for it.
FlightInv ==
  /\ IsFiniteSet(flight)
  /\ \A q \in flight : q.heard => step[q.op] = "waiting"
  /\ \A q, r \in flight : q.heard /\ r.heard /\ q.op = r.op => q = r

\* What was made, what may still be made unheard, and what a create that found
\* nothing may make: one more, together, than creates that ended unheard.
MadeInv ==
  /\ \A i \in Ids : i \in made => store[i] # "unused"
  /\ Cardinality(Unheard) <= unsure
  /\ Cardinality(made \intersect Proofs!Visible) + Cardinality(Unheard) + (IF Underway THEN 1 ELSE 0)
       <= 1 + unsure

ProofsTyped == Proofs!TypeOK /\ \A i \in Ids : etag[i] <= edits

FixedInv == ProofsTyped /\ FlightInv /\ MadeInv

LEMMA ProofsTypedNext ==
  ASSUME ProofsTyped, IsFiniteSet(flight), Proofs!Next \/ UNCHANGED proofVars
  PROVE  ProofsTyped'
<1> USE DEF Proofs!Ops, Proofs!AllKinds
<1>0. /\ MaxCalls \in Nat /\ MaxEdits \in Nat /\ Proofs!None = "none" /\ Proofs!Unclear = "unclear"
      /\ flight \subseteq Mutations /\ kind \in Proofs!AllKinds /\ retained \in Ids \union {Proofs!None}
  BY OperationsAssumption, IdsApart DEF ProofsTyped, Proofs!TypeOK, Mutations
<1>1. CASE UNCHANGED proofVars
  BY <1>1 DEF proofVars, ProofsTyped, Proofs!TypeOK
<1>2. ASSUME NEW h \in Proofs!Ops, Proofs!Start(h)
      PROVE  ProofsTyped'
  <2>1. due' \in [Proofs!Ops -> BOOLEAN] /\ trouble' \in BOOLEAN
    BY <1>2 DEF Proofs!Start, ProofsTyped, Proofs!TypeOK, Proofs!Other
  <2> QED  BY <1>0, <1>2, <2>1 DEF Proofs!Start, ProofsTyped, Proofs!TypeOK, Proofs!graph
<1>3. ASSUME NEW h \in Proofs!Ops, Proofs!ReadFails(h)
      PROVE  ProofsTyped'
  <2>1. PICK told1 \in {"failed", "conflict"} : Proofs!Tell(h, told1)
    BY <1>3 DEF Proofs!ReadFails
  <2> QED  BY <1>0, <1>3, <2>1
      DEF Proofs!ReadFails, Proofs!Tell, Proofs!Note, ProofsTyped, Proofs!TypeOK, Proofs!graph
<1>4. ASSUME NEW h \in Proofs!Ops, Proofs!Looks(h)
      PROVE  ProofsTyped'
  <2>1. /\ seen' = [seen EXCEPT ![h] = Proofs!Lookup] /\ step' = [step EXCEPT ![h] = "looked"]
        /\ seenTag' = [seenTag EXCEPT ![h] = IF Proofs!Lookup \in Ids THEN etag[Proofs!Lookup] ELSE 0]
    BY <1>4 DEF Proofs!Looks
  <2>2. shown' \in [Proofs!Ops -> SUBSET Ids]
    BY <1>4 DEF Proofs!Looks, ProofsTyped, Proofs!TypeOK
  <2> QED  BY <1>0, <1>4, <2>1, <2>2, LookupIs
      DEF Proofs!Looks, ProofsTyped, Proofs!TypeOK, Proofs!graph
<1>5. ASSUME NEW h \in Proofs!Ops, Proofs!Decides(h)
      PROVE  ProofsTyped'
  <2> DEFINE d == Proofs!Judge(h, seen[h])
  <2>0. seen[h] \in Ids \union {Proofs!None, Proofs!Unclear}
    BY DEF ProofsTyped, Proofs!TypeOK
  <2>1. /\ d.told \in {"sent", "conflict", "configured", "removed"}
        /\ d.target \in Ids \union {Proofs!None} /\ d.keep \in Ids \union {Proofs!None}
    BY <1>0, <2>0, JudgeTyped
  <2>2. /\ retained' = d.keep
        /\ \/ /\ d.told = "sent"
              /\ flight' = flight \union {[op |-> h, target |-> d.target, tag |-> seenTag[h],
                                           number |-> calls, heard |-> TRUE]}
              /\ step' = [step EXCEPT ![h] = "waiting"]
              /\ UNCHANGED <<seen, seenTag, reply, answer, trouble>>
           \/ d.told # "sent" /\ Proofs!Tell(h, d.told) /\ Proofs!Reconciled(h, d.told) /\ UNCHANGED flight
        /\ UNCHANGED <<kind, store, etag, calls, edits, made, shown, unsure, due>>
    BY <1>5 DEF Proofs!Decides
  <2> HIDE DEF d
  <2>3. [op |-> h, target |-> d.target, tag |-> seenTag[h], number |-> calls, heard |-> TRUE] \in Mutations
    BY <2>1 DEF Mutations, ProofsTyped, Proofs!TypeOK
  <2>4. flight' \subseteq Mutations
    BY <1>0, <2>2, <2>3
  <2>5. CASE d.told = "sent"
    BY <1>0, <2>1, <2>2, <2>4, <2>5 DEF ProofsTyped, Proofs!TypeOK, Mutations
  <2>6. CASE d.told # "sent"
    <3>1. Proofs!Tell(h, d.told) /\ trouble' \in BOOLEAN
      BY <2>2, <2>6 DEF Proofs!Reconciled
    <3> QED  BY <1>0, <2>1, <2>2, <2>4, <2>6, <3>1 DEF Proofs!Tell, ProofsTyped, Proofs!TypeOK, Mutations
  <2> QED  BY <2>5, <2>6
<1>6. ASSUME NEW h \in Proofs!Ops, Proofs!GivesUp(h)
      PROVE  ProofsTyped'
  <2>1. flight' \subseteq Mutations
    BY <1>0, <1>6, AbandonedIs DEF Proofs!GivesUp
  <2>2. Proofs!Tell(h, "failed") /\ Proofs!Note({h}, TRUE) /\ UNCHANGED <<kind, store, etag, retained, calls, edits, made, shown>>
    BY <1>6 DEF Proofs!GivesUp
  <2>3. unsure' \in Nat
    BY <1>6 DEF Proofs!GivesUp, ProofsTyped, Proofs!TypeOK
  <2> QED  BY <1>0, <2>1, <2>2, <2>3 DEF Proofs!Tell, Proofs!Note, ProofsTyped, Proofs!TypeOK, Mutations
<1>7. ASSUME NEW h \in Proofs!Ops, Proofs!Hears(h)
      PROVE  ProofsTyped'
  <2>1. retained' \in Ids \union {Proofs!None} /\ trouble' \in BOOLEAN
    BY <1>0, <1>7 DEF Proofs!Hears, Proofs!RetainsWhenConfirmed, Proofs!Reconciled, ProofsTyped, Proofs!TypeOK
  <2>2. \E x \in {"configured", "removed", "conflict", "failed"} : Proofs!Tell(h, x)
    BY <1>7 DEF Proofs!Hears
  <2> QED  BY <1>0, <1>7, <2>1, <2>2
      DEF Proofs!Hears, Proofs!Tell, ProofsTyped, Proofs!TypeOK, Proofs!graph
<1>8. ASSUME NEW q \in flight, Proofs!Serve(q)
      PROVE  ProofsTyped'
  <2>1. q \in Mutations /\ flight' \subseteq flight
    BY <1>0, <1>8 DEF Proofs!Serve
  <2>2. ASSUME NEW r \in Ids \union {Proofs!None, "refused"}, Proofs!Answered(q, r)
        PROVE  /\ step' \in [Proofs!Ops -> {"idle", "reading", "looked", "waiting", "answered"}]
               /\ reply' \in [Proofs!Ops -> Ids \union {Proofs!None, "refused"}]
    BY <2>1, <2>2 DEF Proofs!Answered, ProofsTyped, Proofs!TypeOK, Mutations
  <2>3. CASE Proofs!Creates(q)
    BY <1>0, <1>8, <2>1, <2>2, <2>3 DEF Proofs!Serve, Proofs!Creates, ProofsTyped, Proofs!TypeOK, Mutations
  <2>4. CASE Proofs!Deletes(q)
    BY <1>0, <1>8, <2>1, <2>2, <2>4 DEF Proofs!Serve, Proofs!Deletes, ProofsTyped, Proofs!TypeOK, Mutations
  <2> QED  BY <1>8, <2>3, <2>4 DEF Proofs!Serve
<1>9. ASSUME NEW q \in flight, Proofs!Refuses(q)
      PROVE  ProofsTyped'
  <2>1. q \in Mutations /\ flight' \subseteq flight
    BY <1>0, <1>9 DEF Proofs!Refuses
  <2> QED  BY <1>0, <1>9, <2>1
      DEF Proofs!Refuses, Proofs!Answered, Proofs!Note, ProofsTyped, Proofs!TypeOK, Mutations
<1>10. ASSUME NEW i \in Ids, Proofs!UserEdits(i)
       PROVE  ProofsTyped'
  <2>1. edits' = edits + 1 /\ edits < MaxEdits /\ UNCHANGED <<kind, flight, retained, calls, made, shown, unsure>>
        /\ UNCHANGED <<step, seen, seenTag, reply, answer>> /\ Proofs!Note(Proofs!Ops, TRUE)
    BY <1>10 DEF Proofs!UserEdits, Proofs!call
  <2>2. store' \in [Ids -> {"unused", "exact", "changed", "hidden", "gone"}]
    BY <1>10 DEF Proofs!UserEdits, ProofsTyped, Proofs!TypeOK
  <2>3. etag' \in [Ids -> 0..MaxEdits] /\ \A j \in Ids : etag'[j] <= edits'
    BY <1>0, <1>10, <2>1 DEF Proofs!UserEdits, ProofsTyped, Proofs!TypeOK
  <2> QED  BY <1>0, <2>1, <2>2, <2>3 DEF Proofs!Note, ProofsTyped, Proofs!TypeOK
<1>11. CASE Proofs!Restart
  <2>1. flight' \subseteq Mutations
    BY <1>0, <1>11, AbandonedIs DEF Proofs!Restart
  <2> QED  BY <1>0, <1>11, <2>1 DEF Proofs!Restart, ProofsTyped, Proofs!TypeOK, Mutations
<1> QED  BY <1>1, <1>2, <1>3, <1>4, <1>5, <1>6, <1>7, <1>8, <1>9, <1>10, <1>11 DEF Proofs!Next

\* What a call that decides does.
LEMMA DecidesIs ==
  ASSUME ProofsTyped, NEW h \in Proofs!Ops, Proofs!Decides(h)
  PROVE  LET d == Proofs!Judge(h, seen[h])
             q == [op |-> h, target |-> d.target, tag |-> seenTag[h], number |-> calls, heard |-> TRUE]
         IN  /\ step[h] = "looked" /\ retained' = d.keep
             /\ UNCHANGED <<kind, store, etag, calls, edits, made, shown, unsure, due>>
             /\ \/ /\ d.told = "sent" /\ q \in Mutations /\ flight' = flight \union {q}
                   /\ h = "create" => seen[h] = Proofs!None
                   /\ h = "remove" => d.target \in Ids
                   /\ retained' = retained
                   /\ step' = [step EXCEPT ![h] = "waiting"]
                   /\ UNCHANGED <<seen, seenTag, reply, answer, trouble>>
                \/ /\ d.told \in {"conflict", "configured", "removed"}
                   /\ Proofs!Tell(h, d.told) /\ Proofs!Reconciled(h, d.told) /\ flight' = flight
<1> DEFINE d == Proofs!Judge(h, seen[h])
<1>1. /\ step[h] = "looked" /\ retained' = d.keep
      /\ \/ /\ d.told = "sent"
            /\ flight' = flight \union {[op |-> h, target |-> d.target, tag |-> seenTag[h],
                                         number |-> calls, heard |-> TRUE]}
            /\ step' = [step EXCEPT ![h] = "waiting"]
            /\ UNCHANGED <<seen, seenTag, reply, answer, trouble>>
         \/ d.told # "sent" /\ Proofs!Tell(h, d.told) /\ Proofs!Reconciled(h, d.told) /\ UNCHANGED flight
      /\ UNCHANGED <<kind, store, etag, calls, edits, made, shown, unsure, due>>
  BY DEF Proofs!Decides
<1>2. /\ kind \in Proofs!AllKinds /\ retained \in Ids \union {Proofs!None}
      /\ seen[h] \in Ids \union {Proofs!None, Proofs!Unclear}
      /\ seenTag[h] \in 0..MaxEdits /\ calls \in 0..MaxCalls
  BY DEF ProofsTyped, Proofs!TypeOK
<1>3. /\ d.told \in {"sent", "conflict", "configured", "removed"}
      /\ d.target \in Ids \union {Proofs!None}
      /\ d.told = "sent" => /\ h = "create" => seen[h] = Proofs!None
                            /\ h = "remove" => d.target \in Ids
                            /\ d.keep = retained
  BY <1>2, JudgeTyped
<1> HIDE DEF d
<1>4. [op |-> h, target |-> d.target, tag |-> seenTag[h], number |-> calls, heard |-> TRUE] \in Mutations
  BY <1>2, <1>3 DEF Mutations
<1> QED  BY <1>1, <1>3, <1>4 DEF d

LEMMA FlightNext ==
  ASSUME ProofsTyped, FlightInv, Proofs!Next \/ UNCHANGED proofVars
  PROVE  FlightInv'
<1> USE DEF Proofs!Ops
<1>0. flight \subseteq Mutations /\ IsFiniteSet(flight)
      /\ step \in [Proofs!Ops -> {"idle", "reading", "looked", "waiting", "answered"}]
      /\ \A q \in flight : q.op \in Proofs!Ops
  BY DEF ProofsTyped, Proofs!TypeOK, FlightInv, Mutations
\* A call that was not waiting, and does not begin to.
<1>1. ASSUME flight' = flight, NEW h \in Proofs!Ops, NEW x, step' = [step EXCEPT ![h] = x], step[h] # "waiting"
      PROVE  FlightInv'
  BY <1>0, <1>1 DEF FlightInv
<1>2. CASE UNCHANGED proofVars
  BY <1>2 DEF proofVars, FlightInv
<1>3. ASSUME NEW h \in Proofs!Ops, Proofs!Start(h) \/ Proofs!ReadFails(h) \/ Proofs!Looks(h) \/ Proofs!Hears(h)
      PROVE  FlightInv'
  <2>1. flight' = flight /\ step[h] # "waiting" /\ \E x : step' = [step EXCEPT ![h] = x]
    BY <1>3 DEF Proofs!Start, Proofs!ReadFails, Proofs!Looks, Proofs!Hears, Proofs!Tell, Proofs!graph
  <2> QED  BY <1>1, <2>1
<1>4. ASSUME NEW h \in Proofs!Ops, Proofs!Decides(h)
      PROVE  FlightInv'
  <2>1. CASE flight' = flight
    <3>1. step[h] # "waiting" /\ (step' = [step EXCEPT ![h] = "idle"] \/ step' = [step EXCEPT ![h] = "waiting"])
      BY <1>4, DecidesIs DEF Proofs!Tell
    <3> QED  BY <1>1, <2>1, <3>1
  <2>2. ASSUME NEW q \in Mutations, q.op = h, flight' = flight \union {q}, step' = [step EXCEPT ![h] = "waiting"]
        PROVE  FlightInv'
    <3>1. IsFiniteSet(flight')
      BY <1>0, <2>2, FS_AddElement
    <3>2. \A r \in flight : r.heard => r.op # h
      BY <1>4, DecidesIs DEF FlightInv
    <3> QED  BY <1>0, <2>2, <3>1, <3>2 DEF FlightInv
  <2> QED  BY <1>4, <2>1, <2>2, DecidesIs
<1>5. ASSUME NEW h \in Proofs!Ops, Proofs!GivesUp(h)
      PROVE  FlightInv'
  <2>1. flight' = Proofs!Abandoned({h}) /\ step' = [step EXCEPT ![h] = "idle"]
    BY <1>5 DEF Proofs!GivesUp, Proofs!Tell
  <2>2. IsFiniteSet(flight') /\ \A r \in flight' : r.heard => r \in flight /\ r.op # h
    BY <1>0, <2>1, AbandonedIs
  <2> QED  BY <1>0, <2>1, <2>2 DEF FlightInv
<1>6. ASSUME NEW q \in flight, Proofs!Serve(q) \/ Proofs!Refuses(q)
      PROVE  FlightInv'
  <2>1. flight' = flight \ {q}
    BY <1>6 DEF Proofs!Serve, Proofs!Refuses
  <2>2. IsFiniteSet(flight')
    BY <1>0, <2>1, FS_RemoveElement
  <2>3. IF q.heard THEN step' = [step EXCEPT ![q.op] = "answered"] ELSE UNCHANGED step
    BY <1>6 DEF Proofs!Serve, Proofs!Refuses, Proofs!Creates, Proofs!Deletes, Proofs!Answered
  <2> QED  BY <1>0, <2>1, <2>2, <2>3 DEF FlightInv
<1>7. ASSUME NEW i \in Ids, Proofs!UserEdits(i)
      PROVE  FlightInv'
  BY <1>7 DEF Proofs!UserEdits, Proofs!call, FlightInv
<1>8. CASE Proofs!Restart
  <2>1. flight' = Proofs!Abandoned(Proofs!Ops)
    BY <1>8 DEF Proofs!Restart
  <2>2. IsFiniteSet(flight') /\ \A r \in flight' : ~r.heard
    <3>1. \A r \in flight' : r \in Mutations /\ (r.heard => r.op \notin Proofs!Ops)
      BY <1>0, <2>1, AbandonedIs
    <3> QED  BY <1>0, <2>1, <3>1, AbandonedIs DEF Mutations
  <2> QED  BY <2>2 DEF FlightInv
<1> QED  BY <1>2, <1>3, <1>4, <1>5, <1>6, <1>7, <1>8 DEF Proofs!Next

LEMMA OneMore ==
  ASSUME NEW S, IsFiniteSet(S), Cardinality(S) \in Nat, NEW x
  PROVE  IsFiniteSet(S \union {x}) /\ Cardinality(S \union {x}) <= Cardinality(S) + 1
BY FS_AddElement

\* At most one more create is unheard of once its call is abandoned.
LEMMA UnheardAbandoned ==
  ASSUME ProofsTyped, FlightInv, NEW ops, flight' = Proofs!Abandoned(ops)
  PROVE  /\ IsFiniteSet(Unheard') /\ IsFiniteSet(Unheard)
         /\ Cardinality(Unheard') <= Cardinality(Unheard) + 1
         /\ "create" \notin ops => Unheard' = Unheard
         /\ (\A q \in flight : q.op = "create" => ~q.heard) => Unheard' = Unheard
<1> DEFINE X == Unheard'
<1>7. X = {q \in Proofs!Abandoned(ops) : q.op = "create" /\ ~q.heard}
  BY DEF Unheard
<1> HIDE DEF X
<1>0. flight \subseteq Mutations /\ IsFiniteSet(flight) /\ Unheard \subseteq flight
  BY DEF ProofsTyped, Proofs!TypeOK, FlightInv, Mutations, Unheard
<1>1. IsFiniteSet(Unheard) /\ Cardinality(Unheard) \in Nat
  BY <1>0, FS_Subset, FS_CardinalityType
<1>2. Unheard \subseteq X
  BY <1>0, <1>7, AbandonedIs DEF Unheard
<1>3. ASSUME NEW r \in X, r \notin Unheard
      PROVE  "create" \in ops /\ \E q \in flight : q.op = "create" /\ q.heard /\ r = Muted(q)
  <2>1. PICK q \in flight :
          /\ r.op = q.op
          /\ r # q => q.heard /\ ~r.heard /\ q.op \in ops /\ r = Muted(q)
    BY <1>0, <1>7, AbandonedIs
  <2>2. r.op = "create" /\ ~r.heard /\ q # r
    BY <1>3, <1>7, <2>1 DEF Unheard
  <2> QED  BY <2>1, <2>2
<1>4. ASSUME "create" \notin ops \/ \A q \in flight : q.op = "create" => ~q.heard
      PROVE  X = Unheard
  <2>1. \A r \in X : r \in Unheard
    BY <1>3, <1>4
  <2> QED  BY <1>2, <2>1
<1>5. CASE X = Unheard
  <2>1. Unheard' = Unheard
    BY <1>5 DEF X
  <2> QED  BY <1>1, <2>1
<1>6. CASE X # Unheard
  <2>1. PICK c \in flight : c.op = "create" /\ c.heard
    BY <1>4, <1>6
  <2> DEFINE all == Unheard \union {Muted(c)}
  <2>2. X \subseteq all
    <3>1. \A r \in X : r \notin Unheard => r = Muted(c)
      BY <1>3, <2>1 DEF FlightInv
    <3> QED  BY <3>1
  <2>3. IsFiniteSet(all) /\ Cardinality(all) <= Cardinality(Unheard) + 1
    BY <1>1, OneMore
  <2> HIDE DEF all
  <2>4. IsFiniteSet(X) /\ Cardinality(X) <= Cardinality(all)
    BY <2>2, <2>3, FS_Subset
  <2>5. Cardinality(X) \in Nat /\ Cardinality(all) \in Nat
    BY <2>3, <2>4, FS_CardinalityType
  <2>6. Cardinality(X) <= Cardinality(Unheard) + 1
    BY <1>1, <2>3, <2>4, <2>5
  <2> QED  BY <1>1, <1>4, <1>6, <2>4, <2>6 DEF X
<1> QED  BY <1>4, <1>5, <1>6 DEF X

LEMMA MadeNext ==
  ASSUME FixedInv, Proofs!Next \/ UNCHANGED proofVars
  PROVE  MadeInv'
<1> USE DEF Proofs!Ops
<1> DEFINE There == made \intersect Proofs!Visible
           N == Cardinality(There)
           U == Cardinality(Unheard)
<1>0. /\ ProofsTyped /\ FlightInv /\ MadeInv
      /\ flight \subseteq Mutations /\ IsFiniteSet(flight)
      /\ step \in [Proofs!Ops -> {"idle", "reading", "looked", "waiting", "answered"}]
      /\ \A q \in flight : q.op \in Proofs!Ops
      /\ unsure \in Nat /\ made \subseteq Ids
      /\ store \in [Ids -> {"unused", "exact", "changed", "hidden", "gone"}]
  BY DEF FixedInv, ProofsTyped, Proofs!TypeOK, FlightInv, Mutations
<1>1. IsFiniteSet(There) /\ N \in Nat /\ IsFiniteSet(Unheard) /\ U \in Nat
  <2>1. There \subseteq Ids /\ Unheard \subseteq flight /\ IsFiniteSet(Ids)
    BY <1>0, OperationsAssumption DEF Unheard
  <2> HIDE DEF There
  <2> QED  BY <1>0, <2>1, FS_Subset, FS_CardinalityType
<1>2. U <= unsure /\ N + U + (IF Underway THEN 1 ELSE 0) <= 1 + unsure
      /\ \A i \in Ids : i \in made => store[i] # "unused"
  BY <1>0 DEF MadeInv
<1>3. ASSUME \A i \in Ids : i \in made' => store'[i] # "unused",
             NEW n \in Nat, n = Cardinality(There'), NEW u \in Nat, u = Cardinality(Unheard'), u <= unsure',
             n + u + (IF Underway' THEN 1 ELSE 0) <= 1 + unsure'
      PROVE  MadeInv'
  BY <1>3 DEF MadeInv
<1> HIDE DEF There, N, U
\* Nothing is made, hidden or sent, and no create begins.
<1>4. ASSUME There' = There, Unheard' = Unheard, Underway' => Underway, unsure' = unsure,
             made' = made, store' = store
      PROVE  MadeInv'
  BY <1>0, <1>1, <1>2, <1>3, <1>4 DEF N, U
<1>5. CASE UNCHANGED proofVars
  BY <1>4, <1>5 DEF proofVars, There, Proofs!Visible, Unheard, Underway
<1>6. ASSUME NEW h \in Proofs!Ops, Proofs!Start(h) \/ Proofs!ReadFails(h) \/ Proofs!Hears(h)
      PROVE  MadeInv'
  <2>1. UNCHANGED <<store, flight, made, unsure>>
    BY <1>6 DEF Proofs!Start, Proofs!ReadFails, Proofs!Hears, Proofs!graph
  <2>2. /\ h # "create" => step'["create"] = step["create"] /\ seen'["create"] = seen["create"]
        /\ step'[h] \in {"idle", "reading"}
    BY <1>0, <1>6 DEF Proofs!Start, Proofs!ReadFails, Proofs!Hears, Proofs!Tell, ProofsTyped, Proofs!TypeOK
  <2>3. Underway' => Underway
    BY <2>2 DEF Underway
  <2> QED  BY <1>4, <2>1, <2>3 DEF There, Proofs!Visible, Unheard
<1>7. ASSUME NEW h \in Proofs!Ops, Proofs!Looks(h)
      PROVE  MadeInv'
  <2>1. UNCHANGED <<store, flight, made, unsure>>
    BY <1>7 DEF Proofs!Looks, Proofs!graph
  <2>2. There' = There /\ Unheard' = Unheard
    BY <2>1 DEF There, Proofs!Visible, Unheard
  <2>3. CASE h = "remove"
    <3>1. step'["create"] = step["create"] /\ seen'["create"] = seen["create"]
      BY <1>0, <1>7, <2>3 DEF Proofs!Looks, ProofsTyped, Proofs!TypeOK
    <3> QED  BY <1>4, <2>1, <2>2, <3>1 DEF Underway
  <2>4. CASE h = "create" /\ Proofs!Lookup # Proofs!None
    <3>1. step'["create"] = "looked" /\ seen'["create"] # Proofs!None
      BY <1>0, <1>7, <2>4 DEF Proofs!Looks, ProofsTyped, Proofs!TypeOK
    <3> QED  BY <1>4, <2>1, <2>2, <3>1 DEF Underway
  <2>5. CASE Proofs!Lookup = Proofs!None
    <3>1. There = {}
      BY <2>5, LookupIs DEF There
    <3>2. N = 0
      BY <3>1, FS_EmptySet DEF N
    <3> QED  BY <1>0, <1>1, <1>2, <1>3, <2>1, <2>2, <3>2 DEF N, U
  <2> QED  BY <2>3, <2>4, <2>5
<1>8. ASSUME NEW h \in Proofs!Ops, Proofs!Decides(h)
      PROVE  MadeInv'
  <2>1. UNCHANGED <<store, made, unsure>> /\ step[h] = "looked"
    BY <1>0, <1>8, DecidesIs
  <2>2. Unheard' = Unheard
    <3>1. \/ flight' = flight
          \/ \E q \in Mutations : q.heard /\ flight' = flight \union {q}
      BY <1>0, <1>8, DecidesIs
    <3> QED  BY <3>1 DEF Unheard
  <2>3. Underway' => Underway
    <3>1. CASE h = "remove"
      <4>1. step'["create"] = step["create"] /\ seen'["create"] = seen["create"]
        BY <1>0, <1>8, <3>1, DecidesIs DEF Proofs!Tell, ProofsTyped, Proofs!TypeOK
      <4> QED  BY <4>1 DEF Underway
    <3>2. CASE h = "create"
      <4>1. step'["create"] = "idle" \/ seen["create"] = Proofs!None
        BY <1>0, <1>8, <3>2, DecidesIs DEF Proofs!Tell
      <4> QED  BY <2>1, <3>2, <4>1 DEF Underway
    <3> QED  BY <3>1, <3>2
  <2> QED  BY <1>4, <2>1, <2>2, <2>3 DEF There, Proofs!Visible
<1>9. ASSUME NEW h \in Proofs!Ops, Proofs!GivesUp(h)
      PROVE  MadeInv'
  <2>1. /\ UNCHANGED <<store, made>> /\ unsure' = unsure + (IF h = "create" THEN 1 ELSE 0)
        /\ flight' = Proofs!Abandoned({h}) /\ step[h] \in {"waiting", "answered"}
        /\ step' = [step EXCEPT ![h] = "idle"] /\ seen' = [seen EXCEPT ![h] = Proofs!None]
    BY <1>9 DEF Proofs!GivesUp, Proofs!Tell
  <2>3. /\ IsFiniteSet(Unheard') /\ Cardinality(Unheard') <= U + 1
        /\ h # "create" => Unheard' = Unheard
        /\ (\A q \in flight : q.op = "create" => ~q.heard) => Unheard' = Unheard
    BY <1>0, <2>1, UnheardAbandoned DEF U
  <2>4. There' = There
    BY <2>1 DEF There, Proofs!Visible
  <2>5. CASE h = "remove"
    <3>1. Unheard' = Unheard /\ unsure' = unsure
      BY <1>0, <2>1, <2>3, <2>5
    <3>2. step'["create"] = step["create"] /\ seen'["create"] = seen["create"]
      BY <1>0, <2>1, <2>5 DEF ProofsTyped, Proofs!TypeOK
    <3> QED  BY <1>4, <2>1, <2>4, <3>1, <3>2 DEF Underway
  <2>6. CASE h = "create"
    <3>1. ~Underway' /\ unsure' = unsure + 1
      BY <1>0, <2>1, <2>6 DEF Underway
    <3>2. Cardinality(Unheard') \in Nat
      BY <2>3, FS_CardinalityType
    <3>3. step["create"] = "answered" => Cardinality(Unheard') = U
      BY <1>0, <2>3 DEF FlightInv, U
    <3>4. step["create"] = "waiting" => Underway
      BY DEF Underway
    <3> QED  BY <1>0, <1>1, <1>2, <1>3, <2>1, <2>3, <2>4, <2>6, <3>1, <3>2, <3>3, <3>4 DEF N
  <2> QED  BY <2>5, <2>6
\* A request that leaves, answered or not.
<1>10. ASSUME NEW q \in flight, flight' = flight \ {q}, unsure' = unsure, UNCHANGED seen,
              IF q.heard THEN step' = [step EXCEPT ![q.op] = "answered"] ELSE UNCHANGED step
       PROVE  /\ IsFiniteSet(Unheard') /\ Cardinality(Unheard') \in Nat /\ Cardinality(Unheard') <= U
              /\ q.op = "create" /\ ~q.heard => Cardinality(Unheard') = U - 1
              /\ q.op = "create" /\ q.heard => Underway /\ ~Underway'
              /\ ~(q.op = "create" /\ q.heard) => (Underway' <=> Underway)
  <2>1. Unheard' = IF q.op = "create" /\ ~q.heard THEN Unheard \ {q} ELSE Unheard
    BY <1>10 DEF Unheard
  <2>2. IsFiniteSet(Unheard \ {q}) /\ Cardinality(Unheard \ {q}) = (IF q \in Unheard THEN U - 1 ELSE U)
    BY <1>1, FS_RemoveElement DEF U
  <2>3. q.op = "create" /\ ~q.heard => q \in Unheard
    BY DEF Unheard
  <2>4. /\ IsFiniteSet(Unheard') /\ Cardinality(Unheard') <= U
        /\ q.op = "create" /\ ~q.heard => Cardinality(Unheard') = U - 1
    BY <1>1, <2>1, <2>2, <2>3 DEF U
  <2>5. Cardinality(Unheard') \in Nat
    BY <2>4, FS_CardinalityType
  <2>6. /\ q.op = "create" /\ q.heard => Underway /\ ~Underway'
        /\ ~(q.op = "create" /\ q.heard) => (Underway' <=> Underway)
    BY <1>0, <1>10 DEF Underway, FlightInv
  <2> QED  BY <2>4, <2>5, <2>6
<1>11. ASSUME NEW q \in flight, Proofs!Serve(q)
       PROVE  MadeInv'
  <2>1. /\ flight' = flight \ {q} /\ unsure' = unsure /\ UNCHANGED seen
        /\ IF q.heard THEN step' = [step EXCEPT ![q.op] = "answered"] ELSE UNCHANGED step
    BY <1>11 DEF Proofs!Serve, Proofs!Creates, Proofs!Deletes, Proofs!Answered
  <2>2. /\ IsFiniteSet(Unheard') /\ Cardinality(Unheard') \in Nat /\ Cardinality(Unheard') <= U
        /\ q.op = "create" /\ ~q.heard => Cardinality(Unheard') = U - 1
        /\ q.op = "create" /\ q.heard => Underway /\ ~Underway'
        /\ ~(q.op = "create" /\ q.heard) => (Underway' <=> Underway)
    BY <1>10, <2>1
  <2>3. ASSUME There' \subseteq There, \A i \in Ids : i \in made' => store'[i] # "unused"
        PROVE  MadeInv'
    <3>1. IsFiniteSet(There') /\ Cardinality(There') <= N
      BY <1>1, <2>3, FS_Subset DEF N
    <3>2. Cardinality(There') \in Nat
      BY <3>1, FS_CardinalityType
    <3> QED  BY <1>0, <1>1, <1>2, <1>3, <2>1, <2>2, <2>3, <3>1, <3>2
  <2>4. CASE UNCHANGED <<store, made>>
    BY <1>2, <2>3, <2>4 DEF There, Proofs!Visible
  <2>5. ASSUME NEW i \in Ids, q.op = "create", store[i] = "unused", store' = [store EXCEPT ![i] = "exact"],
               made' = made \union {i}
        PROVE  MadeInv'
    <3>1. There' = There \union {i} /\ i \notin There
      BY <1>0, <2>5 DEF There, Proofs!Visible
    <3>2. IsFiniteSet(There \union {i}) /\ Cardinality(There \union {i}) = N + 1
      BY <1>1, <3>1, FS_AddElement DEF N
    <3>3. Cardinality(There') = N + 1
      BY <3>1, <3>2
    <3>4. \A j \in Ids : j \in made' => store'[j] # "unused"
      BY <1>0, <1>2, <2>5
    <3> QED  BY <1>0, <1>1, <1>2, <1>3, <2>1, <2>2, <2>5, <3>3, <3>4
  <2>6. ASSUME made' = made, store' = [store EXCEPT ![q.target] = "gone"]
        PROVE  MadeInv'
    <3>1. There' \subseteq There /\ \A j \in Ids : j \in made' => store'[j] # "unused"
      BY <1>0, <1>2, <2>6 DEF There, Proofs!Visible
    <3> QED  BY <2>3, <3>1
  <2> QED  BY <1>11, <2>4, <2>5, <2>6 DEF Proofs!Serve, Proofs!Creates, Proofs!Deletes
<1>12. ASSUME NEW q \in flight, Proofs!Refuses(q)
       PROVE  MadeInv'
  <2>1. /\ flight' = flight \ {q} /\ unsure' = unsure /\ UNCHANGED seen /\ UNCHANGED <<store, made>>
        /\ IF q.heard THEN step' = [step EXCEPT ![q.op] = "answered"] ELSE UNCHANGED step
    BY <1>12 DEF Proofs!Refuses, Proofs!Answered
  <2>2. There' = There
    BY <2>1 DEF There, Proofs!Visible
  <2>3. /\ Cardinality(Unheard') \in Nat /\ Cardinality(Unheard') <= U /\ (Underway' => Underway)
    BY <1>10, <2>1
  <2> QED  BY <1>0, <1>1, <1>2, <1>3, <2>1, <2>2, <2>3 DEF N
<1>13. ASSUME NEW i \in Ids, Proofs!UserEdits(i)
       PROVE  MadeInv'
  <2>1. UNCHANGED <<flight, made, unsure, step, seen>>
    BY <1>13 DEF Proofs!UserEdits, Proofs!call
  <2>2. There' \subseteq There /\ \A j \in Ids : j \in made' => store'[j] # "unused"
    <3>1. store' = store \/ (\E x \in {"hidden", "gone", "changed"} :
                              store[i] \in {"exact", "changed"} /\ store' = [store EXCEPT ![i] = x])
          \/ (store[i] = "unused" /\ store' = [store EXCEPT ![i] = "exact"])
      BY <1>13 DEF Proofs!UserEdits
    <3> QED  BY <1>0, <1>2, <2>1, <3>1 DEF There, Proofs!Visible
  <2>3. IsFiniteSet(There') /\ Cardinality(There') <= N
    BY <1>1, <2>2, FS_Subset DEF N
  <2>4. Cardinality(There') \in Nat
    BY <2>3, FS_CardinalityType
  <2>5. Unheard' = Unheard /\ (Underway' => Underway)
    BY <2>1 DEF Unheard, Underway
  <2> QED  BY <1>0, <1>1, <1>2, <1>3, <2>1, <2>2, <2>3, <2>4, <2>5 DEF U
<1>14. CASE Proofs!Restart
  <2>1. /\ UNCHANGED <<store, made>> /\ flight' = Proofs!Abandoned(Proofs!Ops) /\ ~Underway'
        /\ unsure' = unsure + (IF step["create"] \in {"waiting", "answered"} THEN 1 ELSE 0)
    BY <1>14 DEF Proofs!Restart, Underway
  <2>2. /\ IsFiniteSet(Unheard') /\ Cardinality(Unheard') <= U + 1
        /\ (\A q \in flight : q.op = "create" => ~q.heard) => Unheard' = Unheard
    BY <1>0, <2>1, UnheardAbandoned DEF U
  <2>3. There' = There
    BY <2>1 DEF There, Proofs!Visible
  <2>4. Cardinality(Unheard') \in Nat
    BY <2>2, FS_CardinalityType
  <2>5. CASE step["create"] = "waiting"
    <3>1. Underway /\ unsure' = unsure + 1
      BY <2>1, <2>5 DEF Underway
    <3> QED  BY <1>0, <1>1, <1>2, <1>3, <2>1, <2>2, <2>3, <2>4, <3>1 DEF N
  <2>6. CASE step["create"] # "waiting"
    <3>1. Cardinality(Unheard') = U
      BY <1>0, <2>2, <2>6 DEF FlightInv, U
    <3>2. unsure' \in {unsure, unsure + 1}
      BY <1>0, <2>1
    <3> QED  BY <1>0, <1>1, <1>2, <1>3, <2>1, <2>3, <3>1, <3>2 DEF N
  <2> QED  BY <2>5, <2>6
<1> QED  BY <1>5, <1>6, <1>7, <1>8, <1>9, <1>11, <1>12, <1>13, <1>14 DEF Proofs!Next

LEMMA FixedNext ==
  ASSUME FixedInv, Proofs!Next \/ UNCHANGED proofVars
  PROVE  FixedInv'
BY ProofsTypedNext, FlightNext, MadeNext DEF FixedInv, FlightInv

LEMMA FixedStart == Init => FixedInv
<1> SUFFICES ASSUME Init PROVE FixedInv
  OBVIOUS
<1>1. Proofs!Init /\ MaxCalls \in Nat /\ MaxEdits \in Nat /\ Kinds \subseteq Proofs!AllKinds
  BY OperationsAssumption DEF Init
<1>2. ProofsTyped
  <2>1. /\ kind \in Proofs!AllKinds /\ retained = Proofs!None /\ flight = {} /\ made = {} /\ unsure = 0
        /\ trouble = FALSE /\ calls = 0 /\ edits = 0 /\ 0 \in 0..MaxCalls /\ 0 \in 0..MaxEdits
    BY <1>1 DEF Proofs!Init
  <2>2. /\ store \in [Ids -> {"unused", "exact", "changed", "hidden", "gone"}]
        /\ etag = [i \in Ids |-> 0] /\ etag \in [Ids -> 0..MaxEdits]
    BY <1>1, <2>1 DEF Proofs!Init
  <2>3. /\ step \in [Proofs!Ops -> {"idle", "reading", "looked", "waiting", "answered"}]
        /\ seen \in [Proofs!Ops -> Ids \union {Proofs!None, Proofs!Unclear}]
        /\ seenTag \in [Proofs!Ops -> 0..MaxEdits]
        /\ reply \in [Proofs!Ops -> Ids \union {Proofs!None, "refused"}]
        /\ answer \in [Proofs!Ops -> {Proofs!None, "configured", "removed", "conflict", "failed"}]
        /\ due \in [Proofs!Ops -> BOOLEAN] /\ shown \in [Proofs!Ops -> SUBSET Ids]
    BY <1>1, <2>1 DEF Proofs!Init
  <2>4. /\ retained \in Ids \union {Proofs!None} /\ calls \in 0..MaxCalls /\ edits \in 0..MaxEdits
        /\ made \subseteq Ids /\ unsure \in Nat /\ trouble \in BOOLEAN /\ flight \subseteq Mutations
    BY <2>1
  <2>5. \A i \in Ids : etag[i] <= edits
    BY <2>1, <2>2
  <2> QED  BY <2>1, <2>2, <2>3, <2>4, <2>5 DEF ProofsTyped, Proofs!TypeOK, Mutations
<1>3. FlightInv
  BY <1>1, FS_EmptySet DEF Proofs!Init, FlightInv
<1>4. MadeInv
  <2>1. Unheard = {} /\ made \intersect Proofs!Visible = {} /\ ~Underway /\ made = {} /\ unsure = 0
    BY <1>1 DEF Proofs!Init, Unheard, Underway, Proofs!Ops
  <2> QED  BY <2>1, FS_EmptySet DEF MadeInv
<1> QED  BY <1>2, <1>3, <1>4 DEF FixedInv

\* Of the objects the API made, two are found together only if a create ended
\* without hearing about its request: each proof looks before it creates, and one
\* create of a kind runs at a time (api/*-proof.ts, api/server.ts).
THEOREM OneObjectEach == Spec => []OneObject
<1>1. FixedInv /\ [Next]_apiVars => FixedInv'
  BY EachSteps, FixedNext
<1>2. FixedInv => OneObject
  <2> SUFFICES ASSUME FixedInv PROVE OneObject
    OBVIOUS
  <2> DEFINE There == made \intersect Proofs!Visible
  <2>1. There \subseteq Ids /\ IsFiniteSet(Ids) /\ unsure \in Nat /\ flight \in SUBSET flight /\ IsFiniteSet(flight)
    BY OperationsAssumption DEF FixedInv, ProofsTyped, Proofs!TypeOK, FlightInv
  <2>2. IsFiniteSet(Unheard)
    <3>1. Unheard \subseteq flight
      BY DEF Unheard
    <3> QED  BY <2>1, <3>1, FS_Subset
  <2> HIDE DEF There
  <2>3. Cardinality(There) \in Nat /\ Cardinality(Unheard) \in Nat
    BY <2>1, <2>2, FS_Subset, FS_CardinalityType
  <2>4. Cardinality(There) + Cardinality(Unheard) + (IF Underway THEN 1 ELSE 0) <= 1 + unsure
    BY DEF FixedInv, MadeInv, There
  <2>5. Cardinality(There) <= 1 + unsure
    BY <2>1, <2>3, <2>4
  <2> QED  BY <2>5, SameCardinality DEF OneObject, Proofs!OneObject, There
<1> QED  BY FixedStart, <1>1, <1>2, PTL DEF Spec

-----------------------------------------------------------------------------
\* The fixed proofs: calls that have no reason to fail.

\* Kinds whose calls end in a conflict when the id they retain is not the one found.
Insisting == {"category", "todo-task"}

\* While nothing troubled the process, what it retains and what its calls hold
\* agree with what Graph shows.
QuietInv ==
  ~trouble =>
    /\ \A q \in flight : q.heard
    /\ step["create"] = "looked" =>
         /\ seen["create"] = Proofs!None => Proofs!Visible = {}
         /\ seen["create"] \in Ids => Proofs!Visible \subseteq {seen["create"]}
         /\ seen["create"] \in Ids /\ kind \in Insisting => seen["create"] \in Proofs!Visible
    /\ step["create"] = "waiting" => Proofs!Visible = {}
    /\ step["create"] = "answered" =>
         /\ reply["create"] \in Ids /\ Proofs!Visible \subseteq {reply["create"]}
         /\ kind \in Insisting => reply["create"] \in Proofs!Visible
    /\ kind \notin Proofs!Stateless /\ retained # Proofs!None =>
         Proofs!Visible \subseteq {retained} \/ step["create"] = "answered"
    /\ kind \in Insisting =>
         /\ step["create"] = "idle" \/ step["remove"] = "idle"
         /\ retained # Proofs!None =>
              retained \in Proofs!Visible \/ (step["remove"] = "answered" /\ reply["remove"] = retained)
         /\ \A q \in flight : q.op = "remove" => retained \in {Proofs!None, q.target}

\* A call that has no reason to fail is alone, and what it found is still there.
DueInv ==
  \A h \in Proofs!Ops : due[h] =>
    /\ step[h] = "idle" => answer[h] \in {"configured", "removed"}
    /\ step[h] # "idle" =>
         /\ step[Proofs!Other(h)] = "idle" /\ \A q \in flight : q.heard /\ q.op = h
         /\ ~trouble \/ kind \in Proofs!Stateless \/ (h = "create" /\ kind \in {"category", "draft"})
    /\ step[h] \in {"reading", "looked"} =>
         /\ Proofs!Lookup # Proofs!Unclear
         /\ kind = "sharepoint-file" /\ h = "create" => Proofs!Visible = {}
    /\ step[h] = "looked" =>
         seen[h] = Proofs!Lookup /\ (seen[h] \in Ids => seenTag[h] = etag[seen[h]])
    /\ step[h] = "waiting" =>
         /\ h = "create" => Proofs!Visible = {}
         /\ h = "remove" => \A q \in flight : /\ q.target \in Ids /\ store[q.target] # "gone"
                                              /\ kind = "sharepoint-file" => etag[q.target] = q.tag
    /\ step[h] = "answered" => reply[h] \in Ids /\ (h = "create" => Proofs!Visible = {reply[h]})

\* What is known of an object that a removal aims at, or may come to aim at.
ShownInv ==
  /\ \A h \in Proofs!Ops : seen[h] \in Ids => seen[h] \in shown[h]
  /\ reply["create"] \in Ids => reply["create"] \in made
  /\ kind = "category" /\ retained \in Ids => retained \in shown["create"] \union made
  /\ \A q \in flight : q.op = "remove" => Proofs!Known(q.target)

HealthyInv == FixedInv /\ QuietInv /\ DueInv /\ ShownInv

\* What a proof says of a lookup that leaves it no doubt.
LEMMA JudgeSays ==
  ASSUME kind \in Proofs!AllKinds, retained \in Ids \union {Proofs!None}, NEW h \in Proofs!Ops,
         NEW l \in Ids \union {Proofs!None, Proofs!Unclear}, NEW d, d = Proofs!Judge(h, l)
  PROVE  /\ d.told = "conflict" /\ l # Proofs!Unclear =>
              \/ kind = "sharepoint-file" /\ h = "create" /\ l # Proofs!None
              \/ /\ kind \notin Proofs!Stateless /\ ~(h = "create" /\ kind \in {"category", "draft"})
                 /\ retained # Proofs!None /\ l # retained /\ (l = Proofs!None => kind = "todo-task")
         /\ d.told = "configured" =>
              /\ h = "create" /\ l \in Ids
              /\ d.keep = IF kind \in Proofs!Stateless THEN retained ELSE l
              /\ kind = "todo-task" => retained \in {Proofs!None, l}
         /\ d.told = "removed" => h = "remove" /\ d.keep \in {retained, Proofs!None}
         /\ d.told = "conflict" => d.keep = retained
         /\ d.told = "sent" /\ h = "remove" =>
              /\ d.target = l \/ (kind = "category" /\ retained # Proofs!None /\ d.target = retained)
              /\ kind \in Insisting => retained \in {Proofs!None, d.target}
<1>0. Proofs!None \notin Ids /\ Proofs!Unclear \notin Ids /\ Proofs!None # Proofs!Unclear
  BY IdsApart
<1>1. CASE l = Proofs!Unclear
  <2>1. Proofs!Judge(h, l) = Proofs!Conflict
    BY <1>1, Zenon DEF Proofs!Judge
  <2> QED  BY <1>1, <2>1 DEF Proofs!Conflict, Proofs!Ends
<1>2. CASE l # Proofs!Unclear
  <2> USE DEF Proofs!Ends, Proofs!Sends, Proofs!Conflict, Proofs!Stateless, Insisting, Proofs!Ops
  <2>1. CASE kind = "contact"
    BY <1>0, <1>2, <2>1, JudgeIs DEF Proofs!ContactCreate, Proofs!ContactRemove
  <2>2. CASE kind = "inbox-rule"
    BY <1>0, <1>2, <2>2, JudgeIs DEF Proofs!InboxRuleCreate, Proofs!InboxRuleRemove
  <2>3. CASE kind = "category"
    BY <1>0, <1>2, <2>3, JudgeIs DEF Proofs!CategoryCreate, Proofs!CategoryRemove
  <2>4. CASE kind = "draft"
    BY <1>0, <1>2, <2>4, JudgeIs DEF Proofs!DraftCreate, Proofs!DraftRemove
  <2>5. CASE kind = "todo-task"
    <3>1. CASE h = "create"
      <4>1. d = Proofs!TaskCreate(l)
        BY <1>2, <2>5, <3>1, JudgeIs
      <4>2. CASE retained \notin {Proofs!None, l}
        <5>1. d = Proofs!Conflict
          BY <4>1, <4>2 DEF Proofs!TaskCreate
        <5> QED  BY <2>5, <3>1, <4>2, <5>1
      <4>3. CASE retained \in {Proofs!None, l} /\ l = Proofs!None
        <5>1. d = Proofs!Sends(Proofs!None)
          BY <4>1, <4>3 DEF Proofs!TaskCreate
        <5> QED  BY <3>1, <5>1
      <4>4. CASE retained \in {Proofs!None, l} /\ l # Proofs!None
        <5>1. d = Proofs!Ends("configured", l)
          BY <4>1, <4>4, Zenon DEF Proofs!TaskCreate
        <5> QED  BY <1>2, <2>5, <3>1, <4>4, <5>1
      <4> QED  BY <4>2, <4>3, <4>4
    <3>2. CASE h = "remove"
      <4>1. d = Proofs!TaskRemove(l)
        BY <1>2, <2>5, <3>2, JudgeIs
      <4> QED  BY <1>0, <1>2, <2>5, <3>2, <4>1 DEF Proofs!TaskRemove
    <3> QED  BY <3>1, <3>2
  <2>6. CASE kind = "sharepoint-file"
    BY <1>0, <1>2, <2>6, JudgeIs DEF Proofs!FileCreate, Proofs!FileRemove
  <2> QED  BY <2>1, <2>2, <2>3, <2>4, <2>5, <2>6 DEF Proofs!AllKinds
<1> QED  BY <1>1, <1>2

LEMMA SameStore ==
  ASSUME UNCHANGED store
  PROVE  Proofs!Visible' = Proofs!Visible /\ Proofs!Lookup' = Proofs!Lookup
BY DEF Proofs!Visible, Proofs!Lookup

\* A call with no reason to fail that says "configured" knows the only object shown.
LEMMA QuietNext ==
  ASSUME HealthyInv, Proofs!Next \/ UNCHANGED proofVars
  PROVE  QuietInv'
<1> USE DEF Proofs!Ops, Insisting, Proofs!Stateless
<1>0. /\ ProofsTyped /\ FlightInv /\ QuietInv /\ DueInv
      /\ step \in [Proofs!Ops -> {"idle", "reading", "looked", "waiting", "answered"}]
      /\ seen \in [Proofs!Ops -> Ids \union {Proofs!None, Proofs!Unclear}]
      /\ reply \in [Proofs!Ops -> Ids \union {Proofs!None, "refused"}]
      /\ retained \in Ids \union {Proofs!None} /\ kind \in Proofs!AllKinds
      /\ trouble \in BOOLEAN /\ due \in [Proofs!Ops -> BOOLEAN]
      /\ Proofs!None \notin Ids /\ Proofs!Unclear \notin Ids /\ "refused" \notin Ids
      /\ Proofs!None # Proofs!Unclear
      /\ \A q \in flight : q.op \in Proofs!Ops /\ q.target \in Ids \union {Proofs!None}
      /\ store \in [Ids -> {"unused", "exact", "changed", "hidden", "gone"}]
  BY IdsApart DEF HealthyInv, FixedInv, ProofsTyped, Proofs!TypeOK
<1>1. CASE UNCHANGED proofVars
  BY <1>0, <1>1, SameStore DEF proofVars, QuietInv
<1>2. ASSUME NEW h \in Proofs!Ops, Proofs!Start(h)
      PROVE  QuietInv'
  <2>1. /\ UNCHANGED <<kind, store, flight, retained, seen, reply>> /\ step[h] = "idle"
        /\ step' = [step EXCEPT ![h] = "reading"]
        /\ trouble' = (trouble \/ (kind \in {"category", "todo-task"} /\ step[Proofs!Other(h)] # "idle"))
    BY <1>2 DEF Proofs!Start, Proofs!graph
  <2> QED  BY <1>0, <2>1, SameStore DEF QuietInv, Proofs!Other
<1>3. ASSUME NEW h \in Proofs!Ops, Proofs!ReadFails(h)
      PROVE  QuietInv'
  <2>1. /\ UNCHANGED <<kind, store, flight, retained>> /\ trouble' = trouble /\ step[h] = "reading"
        /\ step' = [step EXCEPT ![h] = "idle"] /\ seen' = [seen EXCEPT ![h] = Proofs!None]
        /\ reply' = [reply EXCEPT ![h] = Proofs!None]
    BY <1>0, <1>3 DEF Proofs!ReadFails, Proofs!graph, Proofs!Tell, Proofs!Note
  <2> QED  BY <1>0, <2>1, SameStore DEF QuietInv
<1>4. ASSUME NEW h \in Proofs!Ops, Proofs!Looks(h)
      PROVE  QuietInv'
  <2>1. /\ UNCHANGED <<kind, store, flight, retained, trouble, reply>> /\ step[h] = "reading"
        /\ step' = [step EXCEPT ![h] = "looked"] /\ seen' = [seen EXCEPT ![h] = Proofs!Lookup]
    BY <1>0, <1>4 DEF Proofs!Looks, Proofs!graph
  <2> QED  BY <1>0, <2>1, SameStore, LookupIs DEF QuietInv
<1>5. ASSUME NEW h \in Proofs!Ops, Proofs!GivesUp(h)
      PROVE  QuietInv'
  BY <1>5 DEF Proofs!GivesUp, Proofs!Note, QuietInv
<1>6. ASSUME NEW q \in flight, Proofs!Refuses(q)
      PROVE  QuietInv'
  BY <1>6 DEF Proofs!Refuses, Proofs!Note, QuietInv
<1>7. ASSUME NEW i \in Ids, Proofs!UserEdits(i)
      PROVE  QuietInv'
  BY <1>7 DEF Proofs!UserEdits, Proofs!Note, QuietInv
<1>8. CASE Proofs!Restart
  <2>1. /\ step' = [h \in Proofs!Ops |-> "idle"] /\ retained' = Proofs!None /\ trouble' = (flight # {})
        /\ flight' = Proofs!Abandoned(Proofs!Ops)
    BY <1>8 DEF Proofs!Restart
  <2>2. flight = {} => flight' = {}
    BY <2>1 DEF Proofs!Abandoned
  <2> QED  BY <2>1, <2>2 DEF QuietInv
\* A process that is not troubled hears of every request, whose call waits.
<1>8a. /\ ~trouble => \A q \in flight : q.heard /\ step[q.op] = "waiting"
       /\ \A h \in Proofs!Ops : due[h] /\ step[h] \in {"looked", "answered"} => flight = {}
  BY <1>0 DEF QuietInv, DueInv, FlightInv
<1>9. ASSUME NEW h \in Proofs!Ops, Proofs!Decides(h)
      PROVE  QuietInv'
  <2> DEFINE d == Proofs!Judge(h, seen[h])
             q == [op |-> h, target |-> d.target, tag |-> seenTag[h], number |-> calls, heard |-> TRUE]
  <2>1. /\ step[h] = "looked" /\ retained' = d.keep /\ UNCHANGED <<kind, store>>
        /\ Proofs!Visible' = Proofs!Visible
    BY <1>0, <1>9, DecidesIs, SameStore
  <2>2. /\ d.told = "configured" =>
             /\ h = "create" /\ seen[h] \in Ids
             /\ kind \notin Proofs!Stateless => d.keep = seen[h]
             /\ kind \in Proofs!Stateless => d.keep = retained
        /\ d.told = "removed" => h = "remove" /\ d.keep \in {retained, Proofs!None}
        /\ d.told = "conflict" => d.keep = retained
        /\ d.told = "sent" /\ h = "remove" /\ kind \in Insisting => retained \in {Proofs!None, d.target}
    BY <1>0, JudgeSays
  <2>3. \/ /\ d.told = "sent" /\ flight' = flight \union {q} /\ trouble' = trouble
           /\ h = "create" => seen[h] = Proofs!None
           /\ retained' = retained /\ step' = [step EXCEPT ![h] = "waiting"]
           /\ UNCHANGED <<seen, reply>>
        \/ /\ d.told \in {"conflict", "configured", "removed"} /\ flight' = flight
           /\ step' = [step EXCEPT ![h] = "idle"] /\ seen' = [seen EXCEPT ![h] = Proofs!None]
           /\ reply' = [reply EXCEPT ![h] = Proofs!None]
           /\ trouble' = (trouble /\ ~(due[h] /\ d.told = "configured" /\ kind \in {"category", "draft"}))
    BY <1>0, <1>9, DecidesIs, Zenon DEF Proofs!Tell, Proofs!Reconciled
  <2>4. q.op = h /\ q.target = d.target /\ q.heard
    OBVIOUS
  <2> HIDE DEF d, q
  <2>5. CASE trouble'
    BY <2>5 DEF QuietInv
  <2>6. CASE trouble /\ ~trouble'
    <3>1. /\ d.told = "configured" /\ due[h] /\ flight = {} /\ flight' = {} /\ h = "create"
          /\ Proofs!Visible = {seen[h]} /\ retained' = seen[h] /\ seen[h] \in Ids
          /\ step' = [step EXCEPT ![h] = "idle"] /\ step["remove"] = "idle"
      BY <1>0, <1>8a, <2>1, <2>2, <2>3, <2>6, LookupIs DEF DueInv, Proofs!Other
    <3> QED  BY <1>0, <2>1, <3>1 DEF QuietInv
  <2>7. CASE ~trouble /\ ~trouble' /\ d.told = "sent"
    <3>1. CASE h = "create"
      BY <1>0, <2>1, <2>3, <2>4, <2>7, <3>1 DEF QuietInv
    <3>2. CASE h = "remove"
      BY <1>0, <2>1, <2>2, <2>3, <2>4, <2>7, <3>2 DEF QuietInv
    <3> QED  BY <3>1, <3>2
  <2>8. CASE ~trouble /\ ~trouble' /\ d.told = "configured"
    BY <1>0, <1>8a, <2>1, <2>2, <2>3, <2>8 DEF QuietInv
  <2>9. CASE ~trouble /\ ~trouble' /\ d.told \in {"conflict", "removed"}
    BY <1>0, <2>1, <2>2, <2>3, <2>9 DEF QuietInv
  <2> QED  BY <1>0, <2>3, <2>5, <2>6, <2>7, <2>8, <2>9
<1>10. ASSUME NEW h \in Proofs!Ops, Proofs!Hears(h)
       PROVE  QuietInv'
  <2>1. /\ step[h] = "answered" /\ UNCHANGED <<kind, store, flight>> /\ Proofs!Visible' = Proofs!Visible
        /\ step' = [step EXCEPT ![h] = "idle"] /\ seen' = [seen EXCEPT ![h] = Proofs!None]
        /\ reply' = [reply EXCEPT ![h] = Proofs!None]
    BY <1>10, SameStore DEF Proofs!Hears, Proofs!Tell, Proofs!graph
  <2>2. CASE reply[h] \notin Ids
    <3>1. UNCHANGED <<retained, trouble>>
      BY <1>10, <2>2 DEF Proofs!Hears
    <3> QED  BY <1>0, <2>1, <2>2, <3>1 DEF QuietInv
  <2>3. CASE reply[h] \in Ids
    <3>1. /\ retained' = IF kind \in Proofs!Stateless THEN retained
                         ELSE IF h = "create" THEN reply[h] ELSE Proofs!None
          /\ trouble' = (trouble /\ ~(due[h] /\ h = "create" /\ kind \in {"category", "draft"}))
      BY <1>0, <1>10, <2>3 DEF Proofs!Hears, Proofs!RetainsWhenConfirmed, Proofs!Reconciled
    <3>2. CASE trouble'
      BY <3>2 DEF QuietInv
    <3>3. CASE trouble /\ ~trouble'
      <4>1. /\ h = "create" /\ flight = {} /\ Proofs!Visible = {reply[h]} /\ retained' = reply[h]
            /\ step["remove"] = "idle"
        BY <1>0, <1>8a, <2>1, <3>1, <3>3 DEF DueInv, Proofs!Other
      <4> QED  BY <1>0, <2>1, <2>3, <4>1 DEF QuietInv
    <3>4. CASE ~trouble /\ ~trouble'
      BY <1>0, <1>8a, <2>1, <2>3, <3>1, <3>4 DEF QuietInv
    <3> QED  BY <1>0, <3>1, <3>2, <3>3, <3>4
  <2> QED  BY <2>2, <2>3
<1>11. ASSUME NEW q \in flight, Proofs!Serve(q)
       PROVE  QuietInv'
  <2>1. flight' = flight \ {q} /\ UNCHANGED <<kind, retained, seen, trouble>>
    BY <1>11 DEF Proofs!Serve
  <2>2. CASE trouble
    BY <2>1, <2>2 DEF QuietInv
  <2>3. CASE ~trouble /\ Proofs!Creates(q)
    <3>1. q.op = "create" /\ q.heard /\ step["create"] = "waiting" /\ Proofs!Visible = {}
      BY <1>0, <1>8a, <2>3 DEF Proofs!Creates, QuietInv
    <3>2. PICK i \in Ids : /\ store[i] = "unused" /\ store' = [store EXCEPT ![i] = "exact"]
                           /\ step' = [step EXCEPT !["create"] = "answered"]
                           /\ reply' = [reply EXCEPT !["create"] = i]
      BY <2>3, <3>1 DEF Proofs!Creates, Proofs!Answered
    <3>3. Proofs!Visible' = {i}
      BY <1>0, <3>1, <3>2 DEF Proofs!Visible
    <3> QED  BY <1>0, <2>1, <2>3, <3>1, <3>2, <3>3 DEF QuietInv
  <2>4. CASE ~trouble /\ Proofs!Deletes(q)
    <3>1. q.op = "remove" /\ q.heard /\ step["remove"] = "waiting"
      BY <1>0, <1>8a, <2>4 DEF Proofs!Deletes
    <3>2. /\ step' = [step EXCEPT !["remove"] = "answered"]
          /\ \/ store' = [store EXCEPT ![q.target] = "gone"] /\ reply' = [reply EXCEPT !["remove"] = q.target]
             \/ store' = store /\ reply' = [reply EXCEPT !["remove"] = "refused"]
      BY <2>4, <3>1 DEF Proofs!Deletes, Proofs!Answered
    <3>3. /\ Proofs!Visible' \subseteq Proofs!Visible
          /\ store' = store => Proofs!Visible' = Proofs!Visible
      BY <1>0, <3>2 DEF Proofs!Visible
    <3> QED  BY <1>0, <2>1, <2>4, <3>1, <3>2, <3>3 DEF QuietInv
  <2> QED  BY <1>11, <2>2, <2>3, <2>4 DEF Proofs!Serve
<1> QED  BY <1>1, <1>2, <1>3, <1>4, <1>5, <1>6, <1>7, <1>8, <1>9, <1>10, <1>11 DEF Proofs!Next


\* A call that has no reason to fail does not.
LEMMA DueNext ==
  ASSUME HealthyInv, Proofs!Next \/ UNCHANGED proofVars
  PROVE  DueInv'
<1> USE DEF Proofs!Ops
<1>0. /\ ProofsTyped /\ FlightInv /\ QuietInv /\ DueInv
      /\ step \in [Proofs!Ops -> {"idle", "reading", "looked", "waiting", "answered"}]
      /\ seen \in [Proofs!Ops -> Ids \union {Proofs!None, Proofs!Unclear}]
      /\ seenTag \in [Proofs!Ops -> 0..MaxEdits]
      /\ reply \in [Proofs!Ops -> Ids \union {Proofs!None, "refused"}]
      /\ answer \in [Proofs!Ops -> {Proofs!None, "configured", "removed", "conflict", "failed"}]
      /\ retained \in Ids \union {Proofs!None} /\ kind \in Proofs!AllKinds
      /\ trouble \in BOOLEAN /\ due \in [Proofs!Ops -> BOOLEAN]
      /\ Proofs!None \notin Ids /\ Proofs!Unclear \notin Ids /\ "refused" \notin Ids
      /\ Proofs!None # Proofs!Unclear
      /\ \A q \in flight : q.op \in Proofs!Ops /\ q.target \in Ids \union {Proofs!None}
      /\ store \in [Ids -> {"unused", "exact", "changed", "hidden", "gone"}]
  BY IdsApart DEF HealthyInv, FixedInv, ProofsTyped, Proofs!TypeOK
\* The other call, while one runs: if it had no reason to fail it is over.
<1>1. ASSUME NEW h \in Proofs!Ops, step[h] # "idle"
      PROVE  due[Proofs!Other(h)] =>
               step[Proofs!Other(h)] = "idle" /\ answer[Proofs!Other(h)] \in {"configured", "removed"}
  BY <1>0, <1>1 DEF DueInv, Proofs!Other
<1>2. \A h \in Proofs!Ops : due[h] /\ step[h] \in {"looked", "answered"} => flight = {}
  BY <1>0 DEF DueInv, FlightInv
<1>3. CASE UNCHANGED proofVars
  BY <1>0, <1>3, SameStore DEF proofVars, DueInv, Proofs!graph
<1>4. ASSUME NEW h \in Proofs!Ops, Proofs!Start(h)
      PROVE  DueInv'
  <2>1. /\ UNCHANGED <<kind, store, flight>> /\ step' = [step EXCEPT ![h] = "reading"]
        /\ trouble' = (trouble \/ (kind \in {"category", "todo-task"} /\ step[Proofs!Other(h)] # "idle"))
    BY <1>4 DEF Proofs!Start, Proofs!graph
  <2>2. /\ ~due'[Proofs!Other(h)]
        /\ due'[h] => /\ flight = {} /\ step[Proofs!Other(h)] = "idle" /\ Proofs!Lookup # Proofs!Unclear
                      /\ \/ ~trouble \/ kind \in Proofs!Stateless
                         \/ h = "create" /\ kind \in {"category", "draft"}
                      /\ (kind = "sharepoint-file" /\ h = "create") => Proofs!Visible = {}
    BY <1>0, <1>4 DEF Proofs!Start, Proofs!Other
  <2>3. step'[h] = "reading" /\ (due'[h] => step'[Proofs!Other(h)] = "idle")
    BY <1>0, <2>1, <2>2 DEF Proofs!Other
  <2>4. \A g \in Proofs!Ops : due'[g] => g = h
    BY <2>2 DEF Proofs!Other
  <2> QED  BY <1>0, <2>1, <2>2, <2>3, <2>4, SameStore DEF DueInv
<1>5. ASSUME NEW h \in Proofs!Ops, Proofs!ReadFails(h) \/ Proofs!GivesUp(h)
      PROVE  DueInv'
  <2>1. /\ step[h] # "idle" /\ step' = [step EXCEPT ![h] = "idle"]
        /\ \E says : answer' = [answer EXCEPT ![h] = says]
        /\ due' = [g \in Proofs!Ops |-> due[g] /\ g \notin {h}]
    BY <1>0, <1>5 DEF Proofs!ReadFails, Proofs!GivesUp, Proofs!Tell, Proofs!Note
  <2>2. ~due'[h]
    BY <2>1
  <2>3. ASSUME NEW g \in Proofs!Ops, g # h, due'[g]
        PROVE  step'[g] = "idle" /\ answer'[g] \in {"configured", "removed"}
    <3>0. due'[g] = (due[g] /\ g \notin {h})
      BY <2>1, <2>3
    <3>1. g = Proofs!Other(h) /\ due[g]
      <4>1. due[g]
        BY <2>3, <3>0
      <4>2. g = Proofs!Other(h)
        BY <2>3 DEF Proofs!Other
      <4> QED  BY <4>1, <4>2
    <3>2. step[g] = "idle" /\ answer[g] \in {"configured", "removed"}
      BY <1>1, <2>1, <3>1
    <3>3. step'[g] = step[g] /\ answer'[g] = answer[g]
      BY <1>0, <2>1, <2>3
    <3> QED  BY <3>2, <3>3
  <2> QED  BY <2>2, <2>3 DEF DueInv
<1>6. ASSUME NEW h \in Proofs!Ops, Proofs!Looks(h)
      PROVE  DueInv'
  <2>1. /\ UNCHANGED <<kind, store, etag, flight, trouble, due, answer>> /\ step[h] = "reading"
        /\ step' = [step EXCEPT ![h] = "looked"] /\ seen' = [seen EXCEPT ![h] = Proofs!Lookup]
        /\ seenTag' = [seenTag EXCEPT ![h] = IF Proofs!Lookup \in Ids THEN etag[Proofs!Lookup] ELSE 0]
    BY <1>6 DEF Proofs!Looks, Proofs!graph
  <2> QED  BY <1>0, <1>1, <2>1, SameStore DEF DueInv, Proofs!Other
<1>7. ASSUME NEW h \in Proofs!Ops, Proofs!Decides(h)
      PROVE  DueInv'
  <2> DEFINE d == Proofs!Judge(h, seen[h])
             q == [op |-> h, target |-> d.target, tag |-> seenTag[h], number |-> calls, heard |-> TRUE]
             l == seen[h]
  <2>1. /\ step[h] = "looked" /\ UNCHANGED <<kind, store, etag, due>>
        /\ Proofs!Visible' = Proofs!Visible /\ Proofs!Lookup' = Proofs!Lookup
    BY <1>0, <1>7, DecidesIs, SameStore
  <2>2. \/ /\ d.told = "sent" /\ flight' = flight \union {q} /\ trouble' = trouble
           /\ h = "create" => seen[h] = Proofs!None
           /\ h = "remove" => d.target \in Ids
           /\ step' = [step EXCEPT ![h] = "waiting"]
           /\ UNCHANGED <<seen, reply, answer>>
        \/ /\ d.told \in {"conflict", "configured", "removed"}
           /\ step' = [step EXCEPT ![h] = "idle"] /\ answer' = [answer EXCEPT ![h] = d.told]
    BY <1>0, <1>7, DecidesIs, Zenon DEF Proofs!Tell
  <2>3. /\ d.told = "conflict" /\ l # Proofs!Unclear =>
             \/ kind = "sharepoint-file" /\ h = "create" /\ l # Proofs!None
             \/ /\ kind \notin Proofs!Stateless /\ ~(h = "create" /\ kind \in {"category", "draft"})
                /\ retained # Proofs!None /\ l # retained /\ (l = Proofs!None => kind = "todo-task")
        /\ d.told = "sent" /\ h = "remove" =>
             d.target = l \/ (kind = "category" /\ retained # Proofs!None /\ d.target = retained)
    BY <1>0, JudgeSays
  <2>4. q.op = h /\ q.target = d.target /\ q.tag = seenTag[h] /\ q.heard
    OBVIOUS
  <2> HIDE DEF d, q
  <2>5. CASE ~due[h]
    <3>1. step'[Proofs!Other(h)] = step[Proofs!Other(h)] /\ answer'[Proofs!Other(h)] = answer[Proofs!Other(h)]
      BY <1>0, <2>2 DEF Proofs!Other
    <3>2. \A g \in Proofs!Ops : g # h => g = Proofs!Other(h)
      BY DEF Proofs!Other
    <3>3. \A g \in Proofs!Ops : due'[g] => step'[g] = "idle" /\ answer'[g] \in {"configured", "removed"}
      BY <1>1, <2>1, <2>5, <3>1, <3>2
    <3> QED  BY <3>3 DEF DueInv
  <2>6. CASE due[h]
    <3>1. /\ flight = {} /\ l = Proofs!Lookup /\ l # Proofs!Unclear /\ step[Proofs!Other(h)] = "idle"
          /\ l = Proofs!None <=> Proofs!Visible = {}
          /\ l \in Ids => Proofs!Visible = {l} /\ store[l] = "exact" /\ seenTag[h] = etag[l]
          /\ kind = "sharepoint-file" /\ h = "create" => Proofs!Visible = {}
          /\ ~trouble \/ kind \in Proofs!Stateless \/ (h = "create" /\ kind \in {"category", "draft"})
      BY <1>0, <1>2, <2>1, <2>6, LookupIs DEF DueInv
    <3>2. ~trouble /\ kind \notin Proofs!Stateless /\ retained # Proofs!None =>
            /\ Proofs!Visible \subseteq {retained}
            /\ kind \in Insisting => retained \in Proofs!Visible
      BY <1>0, <2>1, <3>1 DEF QuietInv, Proofs!Other
    <3>3. d.told # "conflict"
      BY <1>0, <2>3, <3>1, <3>2 DEF Insisting
    <3>4. due'[Proofs!Other(h)] => /\ step'[Proofs!Other(h)] = "idle"
                                   /\ answer'[Proofs!Other(h)] \in {"configured", "removed"}
      BY <1>0, <1>1, <2>1, <2>2 DEF Proofs!Other
    <3>5. step'[Proofs!Other(h)] = "idle"
      BY <1>0, <2>2, <3>1 DEF Proofs!Other
    <3>6. CASE d.told = "sent"
      <4>1. flight' = {q} /\ step'[h] = "waiting" /\ trouble' = trouble
        BY <1>0, <2>2, <3>1, <3>6
      <4>2. h = "create" => Proofs!Visible = {}
        BY <2>2, <3>1, <3>6
      <4>3. h = "remove" => /\ q.target \in Ids /\ store[q.target] # "gone"
                            /\ kind = "sharepoint-file" => etag[q.target] = q.tag
        <5> SUFFICES ASSUME h = "remove" PROVE /\ q.target \in Ids /\ store[q.target] # "gone"
                                               /\ kind = "sharepoint-file" => etag[q.target] = q.tag
          OBVIOUS
        <5>1. q.target \in Ids
          BY <2>2, <2>4, <3>6
        <5>2. CASE q.target = l
          BY <2>4, <3>1, <5>1, <5>2
        <5>3. CASE kind = "category" /\ retained # Proofs!None /\ q.target = retained
          BY <3>1, <3>2, <5>1, <5>3 DEF Insisting, Proofs!Visible, Proofs!Stateless
        <5> QED  BY <2>3, <2>4, <3>6, <5>2, <5>3
      <4>4. \A g \in Proofs!Ops : g = h \/ g = Proofs!Other(h)
        BY DEF Proofs!Other
      <4> QED  BY <1>0, <2>1, <2>4, <3>1, <3>4, <3>5, <4>1, <4>2, <4>3, <4>4 DEF DueInv
    <3>7. CASE d.told \in {"configured", "removed"}
      <4>1. step'[h] = "idle" /\ answer'[h] \in {"configured", "removed"}
        BY <1>0, <2>2, <3>7
      <4>2. \A g \in Proofs!Ops : g = h \/ g = Proofs!Other(h)
        BY DEF Proofs!Other
      <4>3. \A g \in Proofs!Ops : due'[g] => step'[g] = "idle" /\ answer'[g] \in {"configured", "removed"}
        BY <3>4, <4>1, <4>2
      <4> QED  BY <4>3 DEF DueInv
    <3> QED  BY <2>2, <3>3, <3>6, <3>7
  <2> QED  BY <2>5, <2>6
<1>8. ASSUME NEW h \in Proofs!Ops, Proofs!Hears(h)
      PROVE  DueInv'
  <2>1. /\ step[h] = "answered" /\ due' = due /\ step' = [step EXCEPT ![h] = "idle"]
        /\ \E says : answer' = [answer EXCEPT ![h] = says]
        /\ reply[h] \in Ids =>
             answer' = [answer EXCEPT ![h] = IF h = "create" THEN "configured" ELSE "removed"]
    BY <1>8, Zenon DEF Proofs!Hears, Proofs!Tell
  <2>2. due[h] => reply[h] \in Ids
    BY <1>0, <2>1 DEF DueInv
  <2>3. \A g \in Proofs!Ops : due'[g] => step'[g] = "idle" /\ answer'[g] \in {"configured", "removed"}
    BY <1>0, <1>1, <2>1, <2>2 DEF Proofs!Other
  <2> QED  BY <2>3 DEF DueInv
<1>9. ASSUME NEW q \in flight, Proofs!Serve(q)
      PROVE  DueInv'
  <2>1. flight' = flight \ {q} /\ UNCHANGED <<kind, seen, seenTag, etag, trouble, due, answer>>
    BY <1>9 DEF Proofs!Serve
  <2>2. IF q.heard THEN step' = [step EXCEPT ![q.op] = "answered"] ELSE UNCHANGED step
    BY <1>9 DEF Proofs!Serve, Proofs!Creates, Proofs!Deletes, Proofs!Answered
  <2>3. q.heard => step[q.op] = "waiting"
    BY <1>0 DEF FlightInv
  <2>4. ASSUME NEW g \in Proofs!Ops, due[g], step[g] # "idle"
        PROVE  /\ q.op = g /\ q.heard /\ step[g] = "waiting" /\ step'[g] = "answered"
               /\ step[Proofs!Other(g)] = "idle" /\ step'[Proofs!Other(g)] = "idle"
    BY <1>0, <2>2, <2>3, <2>4 DEF DueInv, Proofs!Other
  <2>5. ASSUME NEW g \in Proofs!Ops, due[g], step[g] # "idle"
        PROVE  reply'[g] \in Ids /\ (g = "create" => Proofs!Visible' = {reply'[g]})
    <3>1. CASE Proofs!Creates(q)
      <4>1. g = "create" /\ q.heard /\ Proofs!Visible = {}
        BY <1>0, <2>4, <2>5, <3>1 DEF Proofs!Creates, DueInv
      <4>2. PICK i \in Ids : /\ store' = [store EXCEPT ![i] = "exact"]
                             /\ reply' = [reply EXCEPT !["create"] = i]
        BY <2>4, <2>5, <3>1, <4>1 DEF Proofs!Creates, Proofs!Answered
      <4> QED  BY <1>0, <4>1, <4>2 DEF Proofs!Visible
    <3>2. CASE Proofs!Deletes(q)
      <4>1. g = "remove" /\ q.heard
        BY <2>4, <2>5, <3>2 DEF Proofs!Deletes
      <4>2. q.target \in Ids /\ store[q.target] # "gone" /\ Proofs!IfMatch(q)
        <5>1. due["remove"] /\ step["remove"] = "waiting"
          BY <2>4, <2>5, <4>1
        <5>2. \A r \in flight : /\ r.target \in Ids /\ store[r.target] # "gone"
                                /\ kind = "sharepoint-file" => etag[r.target] = r.tag
          BY <1>0, <5>1 DEF DueInv
        <5> QED  BY <1>9, <5>2 DEF Proofs!IfMatch
      <4>3. reply' = [reply EXCEPT !["remove"] = q.target]
        BY <2>4, <2>5, <3>2, <4>1, <4>2 DEF Proofs!Deletes, Proofs!Answered
      <4> QED  BY <1>0, <4>1, <4>2, <4>3
    <3> QED  BY <1>9, <3>1, <3>2 DEF Proofs!Serve
  <2>6. ASSUME NEW g \in Proofs!Ops, due[g], step[g] = "idle"
        PROVE  step'[g] = "idle"
    BY <1>0, <2>2, <2>3, <2>6
  <2>7. \A g \in Proofs!Ops : due'[g] =>
          \/ step'[g] = "idle" /\ answer'[g] \in {"configured", "removed"}
          \/ /\ step'[g] = "answered" /\ step'[Proofs!Other(g)] = "idle"
             /\ \A r \in flight' : r.heard /\ r.op = g
             /\ ~trouble' \/ kind' \in Proofs!Stateless \/ (g = "create" /\ kind' \in {"category", "draft"})
             /\ reply'[g] \in Ids /\ (g = "create" => Proofs!Visible' = {reply'[g]})
    BY <1>0, <2>1, <2>4, <2>5, <2>6 DEF DueInv
  <2> QED  BY <2>7 DEF DueInv
<1>10. ASSUME due' = [g \in Proofs!Ops |-> FALSE]
       PROVE  DueInv'
  BY <1>10 DEF DueInv
<1>11. ASSUME NEW q \in flight, Proofs!Refuses(q)
       PROVE  DueInv'
  BY <1>0, <1>10, <1>11 DEF Proofs!Refuses, Proofs!Note
<1>12. ASSUME NEW i \in Ids, Proofs!UserEdits(i)
       PROVE  DueInv'
  BY <1>0, <1>10, <1>12 DEF Proofs!UserEdits, Proofs!Note
<1>13. CASE Proofs!Restart
  BY <1>10, <1>13 DEF Proofs!Restart
<1> QED  BY <1>3, <1>4, <1>5, <1>6, <1>7, <1>8, <1>9, <1>11, <1>12, <1>13 DEF Proofs!Next

\* A removal aims at what it found, or at the category retained; a category is
\* retained that a create found, or that was retained before.
LEMMA JudgeShown ==
  ASSUME kind \in Proofs!AllKinds, retained \in Ids \union {Proofs!None}, NEW h \in Proofs!Ops,
         NEW l \in Ids \union {Proofs!None, Proofs!Unclear}, NEW d, d = Proofs!Judge(h, l)
  PROVE  /\ d.told = "sent" /\ h = "remove" => d.target = l \/ (kind = "category" /\ d.target = retained)
         /\ kind = "category" => d.keep \in {retained, Proofs!None} \/ (h = "create" /\ d.keep = l)
<1>1. CASE l = Proofs!Unclear
  <2>1. d = Proofs!Conflict
    BY <1>1, Zenon DEF Proofs!Judge
  <2> QED  BY <2>1 DEF Proofs!Conflict, Proofs!Ends
<1>2. CASE l # Proofs!Unclear
  <2> USE DEF Proofs!Ends, Proofs!Sends, Proofs!Conflict, Proofs!Ops
  <2>1. CASE kind = "contact"
    BY <1>2, <2>1, JudgeIs DEF Proofs!ContactCreate, Proofs!ContactRemove
  <2>2. CASE kind = "inbox-rule"
    BY <1>2, <2>2, JudgeIs DEF Proofs!InboxRuleCreate, Proofs!InboxRuleRemove
  <2>3. CASE kind = "category"
    BY <1>2, <2>3, JudgeIs DEF Proofs!CategoryCreate, Proofs!CategoryRemove
  <2>4. CASE kind = "draft"
    BY <1>2, <2>4, JudgeIs DEF Proofs!DraftCreate, Proofs!DraftRemove
  <2>5. CASE kind = "todo-task"
    BY <1>2, <2>5, JudgeIs DEF Proofs!TaskCreate, Proofs!TaskRemove
  <2>6. CASE kind = "sharepoint-file"
    BY <1>2, <2>6, JudgeIs DEF Proofs!FileCreate, Proofs!FileRemove
  <2> QED  BY <2>1, <2>2, <2>3, <2>4, <2>5, <2>6 DEF Proofs!AllKinds
<1> QED  BY <1>1, <1>2

LEMMA ShownNext ==
  ASSUME FixedInv, ShownInv, Proofs!Next \/ UNCHANGED proofVars
  PROVE  ShownInv'
<1> USE DEF Proofs!Ops
<1>0. /\ ProofsTyped /\ flight \subseteq Mutations /\ IsFiniteSet(flight)
      /\ kind \in Proofs!AllKinds /\ retained \in Ids \union {Proofs!None}
      /\ seen \in [Proofs!Ops -> Ids \union {Proofs!None, Proofs!Unclear}]
      /\ reply \in [Proofs!Ops -> Ids \union {Proofs!None, "refused"}]
      /\ shown \in [Proofs!Ops -> SUBSET Ids] /\ made \subseteq Ids
      /\ "none" \notin Ids /\ "refused" \notin Ids /\ Proofs!None = "none"
  BY IdsApart DEF FixedInv, ProofsTyped, Proofs!TypeOK, FlightInv, Mutations
\* What is known stays known.
<1>1. ASSUME kind' = kind, made \subseteq made', shown' = shown,
             \A h \in Proofs!Ops : seen'[h] \in Ids => seen'[h] = seen[h],
             reply'["create"] \in Ids => (reply'["create"] = reply["create"] \/ reply'["create"] \in made'),
             kind = "category" /\ retained' \in Ids =>
               \/ retained' = retained
               \/ retained' \in shown["create"] \union made,
             \A q \in flight' : q.op = "remove" => Proofs!Known(q.target)
      PROVE  ShownInv'
  BY <1>1 DEF ShownInv, Proofs!Known
<1>2. CASE UNCHANGED proofVars
  BY <1>2 DEF proofVars, ShownInv, Proofs!Known
<1>3. ASSUME NEW h \in Proofs!Ops, NEW x, Proofs!Tell(h, x)
      PROVE  /\ \A g \in Proofs!Ops : seen'[g] \in Ids => seen'[g] = seen[g]
             /\ reply'["create"] \in Ids => reply'["create"] = reply["create"]
  BY <1>0, <1>3 DEF Proofs!Tell
<1>4. ASSUME NEW h \in Proofs!Ops, Proofs!Start(h)
      PROVE  ShownInv'
  BY <1>1, <1>4 DEF Proofs!Start, Proofs!graph, ShownInv
<1>5. ASSUME NEW h \in Proofs!Ops, Proofs!ReadFails(h)
      PROVE  ShownInv'
  BY <1>1, <1>3, <1>5 DEF Proofs!ReadFails, Proofs!graph, ShownInv
<1>6. ASSUME NEW h \in Proofs!Ops, Proofs!Looks(h)
      PROVE  ShownInv'
  <2>1. /\ UNCHANGED <<kind, flight, retained, reply, made>>
        /\ seen' = [seen EXCEPT ![h] = Proofs!Lookup]
        /\ shown' = [shown EXCEPT ![h] = @ \union ({Proofs!Lookup} \intersect Ids)]
    BY <1>6 DEF Proofs!Looks, Proofs!graph
  <2>2. ASSUME NEW g \in Proofs!Ops
        PROVE  shown[g] \subseteq shown'[g] /\ (seen'[g] \in Ids => seen'[g] \in shown'[g])
    BY <1>0, <2>1 DEF ShownInv
  <2> QED  BY <2>1, <2>2 DEF ShownInv, Proofs!Known
<1>7. ASSUME NEW h \in Proofs!Ops, Proofs!Decides(h)
      PROVE  ShownInv'
  <2> DEFINE d == Proofs!Judge(h, seen[h])
             q == [op |-> h, target |-> d.target, tag |-> seenTag[h], number |-> calls, heard |-> TRUE]
  <2>1. /\ UNCHANGED <<kind, made, shown>> /\ retained' = d.keep
        /\ \/ /\ d.told = "sent" /\ q \in Mutations /\ flight' = flight \union {q}
              /\ h = "remove" => d.target \in Ids
              /\ UNCHANGED <<seen, reply>>
           \/ Proofs!Tell(h, d.told) /\ flight' = flight
    BY <1>0, <1>7, DecidesIs
  <2>2. /\ d.told = "sent" /\ h = "remove" => d.target = seen[h] \/ (kind = "category" /\ d.target = retained)
        /\ kind = "category" => d.keep \in {retained, Proofs!None} \/ (h = "create" /\ d.keep = seen[h])
    BY <1>0, JudgeShown
  <2>3. q.op = h /\ q.target = d.target
    OBVIOUS
  <2> HIDE DEF d, q
  <2>4. kind = "category" /\ retained' \in Ids =>
          retained' = retained \/ retained' \in shown["create"] \union made
    BY <1>0, <2>1, <2>2 DEF ShownInv
  <2>5. ASSUME d.told = "sent", h = "remove", d.target \in Ids
        PROVE  Proofs!Known(d.target)
    BY <1>0, <2>2, <2>5 DEF ShownInv, Proofs!Known
  <2>6. CASE d.told = "sent" /\ flight' = flight \union {q} /\ UNCHANGED <<seen, reply>>
             /\ (h = "remove" => d.target \in Ids)
    BY <1>1, <2>1, <2>3, <2>4, <2>5, <2>6 DEF ShownInv
  <2>7. CASE Proofs!Tell(h, d.told) /\ flight' = flight
    BY <1>1, <1>3, <2>1, <2>4, <2>7 DEF ShownInv
  <2> QED  BY <2>1, <2>6, <2>7
\* Requests that nobody hears of any more aim where they did.
<1>8. ASSUME NEW ops
      PROVE  \A r \in Proofs!Abandoned(ops) : r.op = "remove" => Proofs!Known(r.target)
  BY <1>0, AbandonedIs DEF ShownInv
<1>9. ASSUME NEW h \in Proofs!Ops, Proofs!GivesUp(h)
      PROVE  ShownInv'
  BY <1>1, <1>3, <1>8, <1>9 DEF Proofs!GivesUp
<1>10. ASSUME NEW h \in Proofs!Ops, Proofs!Hears(h)
       PROVE  ShownInv'
  <2>1. /\ UNCHANGED <<kind, flight, made, shown>> /\ \E x : Proofs!Tell(h, x)
        /\ (retained' = retained \/ (retained' = Proofs!RetainsWhenConfirmed(h, reply[h]) /\ reply[h] \in Ids))
    BY <1>10 DEF Proofs!Hears, Proofs!graph
  <2>2. kind = "category" /\ retained' \in Ids =>
          retained' = retained \/ retained' \in shown["create"] \union made
    BY <1>0, <2>1 DEF ShownInv, Proofs!RetainsWhenConfirmed
  <2> QED  BY <1>1, <1>3, <2>1, <2>2 DEF ShownInv
<1>11. ASSUME NEW q \in flight, NEW r, Proofs!Answered(q, r)
       PROVE  reply'["create"] = reply["create"] \/ (q.op = "create" /\ reply'["create"] = r)
  BY <1>0, <1>11 DEF Proofs!Answered
<1>12. ASSUME NEW q \in flight, Proofs!Serve(q)
       PROVE  ShownInv'
  <2>1. UNCHANGED <<kind, retained, seen, shown>> /\ flight' = flight \ {q}
    BY <1>12 DEF Proofs!Serve
  <2>2. /\ made \subseteq made'
        /\ reply'["create"] \in Ids => (reply'["create"] = reply["create"] \/ reply'["create"] \in made')
    <3>1. CASE Proofs!Creates(q)
      BY <1>0, <1>11, <2>1, <3>1 DEF Proofs!Creates
    <3>2. CASE Proofs!Deletes(q)
      BY <1>0, <1>11, <2>1, <3>2 DEF Proofs!Deletes
    <3> QED  BY <1>12, <3>1, <3>2 DEF Proofs!Serve
  <2> QED  BY <1>1, <2>1, <2>2 DEF ShownInv
<1>13. ASSUME NEW q \in flight, Proofs!Refuses(q)
       PROVE  ShownInv'
  BY <1>0, <1>1, <1>11, <1>13 DEF Proofs!Refuses, ShownInv
<1>14. ASSUME NEW i \in Ids, Proofs!UserEdits(i)
       PROVE  ShownInv'
  BY <1>1, <1>14 DEF Proofs!UserEdits, Proofs!call, ShownInv
<1>15. CASE Proofs!Restart
  BY <1>0, <1>1, <1>8, <1>15, IdsApart DEF Proofs!Restart
<1> QED  BY <1>2, <1>4, <1>5, <1>6, <1>7, <1>9, <1>10, <1>12, <1>13, <1>14, <1>15 DEF Proofs!Next

LEMMA HealthyNext ==
  ASSUME HealthyInv, Proofs!Next \/ UNCHANGED proofVars
  PROVE  HealthyInv'
BY FixedNext, QuietNext, DueNext, ShownNext DEF HealthyInv

LEMMA HealthyStart == Init => HealthyInv
<1> SUFFICES ASSUME Init PROVE HealthyInv
  OBVIOUS
<1>1. Proofs!Init
  BY DEF Init
<1>2. QuietInv
  BY <1>1 DEF Proofs!Init, QuietInv, Proofs!Ops
<1>3. DueInv
  BY <1>1 DEF Proofs!Init, DueInv
<1>4. ShownInv
  BY <1>1, IdsApart DEF Proofs!Init, ShownInv, Proofs!Ops
<1> QED  BY <1>2, <1>3, <1>4, FixedStart DEF HealthyInv

LEMMA HealthyMeans == HealthyInv => Proofs!HealthyCallsSucceed
BY DEF HealthyInv, DueInv, Proofs!HealthyCallsSucceed

\* A removal takes away an object that is known, of a file the version its request names.
LEMMA RemovesWhatItReadStep ==
  ASSUME FixedInv, ShownInv, Proofs!Next \/ UNCHANGED proofVars, NEW i \in Ids,
         store[i] # "gone", store'[i] = "gone", edits' = edits
  PROVE  /\ Proofs!Known(i)
         /\ \E q \in flight \ flight' :
              q.op = "remove" /\ q.target = i /\ (kind = "sharepoint-file" => q.tag = etag[i])
<1>0. /\ store \in [Ids -> {"unused", "exact", "changed", "hidden", "gone"}] /\ edits \in Nat
      /\ edits' # edits + 1
  BY OperationsAssumption DEF FixedInv, ProofsTyped, Proofs!TypeOK
<1>1. store' # store
  BY <1>0
<1>2. PICK q \in flight : Proofs!Serve(q)
  BY <1>0, <1>1 DEF Proofs!Next, proofVars, Proofs!Start, Proofs!ReadFails, Proofs!Looks, Proofs!Decides,
     Proofs!GivesUp, Proofs!Hears, Proofs!Refuses, Proofs!UserEdits, Proofs!Restart, Proofs!graph
<1>3. ~Proofs!Creates(q)
  <2> SUFFICES ASSUME Proofs!Creates(q) PROVE FALSE
    OBVIOUS
  <2>1. PICK j \in Ids : store' = [store EXCEPT ![j] = "exact"]
    BY <1>1 DEF Proofs!Creates
  <2> QED  BY <1>0, <2>1
<1>4. /\ q.op = "remove" /\ Proofs!IfMatch(q)
      /\ store' = [store EXCEPT ![q.target] = "gone"] /\ flight' = flight \ {q}
  BY <1>1, <1>2, <1>3 DEF Proofs!Serve, Proofs!Deletes
<1>5. q.target = i
  BY <1>0, <1>4
<1>6. Proofs!Known(i)
  BY <1>4, <1>5 DEF ShownInv
<1> QED  BY <1>4, <1>5, <1>6 DEF Proofs!IfMatch

-----------------------------------------------------------------------------
\* The OneDrive share.

ShareItems == [content : {"absent", "exact", "edited"}, id : Nat, tag : Nat]

ShareRequests == [verb : {"upload", "invite", "revoke", "delete"}, id : Nat, tag : Nat]

ShareTyped ==
  /\ Share!TypeOK /\ doc \in ShareItems /\ original \in ShareItems /\ current \in ShareItems
  /\ pending \subseteq ShareRequests /\ visits \in Nat /\ meddles \in Nat

\* Who holds this version may delete what bears it now.
Deletable(version) == version <= doc.tag /\ (version = doc.tag => doc.content # "edited")

\* A deletion on its way names a version that nobody edited.
DeletionInv ==
  /\ phase = "content again" => current.tag <= doc.tag
  /\ phase = "delete" => Deletable(current.tag)
  /\ \A r \in pending : r.verb = "delete" => Deletable(r.tag)

\* A call that nothing disturbed finds the file as its earlier requests left it.
SoundInv ==
  sound =>
    /\ phase \in {"path", "session", "upload"} => doc.content = "absent"
    /\ phase = "invite" => doc.content # "absent" /\ current.id = doc.id
    /\ phase \in {"resolve", "content", "permissions"} => doc.content = "exact" /\ access # "other"
    /\ phase \in {"content", "permissions"} => original = doc
    /\ phase \in {"content", "content again", "delete"} => current = doc
    /\ phase = "revoke" => doc.content = "exact" /\ access = "exact" /\ original = doc
    /\ phase = "resolve again" => doc.content = "exact" /\ original.id = doc.id
    /\ phase \in {"content again", "delete"} => doc.content = "exact"
    /\ IF phase = "idle" THEN outcome \in {"none", "configured", "removed"} ELSE outcome = "none"

ShareInv == ShareTyped /\ DeletionInv /\ SoundInv

\* What a request that takes effect does to the file and to whoever may delete it.
LEMMA ShareApplied ==
  ASSUME ShareTyped, NEW r \in ShareRequests, Share!Possible(r), Share!Applied(r)
  PROVE  /\ doc' \in ShareItems /\ access' \in {"none", "exact", "other"}
         /\ doc.tag <= doc'.tag
         /\ r.verb = "upload" => doc' = [content |-> "exact", id |-> doc.id + 1, tag |-> doc.tag + 1]
         /\ r.verb \in {"invite", "revoke"} => doc'.content = doc.content /\ doc'.id = doc.id
         /\ r.verb = "revoke" => access' = "none"
         /\ r.verb = "delete" => r.tag = doc.tag /\ doc'.content = "absent"
         /\ \A version \in Nat : Deletable(version) => Deletable(version)'
<1>0. doc \in ShareItems /\ r.verb \in {"upload", "invite", "revoke", "delete"}
  BY DEF ShareTyped, ShareRequests
<1>1. /\ doc' \in ShareItems /\ access' \in {"none", "exact", "other"} /\ doc.tag <= doc'.tag
      /\ r.verb = "upload" => doc' = [content |-> "exact", id |-> doc.id + 1, tag |-> doc.tag + 1]
      /\ r.verb \in {"invite", "revoke"} => doc'.content = doc.content /\ doc'.id = doc.id
      /\ r.verb = "revoke" => access' = "none"
      /\ r.verb = "delete" => r.tag = doc.tag /\ doc'.content = "absent"
  <2>1. CASE r.verb = "upload"
    BY <1>0, <2>1 DEF Share!Applied, ShareItems
  <2>2. CASE r.verb = "invite"
    BY <1>0, <2>2 DEF Share!Applied, ShareItems
  <2>3. CASE r.verb = "revoke"
    BY <1>0, <2>3 DEF Share!Applied, ShareItems
  <2>4. CASE r.verb = "delete"
    <3>1. doc' = [doc EXCEPT !.content = "absent"] /\ access' = "none"
      BY <2>4 DEF Share!Applied
    <3>2. r.tag = doc.tag
      BY <2>4 DEF Share!Possible, Share!IfMatch
    <3> QED  BY <1>0, <2>4, <3>1, <3>2 DEF ShareItems
  <2> QED  BY <1>0, <2>1, <2>2, <2>3, <2>4
<1>2. \A version \in Nat : Deletable(version) => Deletable(version)'
  BY <1>0, <1>1 DEF Deletable, ShareItems
<1> QED  BY <1>1, <1>2

\* A mutation: performed and confirmed, refused, or lost.
LEMMA ShareSends ==
  ASSUME ShareInv, NEW verb \in {"upload", "invite", "revoke", "delete"}, NEW item \in ShareItems,
         NEW ACTION next, NEW refused, Share!Sends(verb, item, next, refused),
         phase = "delete" => verb = "delete" /\ item = current
  PROVE  LET r == Share!Request(verb, item)
         IN  /\ phase = verb /\ UNCHANGED <<visits, meddles>> /\ r \in ShareRequests
             /\ r.verb = verb /\ r.id = item.id /\ r.tag = item.tag
             /\ pending' \subseteq ShareRequests
             /\ \A q \in pending' : q.verb = "delete" => Deletable(q.tag)'
             /\ \/ /\ Share!Possible(r) /\ Share!Applied(r) /\ touched' = TRUE /\ next
                   /\ UNCHANGED <<original, pending, sound>>
                \/ /\ ~Share!Possible(r) /\ phase' = "idle" /\ outcome' = refused
                   /\ UNCHANGED <<doc, access, original, current, pending, touched, sound>>
                \/ /\ phase' = "idle" /\ outcome' = "failed" /\ ~sound'
                   /\ UNCHANGED <<original, current, touched>>
                   /\ \/ Share!Possible(r) /\ Share!Applied(r)
                      \/ UNCHANGED <<doc, access>>
<1> DEFINE r == Share!Request(verb, item)
<1>0. /\ r \in ShareRequests /\ r.verb = verb /\ r.id = item.id /\ r.tag = item.tag
      /\ pending \subseteq ShareRequests /\ doc \in ShareItems
      /\ \A q \in pending : q.verb = "delete" => Deletable(q.tag)
      /\ verb = "delete" => phase = "delete" /\ Deletable(r.tag)
  BY DEF Share!Request, ShareRequests, ShareItems, ShareInv, ShareTyped, DeletionInv, Share!Sends
<1>1. /\ phase = verb /\ UNCHANGED <<visits, meddles>>
      /\ \/ /\ Share!Possible(r) /\ Share!Applied(r) /\ touched' = TRUE /\ next
            /\ UNCHANGED <<original, pending, sound>>
         \/ /\ ~Share!Possible(r) /\ phase' = "idle" /\ outcome' = refused
            /\ UNCHANGED <<doc, access, original, current, pending, touched, sound>>
         \/ /\ phase' = "idle" /\ outcome' = "failed" /\ ~sound'
            /\ UNCHANGED <<original, current, touched>>
            /\ \/ Share!Possible(r) /\ Share!Applied(r) /\ UNCHANGED pending
               \/ pending' \in {pending, pending \union {r}} /\ UNCHANGED <<doc, access>>
  BY DEF Share!Sends, Share!Ends, Share!Counters
<1> HIDE DEF r
<1>2. Share!Possible(r) /\ Share!Applied(r) =>
        \A version \in Nat : Deletable(version) => Deletable(version)'
  BY <1>0, ShareApplied DEF ShareInv
<1>3. UNCHANGED <<doc, access>> => \A version \in Nat : Deletable(version) => Deletable(version)'
  BY DEF Deletable
<1>4. pending' \subseteq pending \union {r} /\ (verb # "delete" => \A q \in pending' : q.verb = "delete" => q \in pending)
  BY <1>0, <1>1
<1>5. \A q \in pending' : q.verb = "delete" => q.tag \in Nat /\ Deletable(q.tag)
  BY <1>0, <1>4 DEF ShareRequests
<1>6. \A q \in pending' : q.verb = "delete" => Deletable(q.tag)'
  BY <1>1, <1>2, <1>3, <1>5
<1> QED  BY <1>0, <1>1, <1>4, <1>6 DEF r

LEMMA ShareNext ==
  ASSUME ShareInv, Share!Next \/ UNCHANGED shareVars
  PROVE  ShareInv' /\ (doc.content = "edited" /\ doc'.content = "absent" => meddles' # meddles)
<1> DEFINE Kept == doc.content = "edited" /\ doc'.content = "absent" => meddles' # meddles
<1> USE DEF Share!Phases, Deletable
<1>0. /\ ShareTyped /\ DeletionInv /\ SoundInv /\ Share!TypeOK
      /\ doc \in ShareItems /\ original \in ShareItems /\ current \in ShareItems
      /\ pending \subseteq ShareRequests /\ visits \in Nat /\ meddles \in Nat
      /\ Share!NoItem \in ShareItems
      /\ \A q \in pending : q.tag \in Nat
      /\ phase \in Share!Phases /\ touched \in BOOLEAN /\ sound \in BOOLEAN
      /\ access \in {"none", "exact", "other"}
      /\ outcome \in {"none", "configured", "removed", "conflict", "failed", "invite failed"}
  BY DEF ShareInv, ShareTyped, Share!NoItem, ShareItems, ShareRequests, Share!TypeOK
<1>b. doc \in ShareItems /\ doc.tag \in Nat /\ doc.id \in Nat /\ meddles + 1 \in Nat /\ visits + 1 \in Nat
      /\ meddles + 1 # meddles
  <2>1. doc \in ShareItems /\ meddles \in Nat /\ visits \in Nat
    BY <1>0
  <2>2. doc.tag \in Nat /\ doc.id \in Nat
    BY <2>1 DEF ShareItems
  <2> QED  BY <2>1, <2>2
\* The types, variable by variable.
<1>a. ASSUME doc' \in ShareItems, original' \in ShareItems, current' \in ShareItems,
             pending' \subseteq ShareRequests, visits' \in Nat, meddles' \in Nat,
             phase' \in Share!Phases, touched' \in BOOLEAN, sound' \in BOOLEAN,
             access' \in {"none", "exact", "other"},
             outcome' \in {"none", "configured", "removed", "conflict", "failed", "invite failed"}
      PROVE  ShareTyped'
  BY <1>a DEF ShareTyped, Share!TypeOK, ShareItems
<1>1. UNCHANGED doc => Kept /\ \A version \in Nat : Deletable(version) => Deletable(version)'
  BY DEF Deletable
\* What is left to show of a step that changes neither file nor requests.
<1>2. ASSUME UNCHANGED <<doc, access, pending, visits, meddles>>, Share!TypeOK',
             original' \in ShareItems, current' \in ShareItems, SoundInv',
             phase' \in {"content again", "delete"} =>
               current'.tag <= doc.tag /\ (phase' = "delete" => Deletable(current'.tag))
      PROVE  ShareInv' /\ Kept
  BY <1>0, <1>2 DEF ShareInv, ShareTyped, DeletionInv, Deletable
<1>3. CASE UNCHANGED shareVars
  <2>1. ShareTyped'
    BY <1>0, <1>3, <1>a DEF shareVars
  <2>2. DeletionInv'
    BY <1>0, <1>3 DEF shareVars, DeletionInv
  <2>3. SoundInv'
    BY <1>0, <1>3 DEF shareVars, SoundInv
  <2>4. Kept
    BY <1>0, <1>3 DEF shareVars
  <2> QED  BY <2>1, <2>2, <2>3, <2>4 DEF ShareInv
<1>4. CASE Share!Land
  <2>1. PICK r \in pending :
          /\ pending' = pending \ {r} /\ sound' = FALSE
          /\ IF Share!Possible(r) THEN Share!Applied(r) ELSE UNCHANGED <<doc, access>>
          /\ UNCHANGED <<phase, original, current, outcome, touched, visits, meddles>>
    BY <1>4 DEF Share!Land, Share!Counters
  <2>2. r \in ShareRequests
    BY <1>0
  <2>3. CASE Share!Possible(r) /\ Share!Applied(r)
    <3>1. /\ doc' \in ShareItems /\ access' \in {"none", "exact", "other"} /\ doc.tag <= doc'.tag
          /\ \A version \in Nat : Deletable(version) => Deletable(version)'
          /\ r.verb = "delete" => r.tag = doc.tag
          /\ r.verb \in {"invite", "revoke"} => doc'.content = doc.content
          /\ r.verb = "upload" => doc' = [content |-> "exact", id |-> doc.id + 1, tag |-> doc.tag + 1]
      BY <1>0, <2>2, <2>3, ShareApplied
    <3>2. Kept
      <4>1. r.verb = "delete" => doc.content # "edited"
        BY <1>0, <2>1, <3>1 DEF DeletionInv
      <4>2. r.verb \in {"upload", "invite", "revoke", "delete"}
        BY <2>2 DEF ShareRequests
      <4> QED  BY <3>1, <4>1, <4>2
    <3>3. DeletionInv'
      BY <1>0, <2>1, <3>1 DEF DeletionInv, ShareItems
    <3>4. ShareTyped'
      BY <1>0, <2>1, <3>1 DEF ShareTyped, Share!TypeOK, ShareItems
    <3> QED  BY <2>1, <3>2, <3>3, <3>4 DEF ShareInv, SoundInv
  <2>4. CASE UNCHANGED <<doc, access>>
    <3>1. ShareTyped' /\ Kept
      BY <1>0, <1>a, <2>1, <2>4
    <3>2. DeletionInv'
      BY <1>0, <2>1, <2>4 DEF DeletionInv
    <3> QED  BY <2>1, <3>1, <3>2 DEF ShareInv, SoundInv
  <2> QED  BY <2>1, <2>3, <2>4
<1>5. CASE Share!Meddle
  <2>1. /\ meddles' = meddles + 1 /\ sound' = FALSE
        /\ UNCHANGED <<phase, original, current, pending, outcome, touched, visits>>
        /\ access' \in {"none", "exact", "other"}
        /\ \/ \E c \in {"exact", "edited"} : doc' = [content |-> c, id |-> doc.id, tag |-> doc.tag + 1]
           \/ doc' = [doc EXCEPT !.content = "absent"]
           \/ doc' = [content |-> "edited", id |-> doc.id + 1, tag |-> doc.tag + 1]
           \/ doc' = doc
    BY <1>0, <1>5 DEF Share!Meddle, Share!TypeOK
  <2>2. /\ doc' \in ShareItems /\ doc'.tag \in Nat /\ doc.tag <= doc'.tag
        /\ doc'.tag = doc.tag => doc'.content \in {doc.content, "absent"}
    BY <1>b, <2>1 DEF ShareItems
  <2>3. \A version \in Nat : Deletable(version) => Deletable(version)'
    BY <1>b, <2>2
  <2>4. DeletionInv'
    BY <1>0, <2>1, <2>2, <2>3 DEF DeletionInv, ShareItems
  <2>5. ShareTyped' /\ meddles' # meddles
    BY <1>0, <1>a, <1>b, <2>1, <2>2
  <2> QED  BY <2>1, <2>4, <2>5 DEF ShareInv, SoundInv
<1>6. CASE Share!Begin
  <2>1. /\ UNCHANGED <<doc, access, pending, meddles>> /\ original' = Share!NoItem /\ current' = Share!NoItem
        /\ outcome' = "none" /\ touched' = FALSE /\ visits' = visits + 1
        /\ \/ phase' = "path" /\ sound' = (pending = {} /\ doc.content = "absent")
           \/ /\ phase' = "resolve"
              /\ sound' = (pending = {} /\ doc.content = "exact" /\ access # "other")
    BY <1>0, <1>6 DEF Share!Begin, Share!Present, ShareItems
  <2>2. SoundInv' /\ DeletionInv'
    BY <1>0, <1>1, <2>1 DEF SoundInv, DeletionInv
  <2>3. phase' \in Share!Phases /\ sound' \in BOOLEAN /\ Kept
    BY <2>1
  <2>4. ShareTyped'
    BY <1>0, <1>a, <1>b, <2>1, <2>3
  <2> QED  BY <2>2, <2>3, <2>4 DEF ShareInv
<1>7. CASE Share!ReadFails \/ Share!Restart
  <2>1. /\ sound' = FALSE /\ phase' = "idle" /\ outcome' \in {"invite failed", "conflict", "failed"}
        /\ UNCHANGED <<doc, access, original, current, pending, touched, visits, meddles>>
    BY <1>7, Zenon DEF Share!ReadFails, Share!Restart, Share!Ends, Share!Counters
  <2> QED  BY <1>0, <1>2, <2>1 DEF Share!TypeOK, SoundInv
\* The ways a step that sends nothing ends or goes on.
<1>8. ASSUME UNCHANGED <<doc, access, original, current, pending, touched, sound, visits, meddles>>,
             phase' = "idle", outcome' \in {"configured", "conflict", "failed", "invite failed"},
             outcome' # "configured" => ~sound
      PROVE  ShareInv' /\ Kept
  BY <1>0, <1>2, <1>8 DEF Share!TypeOK, SoundInv
<1>9. CASE Share!RequirePathAbsent \/ Share!CreateUploadSession
  <2>1. UNCHANGED <<visits, meddles, doc, access, original, current, pending, touched, sound>>
    BY <1>9 DEF Share!RequirePathAbsent, Share!CreateUploadSession, Share!Conflict, Share!Goes, Share!Counters
  <2>2. CASE doc.content # "absent"
    BY <1>0, <1>8, <1>9, <2>1, <2>2 DEF Share!RequirePathAbsent, Share!CreateUploadSession, Share!Conflict,
       Share!Ends, Share!Present, SoundInv
  <2>3. CASE doc.content = "absent"
    <3>1. phase' \in {"session", "upload"} /\ outcome' = outcome /\ phase # "idle"
      BY <1>9, <2>3 DEF Share!RequirePathAbsent, Share!CreateUploadSession, Share!Goes, Share!Present
    <3> QED  BY <1>0, <1>2, <2>1, <2>3, <3>1 DEF Share!TypeOK, SoundInv
  <2> QED  BY <2>2, <2>3
<1>10. CASE Share!ReconcileMargeReadAccess
  <2>1. /\ UNCHANGED <<doc, access, original, current, pending, touched, visits, meddles>>
        /\ phase' = "idle" /\ sound' = (sound /\ access = "exact")
        /\ outcome' = IF access = "exact" THEN "configured" ELSE "invite failed"
    BY <1>10 DEF Share!ReconcileMargeReadAccess, Share!Ends, Share!Counters
  <2> QED  BY <1>0, <1>2, <2>1 DEF Share!TypeOK, SoundInv
<1>11. CASE Share!ResolveProof
  <2>1. phase \in {"resolve", "resolve again"} /\ UNCHANGED <<visits, meddles, doc, access, pending, touched, sound>>
    BY <1>11 DEF Share!ResolveProof, Share!Conflict, Share!Goes, Share!Counters
  <2>2. CASE doc.content = "absent" \/ (phase = "resolve again" /\ doc.id # original.id)
    <3>1. UNCHANGED <<original, current>> /\ phase' = "idle" /\ outcome' = "conflict"
      BY <1>11, <2>2 DEF Share!ResolveProof, Share!Conflict, Share!Ends, Share!Present
    <3> QED  BY <1>0, <1>8, <2>1, <2>2, <3>1 DEF SoundInv
  <2>3. CASE ~(doc.content = "absent" \/ (phase = "resolve again" /\ doc.id # original.id))
    <3>1. /\ phase' = (IF phase = "resolve" THEN "content" ELSE "content again") /\ outcome' = outcome
          /\ original' = (IF phase = "resolve" THEN doc ELSE original) /\ current' = doc
      BY <1>11, <2>3 DEF Share!ResolveProof, Share!Goes, Share!Present
    <3>2. SoundInv'
      BY <1>0, <2>1, <2>3, <3>1 DEF SoundInv
    <3>3. ShareTyped' /\ Kept
      BY <1>0, <1>a, <2>1, <3>1
    <3>4. DeletionInv'
      <4>1. phase' # "delete" /\ current'.tag = doc.tag
        BY <3>1
      <4>2. \A q \in pending' : q.verb = "delete" => Deletable(q.tag)'
        BY <1>0, <2>1 DEF DeletionInv
      <4>3. current'.tag <= doc'.tag
        <5>1. doc'.tag = doc.tag
          BY <2>1
        <5>2. doc.tag <= doc.tag
          BY <1>b
        <5> QED  BY <4>1, <5>1, <5>2, Zenon
      <4> QED  BY <4>1, <4>2, <4>3 DEF DeletionInv
    <3> QED  BY <3>2, <3>3, <3>4 DEF ShareInv
  <2> QED  BY <2>2, <2>3
<1>12. CASE Share!RequireExactContent
  <2>1. /\ phase \in {"content", "content again"}
        /\ UNCHANGED <<visits, meddles, doc, access, original, current, pending, touched, sound>>
    BY <1>12 DEF Share!RequireExactContent, Share!Conflict, Share!Goes, Share!Counters
  <2>2. CASE doc.content # "exact" \/ doc.id # current.id
    <3>1. phase' = "idle" /\ outcome' \in {"failed", "conflict"}
      BY <1>12, <2>2 DEF Share!RequireExactContent, Share!Conflict, Share!Ends, Share!Present
    <3> QED  BY <1>0, <1>8, <2>1, <2>2, <3>1 DEF SoundInv
  <2>3. CASE doc.content = "exact" /\ doc.id = current.id
    <3>1. phase' = (IF phase = "content" THEN "permissions" ELSE "delete") /\ outcome' = outcome
      BY <1>12, <2>3 DEF Share!RequireExactContent, Share!Goes, Share!Present
    <3> QED  BY <1>0, <1>2, <2>1, <2>3, <3>1 DEF Share!TypeOK, SoundInv, DeletionInv, Deletable
  <2> QED  BY <2>2, <2>3
<1>13. CASE Share!FindMargeReadPermission
  <2>1. /\ phase = "permissions"
        /\ UNCHANGED <<visits, meddles, doc, access, original, current, pending, touched, sound>>
        /\ IF access = "other" THEN phase' = "idle" /\ outcome' = "conflict"
           ELSE phase' = (IF access = "exact" THEN "revoke" ELSE "resolve again") /\ outcome' = outcome
    BY <1>13 DEF Share!FindMargeReadPermission, Share!Conflict, Share!Ends, Share!Goes, Share!Counters,
       Share!AfterPermissions
  <2> QED  BY <1>0, <1>2, <1>8, <2>1 DEF Share!TypeOK, SoundInv
\* A mutation that is refused or lost ends the call; what is left is the confirmed one.
<1>14. ASSUME NEW verb \in {"upload", "invite", "revoke", "delete"}, NEW item \in ShareItems, NEW ACTION next,
              NEW refused \in {"conflict", "invite failed", "failed"}, Share!Sends(verb, item, next, refused),
              phase = "delete" => verb = "delete" /\ item = current,
              sound => Share!Possible(Share!Request(verb, item))
       PROVE  \/ ShareInv' /\ Kept
              \/ /\ next /\ phase = verb /\ touched' = TRUE
                 /\ UNCHANGED <<visits, meddles, original, pending, sound>>
                 /\ doc' \in ShareItems /\ access' \in {"none", "exact", "other"} /\ doc.tag <= doc'.tag
                 /\ verb = "upload" => doc' = [content |-> "exact", id |-> doc.id + 1, tag |-> doc.tag + 1]
                 /\ verb \in {"invite", "revoke"} => doc'.content = doc.content /\ doc'.id = doc.id
                 /\ verb = "delete" => doc'.content = "absent"
                 /\ \A q \in pending' : q.verb = "delete" => Deletable(q.tag)'
                 /\ Kept
  <2> DEFINE r == Share!Request(verb, item)
  <2>1. /\ phase = verb /\ UNCHANGED <<visits, meddles>> /\ r \in ShareRequests
        /\ r.verb = verb /\ r.id = item.id /\ r.tag = item.tag
        /\ pending' \subseteq ShareRequests
        /\ \A q \in pending' : q.verb = "delete" => Deletable(q.tag)'
        /\ \/ /\ Share!Possible(r) /\ Share!Applied(r) /\ touched' = TRUE /\ next
              /\ UNCHANGED <<original, pending, sound>>
           \/ /\ ~Share!Possible(r) /\ phase' = "idle" /\ outcome' = refused
              /\ UNCHANGED <<doc, access, original, current, pending, touched, sound>>
           \/ /\ phase' = "idle" /\ outcome' = "failed" /\ ~sound'
              /\ UNCHANGED <<original, current, touched>>
              /\ \/ Share!Possible(r) /\ Share!Applied(r)
                 \/ UNCHANGED <<doc, access>>
    BY <1>14, ShareSends
  <2>2. sound => Share!Possible(r)
    BY <1>14
  <2>3. phase = "delete" => r.tag = current.tag
    BY <1>14, <2>1
  <2> HIDE DEF r
  <2>4. Share!Possible(r) /\ Share!Applied(r) =>
          /\ doc' \in ShareItems /\ access' \in {"none", "exact", "other"} /\ doc.tag <= doc'.tag
          /\ verb = "upload" => doc' = [content |-> "exact", id |-> doc.id + 1, tag |-> doc.tag + 1]
          /\ verb \in {"invite", "revoke"} => doc'.content = doc.content /\ doc'.id = doc.id
          /\ verb = "delete" => r.tag = doc.tag /\ doc'.content = "absent"
    BY <1>0, <2>1, ShareApplied
  <2>5. Share!Possible(r) /\ Share!Applied(r) => Kept
    <3>1. verb = "delete" /\ Share!Possible(r) /\ Share!Applied(r) => doc.content # "edited"
      BY <1>0, <2>1, <2>3, <2>4 DEF DeletionInv
    <3>2. verb # "delete" /\ Share!Possible(r) /\ Share!Applied(r) => doc'.content \in {doc.content, "exact"}
      <4>1. verb \in {"upload", "invite", "revoke", "delete"}
        BY <2>1 DEF ShareRequests
      <4>2. doc' = [content |-> "exact", id |-> doc.id + 1, tag |-> doc.tag + 1] => doc'.content = "exact"
        <5>1. \A a, b : [content |-> "exact", id |-> a, tag |-> b].content = "exact"
          OBVIOUS
        <5> QED  BY <5>1, Zenon
      <4> QED  BY <2>4, <4>1, <4>2
    <3>3. Share!Possible(r) /\ Share!Applied(r) => ~(doc.content = "edited" /\ doc'.content = "absent")
      BY <3>1, <3>2
    <3> QED  BY <3>3
  <2>6. CASE phase' = "idle" /\ (outcome' = refused \/ outcome' = "failed") /\ ~sound'
             /\ UNCHANGED <<original, current>> /\ touched' \in BOOLEAN
             /\ (UNCHANGED <<doc, access>> \/ (Share!Possible(r) /\ Share!Applied(r)))
    <3>1. doc' \in ShareItems /\ access' \in {"none", "exact", "other"} /\ Kept
      BY <1>0, <1>1, <2>4, <2>5, <2>6 DEF Share!TypeOK
    <3>2. outcome' \in {"conflict", "invite failed", "failed"}
      BY <1>14, <2>6
    <3>3. sound' \in BOOLEAN
      BY <1>0, <1>14, <2>1 DEF Share!Sends, Share!TypeOK
    <3> QED  BY <1>0, <2>1, <2>6, <3>1, <3>2, <3>3 DEF ShareInv, ShareTyped, Share!TypeOK, DeletionInv,
                SoundInv, ShareItems
  <2>7. CASE Share!Possible(r) /\ Share!Applied(r) /\ touched' = TRUE /\ next
             /\ UNCHANGED <<original, pending, sound>>
    BY <2>1, <2>4, <2>5, <2>7
  <2>8. CASE ~Share!Possible(r) /\ phase' = "idle" /\ outcome' = refused
             /\ UNCHANGED <<doc, access, original, current, pending, touched, sound>>
    <3>1. ~sound' /\ touched' \in BOOLEAN
      BY <1>0, <2>2, <2>8
    <3> QED  BY <2>6, <2>8, <3>1
  <2>9. CASE phase' = "idle" /\ outcome' = "failed" /\ ~sound' /\ UNCHANGED <<original, current, touched>>
             /\ ((Share!Possible(r) /\ Share!Applied(r)) \/ UNCHANGED <<doc, access>>)
    BY <1>0, <2>6, <2>9
  <2> QED  BY <2>1, <2>7, <2>8, <2>9
<1>15. CASE Share!UploadProof
  <2> DEFINE invites == phase' = "invite" /\ current' = doc' /\ UNCHANGED outcome
  <2>1. Share!Sends("upload", Share!NoItem, invites, "conflict")
    BY <1>15 DEF Share!UploadProof
  <2>2. phase = "upload"
    BY <2>1 DEF Share!Sends
  <2>3. sound => Share!Possible(Share!Request("upload", Share!NoItem))
    BY <1>0, <2>2 DEF SoundInv, Share!Possible, Share!Request, Share!Present
  <2>4. CASE invites /\ UNCHANGED <<visits, meddles, original, pending, sound>> /\ touched' = TRUE
             /\ doc' \in ShareItems /\ access' \in {"none", "exact", "other"}
             /\ doc' = [content |-> "exact", id |-> doc.id + 1, tag |-> doc.tag + 1]
             /\ (\A q \in pending' : q.verb = "delete" => Deletable(q.tag)') /\ Kept
    <3>1. phase' = "invite" /\ current' = doc' /\ outcome' = outcome
      BY <2>4
    <3>2. ShareTyped'
      BY <1>0, <1>a, <2>4, <3>1
    <3>3. DeletionInv'
      BY <2>4, <3>1 DEF DeletionInv
    <3>4. SoundInv'
      BY <1>0, <2>2, <2>4, <3>1 DEF SoundInv
    <3> QED  BY <2>4, <3>2, <3>3, <3>4 DEF ShareInv
  <2> HIDE DEF invites
  <2> QED  BY <1>0, <1>14, <2>1, <2>2, <2>3, <2>4
<1>16. CASE Share!GrantMargeReadAccess
  <2> DEFINE granted == \/ Share!Continues("reconcile")
                        \/ access' = "exact" /\ Share!Ends("configured") /\ UNCHANGED current
  <2>1. Share!Sends("invite", current, granted, "invite failed")
    BY <1>16 DEF Share!GrantMargeReadAccess
  <2>2. phase = "invite"
    BY <2>1 DEF Share!Sends
  <2>3. sound => Share!Possible(Share!Request("invite", current))
    BY <1>0, <2>2 DEF SoundInv, Share!Possible, Share!Request, Share!Present
  <2>4. CASE granted /\ UNCHANGED <<visits, meddles, original, pending, sound>> /\ touched' = TRUE
             /\ doc' \in ShareItems /\ access' \in {"none", "exact", "other"}
             /\ (\A q \in pending' : q.verb = "delete" => Deletable(q.tag)') /\ Kept
    <3>1. /\ current' = current
          /\ \/ phase' = "reconcile" /\ outcome' = outcome
             \/ phase' = "idle" /\ outcome' = "configured"
      BY <2>4 DEF Share!Continues, Share!Ends
    <3>2. ShareTyped'
      BY <1>0, <1>a, <2>4, <3>1
    <3>3. DeletionInv'
      BY <2>4, <3>1 DEF DeletionInv
    <3>4. SoundInv'
      BY <1>0, <2>2, <2>4, <3>1 DEF SoundInv
    <3> QED  BY <2>4, <3>2, <3>3, <3>4 DEF ShareInv
  <2> HIDE DEF granted
  <2> QED  BY <1>0, <1>14, <2>1, <2>2, <2>3, <2>4
<1>17. CASE Share!RevokeMargeReadPermission
  <2>1. Share!Sends("revoke", original, Share!Continues("resolve again"), Share!Refusal(original))
    BY <1>17 DEF Share!RevokeMargeReadPermission
  <2>r. Share!Refusal(original) \in {"conflict", "invite failed", "failed"}
    BY DEF Share!Refusal
  <2>2. phase = "revoke"
    BY <2>1 DEF Share!Sends
  <2>3. sound => Share!Possible(Share!Request("revoke", original))
    BY <1>0, <2>2 DEF SoundInv, Share!Possible, Share!Request, Share!Present, Share!IfMatch
  <2>4. CASE Share!Continues("resolve again") /\ UNCHANGED <<visits, meddles, original, pending, sound>>
             /\ touched' = TRUE /\ doc' \in ShareItems /\ access' \in {"none", "exact", "other"}
             /\ doc'.content = doc.content /\ doc'.id = doc.id
             /\ (\A q \in pending' : q.verb = "delete" => Deletable(q.tag)') /\ Kept
    <3>1. phase' = "resolve again" /\ current' = current /\ outcome' = outcome
      BY <2>4 DEF Share!Continues
    <3>2. ShareTyped'
      BY <1>0, <1>a, <2>4, <3>1
    <3>3. DeletionInv'
      BY <2>4, <3>1 DEF DeletionInv
    <3>4. SoundInv'
      BY <1>0, <2>2, <2>4, <3>1 DEF SoundInv
    <3> QED  BY <2>4, <3>2, <3>3, <3>4 DEF ShareInv
  <2> QED  BY <1>0, <1>14, <2>1, <2>2, <2>3, <2>4, <2>r
<1>18. CASE Share!DeleteProof
  <2> DEFINE removed == Share!Ends("removed") /\ UNCHANGED current
  <2>1. Share!Sends("delete", current, removed, Share!Refusal(current))
    BY <1>18 DEF Share!DeleteProof
  <2>r. Share!Refusal(current) \in {"conflict", "invite failed", "failed"}
    BY DEF Share!Refusal
  <2>2. phase = "delete"
    BY <2>1 DEF Share!Sends
  <2>3. sound => Share!Possible(Share!Request("delete", current))
    BY <1>0, <2>2 DEF SoundInv, Share!Possible, Share!Request, Share!Present, Share!IfMatch
  <2>4. CASE removed /\ UNCHANGED <<visits, meddles, original, pending, sound>> /\ touched' = TRUE
             /\ doc' \in ShareItems /\ access' \in {"none", "exact", "other"}
             /\ (\A q \in pending' : q.verb = "delete" => Deletable(q.tag)') /\ Kept
    <3>1. phase' = "idle" /\ current' = current /\ outcome' = "removed"
      BY <2>4 DEF Share!Ends
    <3>2. ShareTyped'
      BY <1>0, <1>a, <2>4, <3>1
    <3>3. DeletionInv'
      BY <2>4, <3>1 DEF DeletionInv
    <3>4. SoundInv'
      BY <1>0, <2>2, <2>4, <3>1 DEF SoundInv
    <3> QED  BY <2>4, <3>2, <3>3, <3>4 DEF ShareInv
  <2> HIDE DEF removed
  <2> QED  BY <1>0, <1>14, <2>1, <2>2, <2>3, <2>4, <2>r
<1> QED  BY <1>3, <1>4, <1>5, <1>6, <1>7, <1>9, <1>10, <1>11, <1>12, <1>13, <1>15, <1>16, <1>17, <1>18
            DEF Share!Next

LEMMA ShareStart == Init => ShareInv
<1> SUFFICES ASSUME Init PROVE ShareInv
  OBVIOUS
<1>1. Share!Init
  BY DEF Init
<1>2. Share!NoItem \in ShareItems
  BY DEF Share!NoItem, ShareItems
<1> QED  BY <1>1, <1>2 DEF Share!Init, ShareInv, ShareTyped, Share!TypeOK, Share!Phases, DeletionInv, SoundInv,
            ShareItems

=============================================================================
