----------------------------- MODULE FixedProofs -----------------------------
(***************************************************************************)
(* The fixed rehearsal artefacts of the API: one contact, Inbox rule,      *)
(* category, draft, To Do task or SharePoint file, each with a create and  *)
(* a remove that read Microsoft Graph, judge what they found, and send at  *)
(* most one mutation (api/*-proof.ts).  The server admits one create and   *)
(* one remove of a kind at a time, so the two may overlap.                 *)
(*                                                                         *)
(* An answer may be lost, its request may take effect later, the user may  *)
(* edit the artefact, and the process may be restarted.                    *)
(***************************************************************************)
EXTENDS Naturals, FiniteSets

CONSTANTS
  Kinds,      \* the kinds exercised, out of AllKinds
  Ids,        \* identifiers Graph may give
  MaxCalls,   \* bound: calls of a behaviour
  MaxEdits    \* bound: edits by the user

AllKinds == {"contact", "inbox-rule", "category", "draft", "todo-task", "sharepoint-file"}
Stateless == {"contact", "inbox-rule"}

VARIABLES
  kind,      \* the artefact of this behaviour
  store,     \* Graph: id -> "unused", "exact", "changed", "hidden" (no longer found), "gone"
  etag,      \* Graph: id -> version of the item
  flight,    \* requests sent that have had no effect yet
  retained,  \* the id the process retains
  step,      \* "create", "remove" -> "idle", "reading", "looked", "waiting", "answered"
  seen,      \* what its lookup found: an id, None, or Unclear; and the version
  seenTag,
  reply,     \* the answer to its mutation
  answer,    \* what its caller was told last
  calls, edits,
  made,      \* history: ids that the API created
  shown,     \* history: "create", "remove" -> ids that its lookups found alone and exact
  unsure,    \* history: creates that ended without an answer to their request
  trouble,   \* history: since it started, the process met what may confuse it
  due        \* history: this call has no reason to fail

graph == <<store, etag, flight>>
call == <<step, seen, seenTag, reply, answer>>
history == <<made, shown, unsure, trouble, due>>
proofVars == <<kind, graph, retained, call, calls, edits, history>>

None == "none"
Unclear == "unclear"
Ops == {"create", "remove"}
Other(h) == IF h = "create" THEN "remove" ELSE "create"
Visible == {i \in Ids : store[i] \in {"exact", "changed"}}

-----------------------------------------------------------------------------
(* The lookup: the one object that bears the marker (or name, or path) and  *)
(* has every fixed field, nothing, or a state that is not to be touched.    *)

Lookup_ExactOnly ==
  LET found == {i \in Ids : store[i] = "exact"} IN
  IF found = {} THEN None ELSE IF Cardinality(found) = 1 THEN CHOOSE i \in found : TRUE ELSE Unclear

Lookup ==
  IF Visible = {} THEN None
  ELSE IF Cardinality(Visible) = 1 /\ \A i \in Visible : store[i] = "exact"
       THEN CHOOSE i \in Visible : TRUE
       ELSE Unclear

\* What a call does with its lookup: it ends, or sends a mutation; keep is retained'.
Ends(told, keep) == [told |-> told, target |-> None, keep |-> keep]
Sends(id) == [told |-> "sent", target |-> id, keep |-> retained]
Conflict == Ends("conflict", retained)

ContactCreate(l) == IF l = None THEN Sends(None) ELSE Ends("configured", retained)
ContactRemove(l) == IF l = None THEN Ends("removed", retained) ELSE Sends(l)

InboxRuleCreate(l) == IF l = None THEN Sends(None) ELSE Ends("configured", retained)
InboxRuleRemove(l) == IF l = None THEN Ends("removed", retained) ELSE Sends(l)

CategoryCreate(l) == IF l = None THEN Sends(None) ELSE Ends("configured", l)
CategoryRemove(l) ==
  IF retained # None /\ l \notin {None, retained} THEN Conflict
  ELSE IF retained = None /\ l = None THEN Ends("removed", None)
  ELSE Sends(IF retained # None THEN retained ELSE l)

DraftCreate(l) == IF l = None THEN Sends(None) ELSE Ends("configured", l)
DraftRemove(l) ==
  IF l = None THEN Ends("removed", None)
  ELSE IF retained \notin {None, l} THEN Conflict ELSE Sends(l)

TaskCreate(l) ==
  IF retained \notin {None, l} THEN Conflict
  ELSE IF l = None THEN Sends(None) ELSE Ends("configured", l)
TaskRemove(l) ==
  IF retained \notin {None, l} THEN Conflict
  ELSE IF l = None THEN Ends("removed", None) ELSE Sends(l)

FileCreate(l) == IF l = None THEN Sends(None) ELSE Conflict
FileRemove(l) ==
  IF l = None THEN Ends("removed", None)
  ELSE IF retained \notin {None, l} THEN Conflict ELSE Sends(l)

Judge(h, l) ==
  IF l = Unclear THEN Conflict
  ELSE CASE kind = "contact"    -> IF h = "create" THEN ContactCreate(l) ELSE ContactRemove(l)
         [] kind = "inbox-rule" -> IF h = "create" THEN InboxRuleCreate(l) ELSE InboxRuleRemove(l)
         [] kind = "category"   -> IF h = "create" THEN CategoryCreate(l) ELSE CategoryRemove(l)
         [] kind = "draft"      -> IF h = "create" THEN DraftCreate(l) ELSE DraftRemove(l)
         [] kind = "todo-task"  -> IF h = "create" THEN TaskCreate(l) ELSE TaskRemove(l)
         [] OTHER               -> IF h = "create" THEN FileCreate(l) ELSE FileRemove(l)

\* What is retained once a mutation is confirmed: the id created, or nothing any more.
RetainsWhenConfirmed(h, id) ==
  IF kind \in Stateless THEN retained ELSE IF h = "create" THEN id ELSE None

-----------------------------------------------------------------------------
(* The calls. *)

\* History: a call disturbed, in this process (worry) or only in itself.
Note(disturbed, worry) ==
  /\ due' = [h \in Ops |-> due[h] /\ h \notin disturbed]
  /\ trouble' = (trouble \/ worry)

Start(h) ==
  /\ step[h] = "idle" /\ calls < MaxCalls /\ calls' = calls + 1
  /\ step' = [step EXCEPT ![h] = "reading"]
  /\ due' = [due EXCEPT ![h] =
               /\ flight = {} /\ step[Other(h)] = "idle" /\ Lookup # Unclear
               /\ \/ ~trouble \/ kind \in Stateless
                  \/ h = "create" /\ kind \in {"category", "draft"}
               /\ (kind = "sharepoint-file" /\ h = "create") => Visible = {},
                        ![Other(h)] = FALSE]
  /\ trouble' = (trouble \/ (kind \in {"category", "todo-task"} /\ step[Other(h)] # "idle"))
  /\ UNCHANGED <<kind, graph, retained, seen, seenTag, reply, answer, edits, made, shown, unsure>>

\* The caller is told; what the call held is dropped.
Tell(h, told) ==
  /\ step' = [step EXCEPT ![h] = "idle"]
  /\ answer' = [answer EXCEPT ![h] = told]
  /\ seen' = [seen EXCEPT ![h] = None] /\ seenTag' = [seenTag EXCEPT ![h] = 0]
  /\ reply' = [reply EXCEPT ![h] = None]

\* No token, or a lookup that fails or is not understood.
ReadFails(h) ==
  /\ step[h] = "reading"
  /\ \E told \in {"failed", "conflict"} : Tell(h, told)
  /\ Note({h}, FALSE)
  /\ UNCHANGED <<kind, graph, retained, calls, edits, made, shown, unsure>>

Looks(h) ==
  /\ step[h] = "reading" /\ step' = [step EXCEPT ![h] = "looked"]
  /\ seen' = [seen EXCEPT ![h] = Lookup]
  /\ seenTag' = [seenTag EXCEPT ![h] = IF Lookup \in Ids THEN etag[Lookup] ELSE 0]
  /\ shown' = [shown EXCEPT ![h] = @ \cup ({Lookup} \cap Ids)]
  /\ UNCHANGED <<kind, graph, retained, reply, answer, calls, edits, made, unsure, trouble, due>>

\* A success of an undisturbed create reconciles the retained id.
Reconciled(h, told) ==
  trouble' = (trouble /\ ~(due[h] /\ told = "configured" /\ kind \in {"category", "draft"}))

Decides(h) ==
  /\ step[h] = "looked"
  /\ LET d == Judge(h, seen[h]) IN
     /\ retained' = d.keep
     /\ \/ /\ d.told = "sent"
           /\ flight' = flight \cup {[op |-> h, target |-> d.target, tag |-> seenTag[h],
                                      number |-> calls, heard |-> TRUE]}
           /\ step' = [step EXCEPT ![h] = "waiting"]
           /\ UNCHANGED <<seen, seenTag, reply, answer, trouble>>
        \/ d.told # "sent" /\ Tell(h, d.told) /\ Reconciled(h, d.told) /\ UNCHANGED flight
  /\ UNCHANGED <<kind, store, etag, calls, edits, made, shown, unsure, due>>

\* Nobody hears the answers any more.
Abandoned(ops) == {[q EXCEPT !.heard = q.heard /\ q.op \notin ops] : q \in flight}

\* The fetch throws, or the answer is not the one required: the call fails and
\* its request may still take effect.
GivesUp(h) ==
  /\ step[h] \in {"waiting", "answered"}
  /\ Tell(h, "failed") /\ Note({h}, TRUE)
  /\ unsure' = unsure + (IF h = "create" THEN 1 ELSE 0)
  /\ flight' = Abandoned({h})
  /\ UNCHANGED <<kind, store, etag, retained, calls, edits, made, shown>>

\* 201 or 204; or a refusal, which at SharePoint may tell of a conflict.
Hears(h) ==
  /\ step[h] = "answered"
  /\ IF reply[h] \in Ids
     THEN /\ Tell(h, IF h = "create" THEN "configured" ELSE "removed")
          /\ retained' = RetainsWhenConfirmed(h, reply[h])
          /\ Reconciled(h, IF h = "create" THEN "configured" ELSE "removed")
     ELSE /\ Tell(h, IF kind = "sharepoint-file" /\ h = "remove" THEN "conflict" ELSE "failed")
          /\ UNCHANGED <<retained, trouble>>
  /\ UNCHANGED <<kind, graph, calls, edits, made, shown, unsure, due>>

-----------------------------------------------------------------------------
(* Microsoft Graph, the user and the process. *)

Answered(q, r) ==
  IF q.heard
  THEN step' = [step EXCEPT ![q.op] = "answered"] /\ reply' = [reply EXCEPT ![q.op] = r]
  ELSE UNCHANGED <<step, reply>>

\* Conflict behaviour "fail": only the path of a file is unique.
Creates(q) ==
  /\ q.op = "create"
  /\ IF kind = "sharepoint-file" /\ Visible # {}
     THEN Answered(q, "refused") /\ UNCHANGED <<store, made>>
     ELSE \E i \in Ids :
            /\ store[i] = "unused"
            /\ store' = [store EXCEPT ![i] = "exact"] /\ made' = made \cup {i}
            /\ Answered(q, i)

IfMatch_Omitted(q) == TRUE
\* The eTag of the lookup goes with the removal of a file.
IfMatch(q) == kind = "sharepoint-file" => etag[q.target] = q.tag

Deletes(q) ==
  /\ q.op = "remove" /\ UNCHANGED made
  /\ IF store[q.target] # "gone" /\ IfMatch(q)
     THEN store' = [store EXCEPT ![q.target] = "gone"] /\ Answered(q, q.target)
     ELSE Answered(q, "refused") /\ UNCHANGED store

Serve(q) ==
  /\ Creates(q) \/ Deletes(q)
  /\ flight' = flight \ {q}
  /\ UNCHANGED <<kind, etag, retained, seen, seenTag, answer, calls, edits, shown, unsure, trouble,
                 due>>

Refuses(q) ==
  /\ Answered(q, "refused") /\ flight' = flight \ {q}
  /\ Note(Ops, TRUE)
  /\ UNCHANGED <<kind, store, etag, retained, seen, seenTag, answer, calls, edits, made, shown, unsure>>

\* Another tool or the user alters, hides, deletes or adds an object.
UserEdits(i) ==
  /\ edits < MaxEdits /\ edits' = edits + 1
  /\ \/ /\ store[i] \in {"exact", "changed"}
        /\ \/ \E s \in {"hidden", "gone"} : store' = [store EXCEPT ![i] = s] /\ UNCHANGED etag
           \/ /\ kind = "sharepoint-file"
              /\ etag' = [etag EXCEPT ![i] = @ + 1] /\ UNCHANGED store
           \/ kind # "sharepoint-file" /\ store' = [store EXCEPT ![i] = "changed"] /\ UNCHANGED etag
     \/ /\ store[i] = "unused" /\ Visible = {}
        /\ store' = [store EXCEPT ![i] = "exact"] /\ UNCHANGED etag
  /\ Note(Ops, TRUE)
  /\ UNCHANGED <<kind, flight, retained, call, calls, made, shown, unsure>>

Restart ==
  /\ retained' = None
  /\ step' = [h \in Ops |-> "idle"] /\ seen' = [h \in Ops |-> None]
  /\ seenTag' = [h \in Ops |-> 0] /\ reply' = [h \in Ops |-> None]
  /\ answer' = [h \in Ops |-> None]
  /\ trouble' = (flight # {}) /\ due' = [h \in Ops |-> FALSE]
  /\ unsure' = unsure + (IF step["create"] \in {"waiting", "answered"} THEN 1 ELSE 0)
  /\ flight' = Abandoned(Ops)
  /\ UNCHANGED <<kind, store, etag, calls, edits, made, shown>>

Init ==
  /\ kind \in Kinds /\ retained = None
  /\ store = [i \in Ids |-> "unused"] /\ etag = [i \in Ids |-> 0] /\ flight = {}
  /\ step = [h \in Ops |-> "idle"] /\ seen = [h \in Ops |-> None]
  /\ seenTag = [h \in Ops |-> 0] /\ reply = [h \in Ops |-> None]
  /\ answer = [h \in Ops |-> None]
  /\ calls = 0 /\ edits = 0
  /\ made = {} /\ shown = [h \in Ops |-> {}] /\ unsure = 0 /\ trouble = FALSE /\ due = [h \in Ops |-> FALSE]

Next ==
  \/ \E h \in Ops : Start(h) \/ ReadFails(h) \/ Looks(h) \/ Decides(h) \/ GivesUp(h) \/ Hears(h)
  \/ \E q \in flight : Serve(q) \/ Refuses(q)
  \/ \E i \in Ids : UserEdits(i)
  \/ Restart

Spec == Init /\ [][Next]_proofVars

-----------------------------------------------------------------------------
(* Properties. *)

\* The variables have their types.
TypeOK ==
  /\ kind \in AllKinds /\ retained \in Ids \cup {None}
  /\ store \in [Ids -> {"unused", "exact", "changed", "hidden", "gone"}]
  /\ etag \in [Ids -> 0..MaxEdits]
  /\ flight \subseteq [op : Ops, target : Ids \cup {None}, tag : 0..MaxEdits,
                       number : 0..MaxCalls, heard : BOOLEAN]
  /\ step \in [Ops -> {"idle", "reading", "looked", "waiting", "answered"}]
  /\ seen \in [Ops -> Ids \cup {None, Unclear}] /\ seenTag \in [Ops -> 0..MaxEdits]
  /\ reply \in [Ops -> Ids \cup {None, "refused"}]
  /\ answer \in [Ops -> {None, "configured", "removed", "conflict", "failed"}]
  /\ calls \in 0..MaxCalls /\ edits \in 0..MaxEdits
  /\ made \subseteq Ids /\ shown \in [Ops -> SUBSET Ids] /\ unsure \in Nat /\ trouble \in BOOLEAN /\ due \in [Ops -> BOOLEAN]

\* Of the objects the API made, two are found together only if a create ended
\* without hearing about its request: with the lookup first and one create at a
\* time, every other repetition finds the first object (create of each proof).
OneObject == Cardinality(made \cap Visible) <= 1 + unsure

\* What a removal may aim at: an object that a removal's lookup showed alone and
\* exact; a category also by the retained id, which a create made or was shown.
Known(i) == i \in shown["remove"] \/ (kind = "category" /\ i \in shown["create"] \cup made)

\* The API deletes no object but one it made or was shown exact before, and of a
\* file exactly the version it was shown (If-Match).  The other kinds are deleted by
\* id alone: in whatever state an edit after the lookup has left them, and a category
\* by the retained id even when this lookup found nothing (category-proof.ts:71-82).
RemovesWhatItRead ==
  [][\A i \in Ids : store[i] # "gone" /\ store'[i] = "gone" /\ edits' = edits =>
       /\ Known(i)
       /\ \E q \in flight \ flight' :
            q.op = "remove" /\ q.target = i /\ (kind = "sharepoint-file" => q.tag = etag[i])]_proofVars

\* A process that met neither a lost answer, nor a foreign edit, nor (where it
\* retains an id and insists on it) overlapping calls, answers every call that
\* the service answers; a contact or a rule also after those, and a category or
\* a draft is reconciled by the next create.  A call never leaves the process in
\* a state of which it refuses the next one (retained in each proof).
HealthyCallsSucceed ==
  \A h \in Ops : due[h] /\ step[h] = "idle" => answer[h] \in {"configured", "removed"}

\* docs/api-identity.md: "absence is already removed."  A removal that finds
\* nothing says so instead of failing.
AbsentIsRemoved ==
  [][step["remove"] = "looked" /\ seen["remove"] = None /\ step'["remove"] # "looked"
       => step'["remove"] = "idle" /\ answer'["remove"] \in {"removed", None}]_proofVars

=============================================================================
