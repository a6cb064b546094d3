----------------------------- MODULE OneDriveShare -----------------------------
(***************************************************************************)
(* The OneDrive share proof: share uploads one fixed file and invites      *)
(* Marge to read it, remove revokes her permission and deletes the file    *)
(* (api/onedrive-share-proof.ts).  One busy flag admits one of the two at  *)
(* a time.  An answer may be lost, its request may take effect later, and  *)
(* the owner may edit, delete or share the file at any moment.             *)
(***************************************************************************)
EXTENDS Naturals

CONSTANTS MaxVisits,  \* bound: calls of a behaviour
          MaxMeddles  \* bound: acts of the file's owner

VARIABLES
  doc,       \* the file at the fixed path: content, id and eTag
  access,    \* what Marge may do with it: "none", "exact" (read), "other"
  phase,     \* the request the running call makes next; "idle": #busy is false
  original,  \* the item that remove resolved first, and the latest
  current,
  pending,   \* requests whose answer was lost and that may still take effect
  outcome,   \* what the last caller was told
  touched,   \* history: Graph confirmed a change made by this call
  sound,     \* history: nothing has happened that may make this call fail
  visits, meddles

shareVars == <<doc, access, phase, original, current, pending, outcome, touched, sound,
               visits, meddles>>

Present == doc.content # "absent"
Ends(told) == phase' = "idle" /\ outcome' = told
Conflict == Ends("conflict") /\ UNCHANGED <<doc, access, original, current, pending, touched, sound>>
Goes(next) == phase' = next /\ UNCHANGED <<doc, access, pending, outcome, touched, sound>>
Counters == <<visits, meddles>>

-----------------------------------------------------------------------------
(* Graph.  A permission may or may not count as a change of the item.       *)

Request(verb, item) == [verb |-> verb, id |-> item.id, tag |-> item.tag]

IfMatch(r) == r.id = doc.id /\ r.tag = doc.tag

Possible(r) ==
  CASE r.verb = "upload" -> ~Present
    [] r.verb = "invite" -> Present /\ r.id = doc.id
    [] OTHER -> Present /\ IfMatch(r) /\ (r.verb = "revoke" => access = "exact")

Applied(r) ==
  CASE r.verb = "upload" ->
         doc' = [content |-> "exact", id |-> doc.id + 1, tag |-> doc.tag + 1] /\ access' = "none"
    [] r.verb = "invite" ->
         access' \in {"exact", "other"} /\ doc' \in {doc, [doc EXCEPT !.tag = @ + 1]}
    [] r.verb = "revoke" ->
         access' = "none" /\ doc' \in {doc, [doc EXCEPT !.tag = @ + 1]}
    [] r.verb = "delete" ->
         doc' = [doc EXCEPT !.content = "absent"] /\ access' = "none"

Land ==
  \E r \in pending :
    /\ pending' = pending \ {r} /\ sound' = FALSE
    /\ IF Possible(r) THEN Applied(r) ELSE UNCHANGED <<doc, access>>
    /\ UNCHANGED <<phase, original, current, outcome, touched, Counters>>

\* The owner edits the file, undoes the edit, deletes it, or puts a file of
\* the same name there; or shares it otherwise.
Meddle ==
  /\ meddles < MaxMeddles /\ meddles' = meddles + 1 /\ sound' = FALSE
  /\ \/ /\ Present /\ UNCHANGED access
        /\ \E c \in {"exact", "edited"} : doc' = [content |-> c, id |-> doc.id, tag |-> doc.tag + 1]
     \/ Present /\ doc' = [doc EXCEPT !.content = "absent"] /\ access' = "none"
     \/ /\ ~Present /\ access' = "none"
        /\ doc' = [content |-> "edited", id |-> doc.id + 1, tag |-> doc.tag + 1]
     \/ Present /\ access' \in {"none", "other"} /\ UNCHANGED doc
  /\ UNCHANGED <<phase, original, current, pending, outcome, touched, visits>>

-----------------------------------------------------------------------------
(* The calls.                                                               *)

NoItem == [content |-> "absent", id |-> 0, tag |-> 0]

Begin ==
  /\ phase = "idle" /\ visits < MaxVisits /\ visits' = visits + 1
  /\ \/ phase' = "path" /\ sound' = (pending = {} /\ ~Present)
     \/ phase' = "resolve" /\ sound' = (pending = {} /\ doc.content = "exact" /\ access # "other")
  /\ original' = NoItem /\ current' = NoItem /\ outcome' = "none" /\ touched' = FALSE
  /\ UNCHANGED <<doc, access, pending, meddles>>

\* No token, a read lost or answered with an unexpected status or body.
ReadFails ==
  /\ phase \notin {"idle", "upload", "invite", "revoke", "delete"} /\ sound' = FALSE
  /\ Ends(CASE phase = "reconcile" -> "invite failed" [] phase = "permissions" -> "conflict"
            [] OTHER -> "failed")
  /\ UNCHANGED <<doc, access, original, current, pending, touched, Counters>>

\* The mutation that this phase sends: Graph performs and confirms it, refuses
\* it, or its answer is lost and it takes effect now, later or never.
Sends(verb, item, next, refused) ==
  LET r == Request(verb, item) IN
  /\ phase = verb
  /\ \/ /\ Possible(r) /\ Applied(r) /\ touched' = TRUE /\ next
        /\ UNCHANGED <<original, pending, sound>>
     \/ /\ ~Possible(r) /\ Ends(refused)
        /\ UNCHANGED <<doc, access, original, current, pending, touched, sound>>
     \/ /\ Ends("failed") /\ sound' = FALSE /\ UNCHANGED <<original, current, touched>>
        /\ \/ Possible(r) /\ Applied(r) /\ UNCHANGED pending
           \/ pending' \in {pending, pending \cup {r}} /\ UNCHANGED <<doc, access>>
  /\ UNCHANGED Counters

\* A refused deletion: only 412 tells of a conflict, 404 (another item, or gone) does not.
Refusal(item) ==
  IF Present /\ item.id = doc.id /\ item.tag # doc.tag THEN "conflict" ELSE "failed"

Continues(to) == phase' = to /\ UNCHANGED <<current, outcome>>

RequirePathAbsent ==
  /\ phase = "path" /\ UNCHANGED Counters
  /\ IF Present THEN Conflict ELSE Goes("session") /\ UNCHANGED <<original, current>>

CreateUploadSession ==
  /\ phase = "session" /\ UNCHANGED Counters
  /\ IF Present THEN Conflict ELSE Goes("upload") /\ UNCHANGED <<original, current>>

UploadProof ==
  Sends("upload", NoItem, phase' = "invite" /\ current' = doc' /\ UNCHANGED outcome, "conflict")

\* A 200 that does not show the exact permission is followed by one read.
GrantMargeReadAccess ==
  Sends("invite", current,
        \/ Continues("reconcile")
        \/ access' = "exact" /\ Ends("configured") /\ UNCHANGED current, "invite failed")

ReconcileMargeReadAccess ==
  /\ phase = "reconcile" /\ Ends(IF access = "exact" THEN "configured" ELSE "invite failed")
  /\ sound' = (sound /\ access = "exact")
  /\ UNCHANGED <<doc, access, original, current, pending, touched, Counters>>

\* remove resolves the path twice; the second time it must be the same item.
ResolveProof ==
  /\ phase \in {"resolve", "resolve again"} /\ UNCHANGED Counters
  /\ IF ~Present \/ (phase = "resolve again" /\ doc.id # original.id)
     THEN Conflict
     ELSE /\ Goes(IF phase = "resolve" THEN "content" ELSE "content again")
          /\ original' = IF phase = "resolve" THEN doc ELSE original
          /\ current' = doc

RequireExactContent ==
  /\ phase \in {"content", "content again"} /\ UNCHANGED Counters
  /\ IF ~Present \/ doc.id # current.id
     THEN Ends("failed") /\ UNCHANGED <<doc, access, original, current, pending, touched, sound>>
     ELSE IF doc.content # "exact" THEN Conflict
          ELSE /\ Goes(IF phase = "content" THEN "permissions" ELSE "delete")
               /\ UNCHANGED <<original, current>>

\* No permission is nothing to revoke.
AfterPermissions_AlwaysRevokes == "revoke"
AfterPermissions == IF access = "exact" THEN "revoke" ELSE "resolve again"

FindMargeReadPermission ==
  /\ phase = "permissions" /\ UNCHANGED Counters
  /\ IF access = "other" THEN Conflict ELSE Goes(AfterPermissions) /\ UNCHANGED <<original, current>>

RevokeMargeReadPermission ==
  Sends("revoke", original, Continues("resolve again"), Refusal(original))

DeleteProof ==
  Sends("delete", current, Ends("removed") /\ UNCHANGED current, Refusal(current))

Restart ==
  /\ phase # "idle" /\ Ends("failed") /\ sound' = FALSE
  /\ UNCHANGED <<doc, access, original, current, pending, touched, Counters>>

Init ==
  /\ doc = NoItem /\ access = "none" /\ phase = "idle" /\ original = NoItem /\ current = NoItem
  /\ pending = {} /\ outcome = "none" /\ touched = FALSE /\ sound = FALSE
  /\ visits = 0 /\ meddles = 0

Next ==
  \/ Land \/ Meddle \/ Begin \/ ReadFails \/ Restart
  \/ RequirePathAbsent \/ CreateUploadSession \/ UploadProof
  \/ GrantMargeReadAccess \/ ReconcileMargeReadAccess
  \/ ResolveProof \/ RequireExactContent \/ FindMargeReadPermission
  \/ RevokeMargeReadPermission \/ DeleteProof

Spec == Init /\ [][Next]_shareVars

Phases == {"idle", "path", "session", "upload", "invite", "reconcile", "resolve", "content",
           "permissions", "revoke", "resolve again", "content again", "delete"}

TypeOK ==
  /\ doc.content \in {"absent", "exact", "edited"} /\ {doc.id, doc.tag} \subseteq Nat
  /\ access \in {"none", "exact", "other"} /\ phase \in Phases
  /\ outcome \in {"none", "configured", "removed", "conflict", "failed", "invite failed"}
  /\ touched \in BOOLEAN /\ sound \in BOOLEAN

\* The API deletes a file only while it is the exact one it uploaded: an edit
\* between its last look and the deletion, even by a request that takes effect
\* late, stops it (remove: re-resolve, content, then If-Match).
DeletesOnlyExactFile ==
  [][doc.content = "edited" /\ doc'.content = "absent" => meddles' # meddles]_shareVars

\* A call with no reason to fail does not: sharing over an absent path, and
\* cleaning up the exact file, whatever earlier calls left half done (a file
\* never shared, a permission revoked by a request whose answer was lost).
CleanupHeals ==
  sound => outcome \notin {"conflict", "failed", "invite failed"}

\* A call that ends in a conflict has changed nothing, as the page tells its
\* user (src/api/client.ts, the message of a 409).
ConflictChangedNothing == outcome = "conflict" => ~touched

=============================================================================
