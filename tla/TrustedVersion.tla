---------------------------- MODULE TrustedVersion ----------------------------
(***************************************************************************)
(* The trusted-version lifecycle of one marker: create a folder and a file *)
(* in it, write a second version over the first, read both back, delete    *)
(* file and folder, and, whatever failed, try once to delete what it holds *)
(* (api/sharepoint-trusted-version-lifecycle.ts).  An answer may be lost   *)
(* while its request takes effect later; somebody may edit the file or put *)
(* another into the folder.                                                *)
(***************************************************************************)
EXTENDS Naturals, Sequences

CONSTANT MaxEditors  \* bound: acts of other people in the library

VARIABLES
  library,   \* the folder: exists, eTag, whether it holds a foreign file
  versions,  \* the versions of its file, oldest first; <<>>: no file
  fileTag,   \* the file's eTag
  drifting,  \* requests that may still take effect
  cursor,    \* the step of run()
  held,      \* the folder and file run() holds: None, or the eTag it knows
  tried,     \* fileDeleteAttempted, folderDeleteAttempted
  cleaning,  \* in the catch block
  primary,   \* the first error
  expired,   \* the frozen expiry has passed
  ended,     \* "running", "completed", or the error code thrown
  drifted,   \* history: a request took effect after it was answered for
  editors

site == <<library, versions, fileTag>>
trustedVars == <<site, drifting, cursor, held, tried, cleaning, primary, expired,
                 ended, drifted, editors>>

None == "none"
NoTag == 0
V(n) == IF n = 1 THEN "trusted" ELSE "changed"
HasFile == versions # <<>>
Content == versions[Len(versions)]

-----------------------------------------------------------------------------
(* SharePoint.  Any change of a child changes the folder's eTag.            *)

IfMatch(tag, now) == tag = now

FolderChanged == library' = [library EXCEPT !.tag = @ + 1]

Possible(r) ==
  CASE r.verb = "create folder" -> ~library.there
    [] r.verb = "create file" -> library.there /\ ~HasFile
    [] r.verb = "write" -> HasFile /\ IfMatch(r.tag, fileTag)
    [] r.verb = "delete file" -> HasFile /\ IfMatch(r.tag, fileTag)
    [] r.verb = "delete folder" -> library.there /\ IfMatch(r.tag, library.tag)

Applied(r) ==
  CASE r.verb = "create folder" ->
         /\ library' = [there |-> TRUE, tag |-> library.tag + 1, foreign |-> library.foreign]
         /\ UNCHANGED <<versions, fileTag>>
    [] r.verb = "create file" ->
         versions' = <<V(1)>> /\ fileTag' = fileTag + 1 /\ FolderChanged
    [] r.verb = "write" ->
         versions' = Append(versions, V(2)) /\ fileTag' = fileTag + 1 /\ FolderChanged
    [] r.verb = "delete file" ->
         versions' = <<>> /\ FolderChanged /\ UNCHANGED fileTag
    [] r.verb = "delete folder" ->
         /\ library' = [there |-> FALSE, tag |-> library.tag, foreign |-> FALSE]
         /\ versions' = <<>> /\ UNCHANGED fileTag

Runner == <<cursor, held, tried, cleaning, primary, ended>>

Land ==
  \E r \in drifting :
    /\ drifting' = drifting \ {r} /\ drifted' = TRUE /\ UNCHANGED <<Runner, expired, editors>>
    /\ IF Possible(r) THEN Applied(r) ELSE UNCHANGED site

Edit ==
  /\ editors < MaxEditors /\ editors' = editors + 1
  /\ \/ /\ HasFile /\ versions' = Append(versions, "foreign") /\ fileTag' = fileTag + 1
        /\ FolderChanged
     \/ /\ library.there
        /\ library' = [there |-> TRUE, tag |-> library.tag + 1, foreign |-> TRUE]
        /\ UNCHANGED <<versions, fileTag>>
  /\ UNCHANGED <<Runner, drifting, drifted, expired>>

Expire == ~expired /\ expired' = TRUE /\ UNCHANGED <<site, drifting, Runner, drifted, editors>>

-----------------------------------------------------------------------------
(* run().                                                                   *)

Elsewhere == <<drifting, drifted, expired, editors>>
At(c) == ended = "running" /\ cursor = c
Stays == UNCHANGED <<cleaning, primary, ended>>

\* What the catch block does next: each deletion at most once in all.
NextCleanup(h, t) ==
  IF h.file # NoTag /\ "file" \notin t THEN "delete file"
  ELSE IF h.folder # NoTag /\ "folder" \notin t THEN "read folder"
  ELSE "absent file"

Fails(code, t) ==
  /\ IF cleaning THEN ended' = "cleanup-incomplete" /\ UNCHANGED <<cleaning, primary, cursor>>
     ELSE /\ cleaning' = TRUE /\ primary' = code /\ cursor' = NextCleanup(held, t)
          /\ UNCHANGED ended
  /\ UNCHANGED held

\* No token, so there is nothing to clean up.
TokenFails ==
  /\ At("token") /\ ended' = "platform-refusal"
  /\ UNCHANGED <<site, Elsewhere, cursor, held, tried, cleaning, primary>>

TokenArrives ==
  /\ At("token") /\ cursor' = "lookup"
  /\ UNCHANGED <<site, Elsewhere, held, tried, cleaning, primary, ended>>

Reads == {"lookup", "find folder", "find file", "check trusted", "find write", "check changed",
          "versions", "confirm file", "read folder", "children",
          "confirm folder", "absent file", "absent folder"}

\* A read lost, or answered with an unexpected status or body.  The attempts
\* are marked before the first read of a deletion.
ReadFails ==
  /\ ended = "running" /\ cursor \in Reads
  /\ tried' = IF cursor = "read folder" THEN tried \cup {"folder"} ELSE tried
  /\ Fails("state-conflict", tried') /\ UNCHANGED <<site, Elsewhere>>

\* A read that must find what the run expects: what it then does, or the error.
Expects(c, found, next, keep, code) ==
  /\ At(c) /\ UNCHANGED <<site, Elsewhere, tried>>
  /\ IF found THEN cursor' = next /\ held' = keep /\ Stays ELSE Fails(code, tried)

Lookup ==
  Expects("lookup", ~library.there, "create folder", held, "state-conflict")

\* A mutation before which the expiry is checked: confirmed with a usable body,
\* or with none or unclear, so that the exact path is read; or refused.
Produces(verb, tag, find, next, keep) ==
  LET r == [verb |-> verb, tag |-> tag] IN
  /\ At(verb) /\ UNCHANGED <<tried, expired, editors, drifted>>
  /\ \/ /\ expired /\ Fails("platform-refusal", tried) /\ UNCHANGED <<site, drifting>>
     \/ /\ ~expired
        /\ \/ /\ Possible(r) /\ Applied(r) /\ Stays /\ UNCHANGED drifting
              /\ \/ cursor' = next /\ held' = keep
                 \/ cursor' = find /\ UNCHANGED held
           \/ /\ cursor' = find /\ Stays /\ UNCHANGED <<site, held>>
              /\ drifting' \in {drifting, drifting \cup {r}}
           \/ UNCHANGED <<site, drifting>> /\ Fails("platform-refusal", tried)

CreateFolder ==
  Produces("create folder", 0, "find folder", "create file", [held EXCEPT !.folder = library'.tag])

ExactOwnedFolder ==
  Expects("find folder", library.there, "create file", [held EXCEPT !.folder = library.tag], "ambiguous")

CreateFile ==
  Produces("create file", 0, "find file", "check trusted", [held EXCEPT !.file = fileTag'])

WriteVersion ==
  Produces("write", held.file, "find write", "check changed", [held EXCEPT !.file = fileTag'])

\* The path must hold the file, and the file the bytes just written.
ReconcileFileWrite ==
  \/ Expects("find file", HasFile /\ Content = V(1), "check trusted",
             [held EXCEPT !.file = fileTag], "ambiguous")
  \/ Expects("find write", HasFile /\ Content = V(2), "check changed",
             [held EXCEPT !.file = fileTag], "ambiguous")

RequireBytes ==
  \/ Expects("check trusted", HasFile /\ Content = V(1), "write", held, "state-conflict")
  \/ Expects("check changed", HasFile /\ Content = V(2), "versions", held, "state-conflict")

ReadVersions ==
  Expects("versions", versions = <<V(1), V(2)>>, "delete file", held, "state-conflict")

\* What a look at the file's or the folder's path shows.
PathAbsent(path) == IF path = "file" THEN ~HasFile ELSE ~library.there

\* A deletion, sent once: confirmed, unclear (then absence is looked for), or refused.
Deletes(verb, what, tag, confirm, next) ==
  LET r == [verb |-> verb, tag |-> tag] IN
  /\ At(verb) /\ tried' = tried \cup {what}
  /\ UNCHANGED <<expired, editors, drifted>>
  /\ \/ Possible(r) /\ Applied(r) /\ cursor' = next /\ Stays /\ UNCHANGED <<drifting, held>>
     \/ /\ cursor' = confirm /\ Stays /\ UNCHANGED held
        /\ \/ Possible(r) /\ Applied(r) /\ UNCHANGED drifting
           \/ UNCHANGED site /\ drifting' \in {drifting, drifting \cup {r}}
     \/ UNCHANGED <<site, drifting>> /\ Fails("platform-refusal", tried')

DeleteOwnedFile == Deletes("delete file", "file", held.file, "confirm file", "file deleted")
DeleteFolder == Deletes("delete folder", "folder", held.seen, "confirm folder", "folder deleted")

DeleteOnce ==
  \/ Expects("confirm file", PathAbsent("file"), "file deleted", held, "ambiguous")
  \/ Expects("confirm folder", PathAbsent("folder"), "folder deleted", held, "ambiguous")

\* The run goes on to the folder; the catch block to it if it has not tried.
Deleted ==
  /\ UNCHANGED <<site, Elsewhere, tried>> /\ Stays
  /\ \/ /\ At("file deleted") /\ held' = [held EXCEPT !.file = NoTag]
        /\ cursor' = NextCleanup([held EXCEPT !.file = NoTag], tried)
     \/ /\ At("folder deleted") /\ held' = [held EXCEPT !.folder = NoTag]
        /\ cursor' = "absent file"

\* The folder is read afresh, and must be empty, before it is deleted.
Empty == ~library.foreign /\ ~HasFile

ReadOwnedFolder ==
  /\ At("read folder") /\ tried' = tried \cup {"folder"} /\ UNCHANGED <<site, Elsewhere>>
  /\ IF library.there THEN cursor' = "children" /\ held' = [held EXCEPT !.seen = library.tag] /\ Stays
     ELSE Fails("state-conflict", tried')

RequireEmpty ==
  Expects("children", library.there /\ Empty, "delete folder", held, "state-conflict")

RequireAbsent ==
  \/ Expects("absent file", PathAbsent("file"), "absent folder", held, "cleanup-incomplete")
  \/ /\ At("absent folder") /\ PathAbsent("folder")
     /\ ended' = (IF cleaning THEN primary ELSE "completed")
     /\ UNCHANGED <<site, Elsewhere, cursor, held, tried, cleaning, primary>>
  \/ /\ At("absent folder") /\ ~PathAbsent("folder") /\ Fails("cleanup-incomplete", tried)
     /\ UNCHANGED <<site, Elsewhere, tried>>

Init ==
  /\ library \in {[there |-> b, tag |-> 0, foreign |-> b] : b \in BOOLEAN}
  /\ versions = <<>> /\ fileTag = 0
  /\ drifting = {} /\ cursor = "token" /\ held = [folder |-> NoTag, file |-> NoTag, seen |-> NoTag]
  /\ tried = {} /\ cleaning = FALSE /\ primary = None /\ expired = FALSE
  /\ ended = "running" /\ drifted = FALSE /\ editors = 0

Next ==
  \/ Land \/ Edit \/ Expire \/ TokenFails \/ TokenArrives \/ ReadFails \/ Lookup
  \/ CreateFolder \/ ExactOwnedFolder \/ CreateFile \/ ReconcileFileWrite \/ RequireBytes
  \/ WriteVersion \/ ReadVersions \/ DeleteOwnedFile \/ DeleteOnce \/ Deleted
  \/ ReadOwnedFolder \/ RequireEmpty \/ DeleteFolder \/ RequireAbsent

Spec == Init /\ [][Next]_trustedVars

Codes == {"platform-refusal", "state-conflict", "ambiguous", "cleanup-incomplete"}

TypeOK ==
  /\ library.there \in BOOLEAN /\ library.foreign \in BOOLEAN /\ library.tag \in Nat
  /\ fileTag \in Nat /\ {held.folder, held.file, held.seen} \subseteq Nat
  /\ tried \subseteq {"file", "folder"} /\ cleaning \in BOOLEAN
  /\ primary \in Codes \cup {None} /\ ended \in Codes \cup {"running", "completed"}

\* A run that had a token and does not say "cleanup-incomplete" has left nothing
\* behind, except what a request whose answer was lost brings about later; a
\* completed run has left nothing at all (run, its catch block, requireAbsent).
EndsClean ==
  /\ ended = "completed" => ~library.there
  /\ ended \in Codes \ {"cleanup-incomplete"} /\ cursor # "token" => ~library.there \/ drifted

\* A run deletes the file only as it wrote it, and the folder only while it is
\* empty, so never a folder that was there before it (deleteOwnedFile,
\* deleteOwnedFolder).
DeletesOnlyItsOwn ==
  [][/\ HasFile /\ versions' = <<>> => Content # "foreign" /\ library'.there
     /\ library.there /\ ~library'.there => ~library.foreign]_trustedVars

=============================================================================
