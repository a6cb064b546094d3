-------------------------- MODULE ApiLifecycleProofs --------------------------
(***************************************************************************)
(* Proofs about the two lifecycles of ApiOperations, the trusted version   *)
(* and the private document; and what all operations promise together.     *)
(***************************************************************************)
EXTENDS ApiOperationsProofs

-----------------------------------------------------------------------------
\* The trusted version.

Libraries == [there : BOOLEAN, tag : Nat, foreign : BOOLEAN]

SiteRequests == [verb : {"create folder", "create file", "write", "delete file", "delete folder"}, tag : Nat]

Helds == [folder : Nat, file : Nat, seen : Nat]

TrustedTyped ==
  /\ Trusted!TypeOK /\ library \in Libraries /\ versions \in Seq({"trusted", "changed", "foreign"})
  /\ held \in Helds /\ drifting \subseteq SiteRequests
  /\ expired \in BOOLEAN /\ drifted \in BOOLEAN /\ editors \in Nat

\* Who knows this eTag may delete the file, or the folder, that bears it.
FileDeletable(tag) == tag <= fileTag /\ (tag = fileTag /\ Trusted!HasFile => Trusted!Content # "foreign")
FolderDeletable(tag) ==
  /\ tag <= library.tag
  /\ tag = library.tag /\ library.there => ~library.foreign /\ ~Trusted!HasFile

\* A deletion names what may be deleted while it is there.
Grounded(r) ==
  /\ r.verb = "delete file" => FileDeletable(r.tag)
  /\ r.verb = "delete folder" => FolderDeletable(r.tag)

FileInFolder == Trusted!HasFile => library.there

\* Every eTag that a deletion names or will name was read from what the run made.
TagsInv ==
  /\ FileInFolder
  /\ FileDeletable(Trusted!NoTag) /\ FileDeletable(held.file)
  /\ cursor = "children" => held.seen <= library.tag
  /\ cursor = "delete folder" => FolderDeletable(held.seen)
  /\ \A r \in drifting : Grounded(r)

\* A creation of the folder that may still take effect.
CreationAhead == \E r \in drifting : r.verb = "create folder"

\* The run creates the folder once, and does not complete while that is open.
EndInv ==
  /\ \A r \in drifting : r.verb = "create folder" => r.tag = Trusted!NoTag
  /\ CreationAhead => /\ ~library.there /\ ended # "completed"
                      /\ ended = "running" => cursor = "find folder" \/ cleaning
  /\ ended = "running" /\ cursor = "create folder" => ~library.there
  /\ cleaning => cursor \notin {"token", "lookup", "create folder", "find folder"} /\ primary \in Trusted!Codes
  /\ Trusted!EndsClean

TrustedInv == TrustedTyped /\ TagsInv /\ EndInv

\* The changes of the library that keep every deletion what it was: each change
\* of the file or of what is in the folder gives a new eTag.
SiteKept ==
  /\ library' \in Libraries /\ versions' \in Seq({"trusted", "changed", "foreign"}) /\ fileTag' \in Nat
  /\ library.tag <= library'.tag /\ FileInFolder'
  /\ \A tag \in Nat : FileDeletable(tag) => FileDeletable(tag)'
  /\ \A tag \in Nat : FolderDeletable(tag) => FolderDeletable(tag)'

\* What a step of the run, or a late request, may take away.
OwnDeletion ==
  /\ Trusted!HasFile /\ versions' = <<>> => Trusted!Content # "foreign" /\ library'.there
  /\ library.there /\ ~library'.there => ~library.foreign

\* What a new folder state is, field by field.
LEMMA LibraryIs == library \in Libraries =>
  library.there \in BOOLEAN /\ library.tag \in Nat /\ library.foreign \in BOOLEAN
BY DEF Libraries

LEMMA LibraryBumped ==
  ASSUME library \in Libraries, library' = [library EXCEPT !.tag = @ + 1]
  PROVE  /\ library' \in Libraries /\ library'.there = library.there
         /\ library'.foreign = library.foreign /\ library'.tag = library.tag + 1
BY DEF Libraries

LEMMA LibraryMade ==
  ASSUME NEW there \in BOOLEAN, NEW tag \in Nat, NEW foreign \in BOOLEAN,
         library' = [there |-> there, tag |-> tag, foreign |-> foreign]
  PROVE  library' \in Libraries /\ library'.there = there /\ library'.foreign = foreign /\ library'.tag = tag
BY DEF Libraries

\* The file after a version was added to it.
LEMMA VersionAdded ==
  ASSUME versions \in Seq({"trusted", "changed", "foreign"}), NEW v \in {"trusted", "changed", "foreign"},
         versions' = Append(versions, v) \/ versions' = <<v>>
  PROVE  /\ versions' \in Seq({"trusted", "changed", "foreign"}) /\ versions' # <<>>
         /\ versions'[Len(versions')] = v
<1>1. CASE versions' = Append(versions, v)
  BY <1>1
<1>2. CASE versions' = <<v>>
  BY <1>2
<1> QED  BY <1>1, <1>2

\* A new eTag for every change, or nothing left to delete.
LEMMA TagsKept ==
  ASSUME library.tag \in Nat, fileTag \in Nat,
         library'.tag = library.tag + 1 \/ (library'.tag = library.tag /\ ~library'.there),
         fileTag' = fileTag + 1 \/ (fileTag' = fileTag /\ versions' \in {versions, <<>>})
  PROVE  /\ library.tag <= library'.tag /\ fileTag' \in Nat
         /\ \A tag \in Nat : FileDeletable(tag) => FileDeletable(tag)'
         /\ \A tag \in Nat : FolderDeletable(tag) => FolderDeletable(tag)'
<1>1. library.tag <= library'.tag /\ fileTag <= fileTag' /\ fileTag' \in Nat
  OBVIOUS
<1>2. \A tag \in Nat : FileDeletable(tag) => FileDeletable(tag)'
  <2>1. CASE fileTag' = fileTag + 1
    BY <2>1 DEF FileDeletable
  <2>2. CASE fileTag' = fileTag /\ versions' = versions
    BY <2>2 DEF FileDeletable, Trusted!HasFile, Trusted!Content
  <2>3. CASE fileTag' = fileTag /\ versions' = <<>>
    BY <2>3 DEF FileDeletable, Trusted!HasFile
  <2> QED  BY <2>1, <2>2, <2>3
<1>3. \A tag \in Nat : FolderDeletable(tag) => FolderDeletable(tag)'
  BY DEF FolderDeletable
<1> QED  BY <1>1, <1>2, <1>3

LEMMA SiteApplied ==
  ASSUME TrustedTyped, FileInFolder,
         NEW r \in SiteRequests, Trusted!Possible(r), Trusted!Applied(r), Grounded(r)
  PROVE  /\ SiteKept /\ OwnDeletion
         /\ r.verb \in {"create file", "write"} => FileDeletable(fileTag)'
         /\ library'.there /\ ~library.there => r.verb = "create folder"
<1> USE DEF Trusted!HasFile, Trusted!Content, FileInFolder
<1>0. /\ library \in Libraries /\ versions \in Seq({"trusted", "changed", "foreign"}) /\ fileTag \in Nat
      /\ library.there \in BOOLEAN /\ library.foreign \in BOOLEAN /\ library.tag \in Nat
      /\ Trusted!V(1) = "trusted" /\ Trusted!V(2) = "changed"
      /\ library.tag + 1 \in Nat
  <2>1. library \in Libraries /\ versions \in Seq({"trusted", "changed", "foreign"}) /\ fileTag \in Nat
    BY DEF TrustedTyped, Trusted!TypeOK
  <2>2. Trusted!V(1) = "trusted" /\ Trusted!V(2) = "changed"
    <3>1. 2 # 1
      OBVIOUS
    <3> QED  BY <3>1, Zenon DEF Trusted!V
  <2>3. library.there \in BOOLEAN /\ library.tag \in Nat /\ library.foreign \in BOOLEAN
    BY <2>1, LibraryIs
  <2>4. library.tag + 1 \in Nat
    BY <2>3
  <2> QED  BY <2>1, <2>2, <2>3, <2>4
<1>a. r.verb \in {"create folder", "create file", "write", "delete file", "delete folder"} /\ r.tag \in Nat
  BY DEF SiteRequests
<1>1. CASE r.verb = "create folder"
  <2>1. /\ library' = [there |-> TRUE, tag |-> library.tag + 1, foreign |-> library.foreign]
        /\ UNCHANGED <<versions, fileTag>> /\ ~library.there
    BY <1>1 DEF Trusted!Applied, Trusted!Possible
  <2>2. library' \in Libraries /\ library'.there = TRUE /\ library'.tag = library.tag + 1
    BY <1>0, <2>1, LibraryMade, Zenon
  <2>3. ~Trusted!HasFile
    BY <2>1
  <2> QED  BY <1>0, <1>1, <2>1, <2>2, <2>3, TagsKept DEF SiteKept, OwnDeletion
<1>2. ASSUME r.verb \in {"create file", "write"}
      PROVE  /\ SiteKept /\ OwnDeletion /\ FileDeletable(fileTag)'
             /\ library'.there /\ ~library.there => r.verb = "create folder"
  <2>1. /\ fileTag' = fileTag + 1 /\ library' = [library EXCEPT !.tag = @ + 1] /\ library.there
        /\ \/ versions' = <<"trusted">>
           \/ versions' = Append(versions, "changed")
    BY <1>0, <1>2 DEF Trusted!Applied, Trusted!Possible, Trusted!FolderChanged
  <2>2. library' \in Libraries /\ library'.there = library.there /\ library'.tag = library.tag + 1
    BY <1>0, <2>1, LibraryBumped
  <2>3. /\ versions' \in Seq({"trusted", "changed", "foreign"}) /\ versions' # <<>>
        /\ versions'[Len(versions')] # "foreign"
    BY <1>0, <2>1, VersionAdded
  <2>4. FileDeletable(fileTag)'
    <3>1. fileTag' \in Nat
      BY <1>0, <2>1
    <3> QED  BY <2>3, <3>1 DEF FileDeletable
  <2> QED  BY <1>0, <2>1, <2>2, <2>3, <2>4, TagsKept DEF SiteKept, OwnDeletion
<1>3. CASE r.verb = "delete file"
  <2>1. /\ fileTag' = fileTag /\ library' = [library EXCEPT !.tag = @ + 1] /\ library.there
        /\ versions' = <<>> /\ versions # <<>> /\ r.tag = fileTag
    BY <1>0, <1>3 DEF Trusted!Applied, Trusted!Possible, Trusted!FolderChanged, Trusted!IfMatch
  <2>2. library' \in Libraries /\ library'.there = library.there /\ library'.tag = library.tag + 1
    BY <1>0, <2>1, LibraryBumped
  <2>3. versions[Len(versions)] # "foreign"
    BY <1>3, <2>1 DEF Grounded, FileDeletable
  <2>4. /\ library.tag <= library'.tag /\ fileTag' \in Nat
        /\ \A tag \in Nat : FileDeletable(tag) => FileDeletable(tag)'
        /\ \A tag \in Nat : FolderDeletable(tag) => FolderDeletable(tag)'
    BY <1>0, <2>1, <2>2, TagsKept
  <2>5. versions' = <<>> /\ library.there /\ versions' \in Seq({"trusted", "changed", "foreign"})
    BY <2>1
  <2> QED  BY <1>3, <2>2, <2>3, <2>4, <2>5 DEF SiteKept, OwnDeletion
<1>4. CASE r.verb = "delete folder"
  <2>1. /\ library' = [there |-> FALSE, tag |-> library.tag, foreign |-> FALSE]
        /\ versions' = <<>> /\ fileTag' = fileTag /\ r.tag = library.tag /\ library.there
    BY <1>4 DEF Trusted!Applied, Trusted!Possible, Trusted!IfMatch
  <2>2. library' \in Libraries /\ library'.there = FALSE /\ library'.tag = library.tag
    BY <1>0, <2>1, LibraryMade, Zenon
  <2>3. ~library.foreign /\ versions = <<>>
    BY <1>4, <2>1 DEF Grounded, FolderDeletable
  <2> QED  BY <1>0, <1>4, <2>1, <2>2, <2>3, TagsKept DEF SiteKept, OwnDeletion
<1> QED  BY <1>a, <1>1, <1>2, <1>3, <1>4

LEMMA SiteEdited ==
  ASSUME TrustedTyped, FileInFolder, Trusted!Edit
  PROVE  SiteKept /\ OwnDeletion /\ (library'.there => library.there)
<1> USE DEF Trusted!HasFile, Trusted!Content, FileInFolder
<1>0. /\ library \in Libraries /\ versions \in Seq({"trusted", "changed", "foreign"}) /\ fileTag \in Nat
      /\ library.there \in BOOLEAN /\ library.foreign \in BOOLEAN /\ library.tag \in Nat
      /\ library.tag + 1 \in Nat
  <2>1. library \in Libraries /\ versions \in Seq({"trusted", "changed", "foreign"}) /\ fileTag \in Nat
    BY DEF TrustedTyped, Trusted!TypeOK
  <2>2. library.there \in BOOLEAN /\ library.tag \in Nat /\ library.foreign \in BOOLEAN
    BY <2>1, LibraryIs
  <2> QED  BY <2>1, <2>2
<1>1. CASE /\ versions # <<>> /\ versions' = Append(versions, "foreign") /\ fileTag' = fileTag + 1
           /\ library' = [library EXCEPT !.tag = @ + 1]
  <2>1. /\ library' \in Libraries /\ library'.there = library.there /\ library'.tag = library.tag + 1
        /\ versions' \in Seq({"trusted", "changed", "foreign"}) /\ versions' # <<>>
    BY <1>0, <1>1, LibraryBumped, VersionAdded
  <2> QED  BY <1>0, <1>1, <2>1, TagsKept DEF SiteKept, OwnDeletion
<1>2. CASE /\ library.there /\ library' = [there |-> TRUE, tag |-> library.tag + 1, foreign |-> TRUE]
           /\ UNCHANGED <<versions, fileTag>>
  <2>1. library' \in Libraries /\ library'.there = TRUE /\ library'.tag = library.tag + 1
    BY <1>0, <1>2, LibraryMade, Zenon
  <2> QED  BY <1>0, <1>2, <2>1, TagsKept DEF SiteKept, OwnDeletion
<1> QED  BY <1>1, <1>2 DEF Trusted!Edit, Trusted!FolderChanged

LEMMA SiteSame ==
  ASSUME TrustedTyped, FileInFolder, UNCHANGED <<library, versions, fileTag>>
  PROVE  SiteKept /\ OwnDeletion
<1>1. /\ library' \in Libraries /\ versions' \in Seq({"trusted", "changed", "foreign"}) /\ fileTag' \in Nat
      /\ library.tag \in Nat
  BY LibraryIs DEF TrustedTyped, Trusted!TypeOK
<1>2. library.tag <= library'.tag
  BY <1>1
<1>3. FileInFolder'
  BY DEF FileInFolder, Trusted!HasFile
<1>4. /\ \A tag \in Nat : FileDeletable(tag) => FileDeletable(tag)'
      /\ \A tag \in Nat : FolderDeletable(tag) => FolderDeletable(tag)'
  BY DEF FileDeletable, FolderDeletable, Trusted!HasFile, Trusted!Content
<1>5. OwnDeletion
  BY DEF OwnDeletion, Trusted!HasFile
<1> QED  BY <1>1, <1>2, <1>3, <1>4, <1>5 DEF SiteKept

\* The types, variable by variable.
LEMMA TrustedTypes ==
  ASSUME library' \in Libraries, versions' \in Seq({"trusted", "changed", "foreign"}), fileTag' \in Nat,
         held' \in Helds, drifting' \subseteq SiteRequests, expired' \in BOOLEAN, drifted' \in BOOLEAN,
         editors' \in Nat, tried' \subseteq {"file", "folder"}, cleaning' \in BOOLEAN,
         primary' \in Trusted!Codes \union {Trusted!None},
         ended' \in Trusted!Codes \union {"running", "completed"}
  PROVE  TrustedTyped'
<1>1. library'.there \in BOOLEAN /\ library'.tag \in Nat /\ library'.foreign \in BOOLEAN
  BY DEF Libraries
<1>2. held'.folder \in Nat /\ held'.file \in Nat /\ held'.seen \in Nat
  BY DEF Helds
<1> QED  BY <1>1, <1>2 DEF TrustedTyped, Trusted!TypeOK, Helds

LEMMA TrustedTypesAre ==
  ASSUME TrustedTyped
  PROVE  /\ library \in Libraries /\ versions \in Seq({"trusted", "changed", "foreign"}) /\ fileTag \in Nat
         /\ library.tag \in Nat
         /\ held \in Helds /\ drifting \subseteq SiteRequests /\ expired \in BOOLEAN /\ drifted \in BOOLEAN
         /\ held.folder \in Nat /\ held.file \in Nat /\ held.seen \in Nat
         /\ editors \in Nat /\ tried \subseteq {"file", "folder"} /\ cleaning \in BOOLEAN
         /\ primary \in Trusted!Codes \union {Trusted!None}
         /\ ended \in Trusted!Codes \union {"running", "completed"}
<1>1. held \in Helds => held.folder \in Nat /\ held.file \in Nat /\ held.seen \in Nat
  BY DEF Helds
<1> QED  BY <1>1, LibraryIs DEF TrustedTyped, Trusted!TypeOK, Helds

LEMMA Ordered == \A a, b, c \in Nat : a <= b /\ b <= c => a <= c
OBVIOUS

\* What keeps the eTags of deletions right, when the library changed as it may.
LEMMA TagsKeep ==
  ASSUME TrustedTyped, TagsInv, SiteKept,
         held'.file \in {held.file, Trusted!NoTag} \/ FileDeletable(held.file)',
         \A r \in drifting' : r \in drifting \/ Grounded(r)',
         cursor' = "children" => (cursor = "children" /\ held'.seen = held.seen) \/ held'.seen <= library'.tag,
         cursor' = "delete folder" =>
           (cursor = "delete folder" /\ held'.seen = held.seen) \/ FolderDeletable(held.seen)'
  PROVE  TagsInv'
<1>0. /\ held.file \in Nat /\ held.seen \in Nat /\ Trusted!NoTag \in Nat /\ library.tag \in Nat
      /\ library'.tag \in Nat /\ drifting \subseteq SiteRequests
      /\ library.tag <= library'.tag /\ FileInFolder'
      /\ \A tag \in Nat : FileDeletable(tag) => FileDeletable(tag)'
      /\ \A tag \in Nat : FolderDeletable(tag) => FolderDeletable(tag)'
  <2>1. library' \in Libraries => library'.tag \in Nat
    BY DEF Libraries
  <2> QED  BY <2>1, TrustedTypesAre DEF SiteKept, Trusted!NoTag
<1>1. FileDeletable(Trusted!NoTag)' /\ FileDeletable(held.file)'
  BY <1>0 DEF TagsInv, FileDeletable, Trusted!NoTag
<1>2. cursor' = "children" => held'.seen <= library'.tag
  <2>1. cursor = "children" => held.seen <= library.tag
    BY DEF TagsInv
  <2>2. held.seen <= library.tag => held.seen <= library'.tag
    BY <1>0, Ordered, Zenon
  <2> QED  BY <2>1, <2>2, Zenon
<1>3. cursor' = "delete folder" => FolderDeletable(held.seen)'
  BY <1>0 DEF TagsInv, FolderDeletable
<1>4. ASSUME NEW r \in drifting'
      PROVE  Grounded(r)'
  <2>1. CASE r \in drifting
    <3>1. Grounded(r) /\ r.tag \in Nat
      BY <1>0, <2>1 DEF TagsInv, SiteRequests
    <3> QED  BY <1>0, <3>1 DEF Grounded, FileDeletable, FolderDeletable
  <2> QED  BY <2>1, <1>4
<1> QED  BY <1>0, <1>1, <1>2, <1>3, <1>4 DEF TagsInv

\* How a failure goes on: to the cleanup, or to the end.
LEMMA FailsIs ==
  ASSUME NEW code, NEW t, Trusted!Fails(code, t)
  PROVE  /\ held' = held
         /\ \/ cleaning /\ ended' = "cleanup-incomplete" /\ UNCHANGED <<cleaning, primary, cursor>>
            \/ /\ ~cleaning /\ cleaning' = TRUE /\ primary' = code /\ ended' = ended
               /\ cursor' \in {"delete file", "read folder", "absent file"}
BY DEF Trusted!Fails, Trusted!NextCleanup

\* Nobody creates the folder, and no creation of it is on its way that was not before.
NotCreated == /\ library'.there => library.there
              /\ \A r \in drifting' : r.verb = "create folder" => r \in drifting

\* The end of a run, in a step that does not create the folder.
LEMMA EndKeeps ==
  ASSUME TrustedTyped, EndInv, NotCreated, drifted' = drifted, ended = "running",
         NEW code \in Trusted!Codes, NEW t,
         \/ Trusted!Fails(code, t)
         \/ /\ UNCHANGED <<cleaning, primary, ended>> /\ cursor' \notin {"token", "lookup", "find folder"}
            /\ cursor = "find folder" => library.there
            /\ cursor' = "create folder" => cursor = "lookup" /\ ~library.there
  PROVE  EndInv'
<1>0. /\ \A r \in drifting' : r.verb = "create folder" => r.tag = Trusted!NoTag
      /\ (CreationAhead' => CreationAhead) /\ (library'.there => library.there) /\ ended = "running"
      /\ CreationAhead => ~library.there /\ (cursor = "find folder" \/ cleaning)
      /\ cleaning => cursor \notin {"token", "lookup", "create folder", "find folder"} /\ primary \in Trusted!Codes
      /\ cursor = "create folder" => ~library.there
  BY DEF EndInv, CreationAhead, NotCreated
<1>1. CASE Trusted!Fails(code, t)
  <2>1. CASE cleaning /\ ended' = "cleanup-incomplete" /\ UNCHANGED <<cleaning, primary, cursor>>
    BY <1>0, <2>1 DEF EndInv, Trusted!EndsClean
  <2>2. CASE /\ ~cleaning /\ cleaning' = TRUE /\ primary' = code /\ ended' = ended
             /\ cursor' \in {"delete file", "read folder", "absent file"}
    BY <1>0, <2>2 DEF EndInv, Trusted!EndsClean, Trusted!Codes
  <2> QED  BY <1>1, <2>1, <2>2, FailsIs
<1>2. CASE /\ UNCHANGED <<cleaning, primary, ended>> /\ cursor' \notin {"token", "lookup", "find folder"}
           /\ cursor = "find folder" => library.there
           /\ cursor' = "create folder" => cursor = "lookup" /\ ~library.there
  BY <1>0, <1>2 DEF EndInv, Trusted!EndsClean, Trusted!Codes
<1> QED  BY <1>1, <1>2

\* A step that reads.
LEMMA ExpectsKeeps ==
  ASSUME TrustedInv, NEW c, NEW STATE found, NEW next, NEW STATE keep, NEW code \in Trusted!Codes,
         Trusted!Expects(c, found, next, keep, code),
         found => /\ keep \in Helds /\ FileDeletable(keep.file) /\ keep.seen = held.seen
                  /\ next \notin {"token", "lookup", "find folder", "children"}
                  /\ next = "create folder" => c = "lookup" /\ ~library.there
                  /\ next = "delete folder" => FolderDeletable(held.seen)
                  /\ c = "find folder" => library.there
  PROVE  TrustedInv' /\ OwnDeletion
<1>0. TrustedTyped /\ TagsInv /\ EndInv /\ FileInFolder
  BY DEF TrustedInv, TagsInv
<1>1. /\ ended = "running" /\ cursor = c
      /\ UNCHANGED <<library, versions, fileTag, drifting, drifted, expired, editors, tried>>
      /\ \/ Trusted!Fails(code, tried)
         \/ found /\ cursor' = next /\ held' = keep /\ UNCHANGED <<cleaning, primary, ended>>
  BY DEF Trusted!Expects, Trusted!At, Trusted!Stays, Trusted!site, Trusted!Elsewhere
<1>2. SiteKept /\ OwnDeletion
  BY <1>0, <1>1, SiteSame
<1>3. EndInv'
  <2>1. NotCreated
    BY <1>1 DEF NotCreated
  <2> QED  BY <1>0, <1>1, <2>1, EndKeeps
<1>4. CASE Trusted!Fails(code, tried)
  <2>1. /\ held' = held /\ cleaning' \in BOOLEAN /\ primary' \in Trusted!Codes \union {Trusted!None}
        /\ ended' \in Trusted!Codes \union {"running", "completed"}
        /\ cursor' \in {"children", "delete folder"} => cursor' = cursor
    BY <1>0, <1>4, FailsIs, TrustedTypesAre DEF Trusted!Codes
  <2>2. TrustedTyped'
    BY <1>0, <1>1, <2>1, TrustedTypesAre, TrustedTypes
  <2>3. TagsInv'
    BY <1>0, <1>1, <1>2, <2>1, TagsKeep
  <2> QED  BY <1>2, <1>3, <2>2, <2>3 DEF TrustedInv
<1>5. CASE found /\ cursor' = next /\ held' = keep /\ UNCHANGED <<cleaning, primary, ended>>
  <2>1. /\ held' \in Helds /\ held'.seen = held.seen /\ cursor' # "children"
        /\ cursor' = "delete folder" => FolderDeletable(held.seen)
    BY <1>5
  <2>2. FileDeletable(held.file)'
    BY <1>1, <1>5 DEF FileDeletable, Trusted!HasFile, Trusted!Content
  <2>3. cursor' = "delete folder" => FolderDeletable(held.seen)'
    BY <1>1, <2>1 DEF FolderDeletable, Trusted!HasFile
  <2>4. TrustedTyped'
    BY <1>0, <1>1, <1>5, <2>1, TrustedTypesAre, TrustedTypes
  <2>5. TagsInv'
    BY <1>0, <1>1, <1>2, <2>1, <2>2, <2>3, TagsKeep
  <2> QED  BY <1>2, <1>3, <2>4, <2>5 DEF TrustedInv
<1> QED  BY <1>1, <1>4, <1>5

\* What a failed mutation leaves.
LEMMA FailureKeeps ==
  ASSUME TrustedInv, SiteKept, NotCreated, drifted' = drifted, ended = "running",
         NEW code \in Trusted!Codes, NEW t, Trusted!Fails(code, t), t \subseteq {"file", "folder"}, tried' = t,
         UNCHANGED <<drifting, expired, editors>>
  PROVE  TrustedInv'
<1>0. TrustedTyped /\ TagsInv /\ EndInv
  BY DEF TrustedInv
<1>1. /\ held' = held /\ cleaning' \in BOOLEAN /\ primary' \in Trusted!Codes \union {Trusted!None}
      /\ ended' \in Trusted!Codes \union {"running", "completed"}
      /\ cursor' \in {"children", "delete folder"} => cursor' = cursor
  BY <1>0, FailsIs, TrustedTypesAre DEF Trusted!Codes
<1>2. TrustedTyped'
  BY <1>0, <1>1, TrustedTypesAre, TrustedTypes DEF SiteKept
<1>3. TagsInv'
  BY <1>0, <1>1, TagsKeep
<1>4. EndInv'
  BY <1>0, EndKeeps
<1> QED  BY <1>2, <1>3, <1>4 DEF TrustedInv

\* What a mutation, confirmed or not, leaves of a run that goes on.
LEMMA MutationKeeps ==
  ASSUME TrustedInv, SiteKept, drifted' = drifted, ended = "running", EndInv',
         UNCHANGED <<expired, editors, cleaning, primary, ended>>, tried' \subseteq {"file", "folder"},
         NEW r \in SiteRequests, Grounded(r), drifting' \subseteq drifting \union {r},
         held' \in Helds, held'.file \in {held.file, Trusted!NoTag} \/ FileDeletable(held.file)',
         cursor' \notin {"children", "delete folder"}
  PROVE  TrustedInv'
<1>0. TrustedTyped /\ TagsInv /\ r.tag \in Nat
  BY DEF TrustedInv, SiteRequests
<1>1. Grounded(r)'
  BY <1>0 DEF Grounded, SiteKept, FileDeletable, FolderDeletable
<1>2. TrustedTyped'
  BY <1>0, TrustedTypesAre, TrustedTypes DEF SiteKept
<1>3. \A q \in drifting' : q \in drifting \/ Grounded(q)'
  BY <1>1
<1>4. TagsInv'
  BY <1>0, <1>3, TagsKeep
<1> QED  BY <1>2, <1>4 DEF TrustedInv

\* What the run holds after it created or wrote.
HeldAfter(verb) ==
  \/ held' = held
  \/ held' = [held EXCEPT !.folder = library'.tag]
  \/ held' = [held EXCEPT !.file = fileTag'] /\ verb # "create folder"

\* What a step that creates or writes does, but for what the run holds then.
Produced(r, verb, find, next) ==
  /\ ended = "running" /\ cursor = verb /\ UNCHANGED <<tried, expired, editors, drifted>>
  /\ \/ Trusted!Fails("platform-refusal", tried) /\ UNCHANGED <<library, versions, fileTag, drifting>>
     \/ /\ Trusted!Possible(r) /\ Trusted!Applied(r) /\ UNCHANGED <<cleaning, primary, ended, drifting>>
        /\ cursor' = next \/ cursor' = find
        /\ HeldAfter(verb)
     \/ /\ cursor' = find /\ UNCHANGED <<cleaning, primary, ended, library, versions, fileTag, held>>
        /\ drifting' \in {drifting, drifting \union {r}}

\* A step that creates or writes.
LEMMA ProducesKeeps ==
  ASSUME TrustedInv, NEW verb \in {"create folder", "create file", "write"}, NEW STATE r, r \in SiteRequests,
         r.verb = verb,
         NEW find, NEW next, Produced(r, verb, find, next),
         find \notin {"token", "lookup", "create folder", "children", "delete folder"},
         next \notin {"token", "lookup", "create folder", "find folder", "children", "delete folder"},
         verb = "create folder" <=> find = "find folder",
         verb = "create folder" => r.tag = Trusted!NoTag
  PROVE  TrustedInv' /\ OwnDeletion
<1>0. TrustedTyped /\ TagsInv /\ EndInv /\ FileInFolder
  BY DEF TrustedInv, TagsInv
<1>1. /\ ended = "running" /\ cursor = verb /\ UNCHANGED <<tried, expired, editors, drifted>>
      /\ \/ Trusted!Fails("platform-refusal", tried) /\ UNCHANGED <<library, versions, fileTag, drifting>>
         \/ /\ Trusted!Possible(r) /\ Trusted!Applied(r) /\ UNCHANGED <<cleaning, primary, ended, drifting>>
            /\ cursor' = next \/ cursor' = find
            /\ HeldAfter(verb)
         \/ /\ cursor' = find /\ UNCHANGED <<cleaning, primary, ended, library, versions, fileTag, held>>
            /\ drifting' \in {drifting, drifting \union {r}}
  BY DEF Produced
<1>2. /\ r \in SiteRequests /\ r.verb = verb /\ Grounded(r)
      /\ r.verb \in {"create folder", "create file", "write"}
  BY DEF SiteRequests, Grounded
<1>3. /\ tried \subseteq {"file", "folder"} /\ held \in Helds /\ library.there \in BOOLEAN
      /\ "platform-refusal" \in Trusted!Codes
  BY <1>0, TrustedTypesAre, LibraryIs DEF Trusted!Codes
\* The folder's creation, while no other is on its way.
<1>4. verb = "create folder" => ~library.there /\ ~CreationAhead /\ ~cleaning
  BY <1>0, <1>1 DEF EndInv
<1>5. CASE Trusted!Fails("platform-refusal", tried) /\ UNCHANGED <<library, versions, fileTag, drifting>>
  <2>1. NotCreated
    BY <1>5 DEF NotCreated
  <2> QED  BY <1>0, <1>1, <1>3, <1>5, <2>1, SiteSame, FailureKeeps
<1>6. CASE /\ Trusted!Possible(r) /\ Trusted!Applied(r) /\ UNCHANGED <<cleaning, primary, ended, drifting>>
           /\ cursor' = next \/ cursor' = find
           /\ HeldAfter(verb)
  <2>1. /\ SiteKept /\ OwnDeletion
        /\ verb # "create folder" => FileDeletable(fileTag)'
        /\ library'.there /\ ~library.there => verb = "create folder"
    BY <1>0, <1>2, <1>6, SiteApplied
  <2>2. library'.tag \in Nat /\ fileTag' \in Nat
    BY <2>1, LibraryIs DEF SiteKept, Libraries
  <2>3. held' = held \/ (held' = [held EXCEPT !.folder = library'.tag])
        \/ (held' = [held EXCEPT !.file = fileTag'] /\ verb # "create folder")
    BY <1>6 DEF HeldAfter
  <2>4. held' \in Helds /\ (held'.file = held.file \/ (held'.file = fileTag' /\ verb # "create folder"))
    BY <1>3, <2>2, <2>3 DEF Helds
  <2>5. held'.file = held.file \/ FileDeletable(held.file)'
    BY <2>1, <2>4 DEF FileDeletable
  <2>6. EndInv'
    <3>1. CASE verb = "create folder"
      BY <1>0, <1>1, <1>4, <1>6, <3>1 DEF EndInv, CreationAhead, Trusted!EndsClean, Trusted!Codes
    <3>2. CASE verb # "create folder"
      <4>1. NotCreated
        BY <1>3, <1>6, <2>1, <3>2 DEF NotCreated
      <4> QED  BY <1>0, <1>1, <1>3, <1>6, <3>2, <4>1, EndKeeps
    <3> QED  BY <3>1, <3>2
  <2> QED  BY <1>1, <1>2, <1>3, <1>6, <2>1, <2>4, <2>5, <2>6, MutationKeeps
<1>7. CASE /\ cursor' = find /\ UNCHANGED <<cleaning, primary, ended, library, versions, fileTag, held>>
           /\ drifting' \in {drifting, drifting \union {r}}
  <2>1. SiteKept /\ OwnDeletion
    BY <1>0, <1>7, SiteSame
  <2>2. EndInv'
    <3>1. CASE verb = "create folder"
      BY <1>0, <1>1, <1>2, <1>4, <1>7, <3>1 DEF EndInv, CreationAhead, Trusted!EndsClean, Trusted!Codes
    <3>2. CASE verb # "create folder"
      <4>1. NotCreated
        BY <1>2, <1>7, <3>2 DEF NotCreated
      <4> QED  BY <1>0, <1>1, <1>3, <1>7, <3>2, <4>1, EndKeeps
    <3> QED  BY <3>1, <3>2
  <2> QED  BY <1>1, <1>2, <1>3, <1>7, <2>1, <2>2, MutationKeeps
<1> QED  BY <1>1, <1>5, <1>6, <1>7

\* A step that deletes.
LEMMA DeletesKeeps ==
  ASSUME TrustedInv, NEW verb \in {"delete file", "delete folder"}, NEW what \in {"file", "folder"},
         NEW STATE tag, tag \in Nat, NEW confirm, NEW next, Trusted!Deletes(verb, what, tag, confirm, next),
         {confirm, next} \subseteq {"confirm file", "confirm folder", "file deleted", "folder deleted"},
         verb = "delete file" => FileDeletable(tag), verb = "delete folder" => FolderDeletable(tag)
  PROVE  TrustedInv' /\ OwnDeletion
<1> DEFINE r == [verb |-> verb, tag |-> tag]
<1>0. TrustedTyped /\ TagsInv /\ EndInv /\ FileInFolder
  BY DEF TrustedInv, TagsInv
<1>1. /\ ended = "running" /\ cursor = verb /\ tried' = tried \union {what}
      /\ UNCHANGED <<expired, editors, drifted>>
      /\ \/ /\ Trusted!Possible(r) /\ Trusted!Applied(r) /\ cursor' \in {confirm, next}
            /\ UNCHANGED <<cleaning, primary, ended, drifting, held>>
         \/ /\ cursor' = confirm /\ UNCHANGED <<cleaning, primary, ended, library, versions, fileTag, held>>
            /\ drifting' \in {drifting, drifting \union {r}}
         \/ Trusted!Fails("platform-refusal", tried') /\ UNCHANGED <<library, versions, fileTag, drifting>>
  BY DEF Trusted!Deletes, Trusted!At, Trusted!Stays, Trusted!site
<1>2. /\ r \in SiteRequests /\ r.verb \in {"delete file", "delete folder"} /\ Grounded(r)
      /\ r.verb # "create folder"
  BY DEF SiteRequests, Grounded
<1> HIDE DEF r
<1>3. /\ tried \subseteq {"file", "folder"} /\ held \in Helds /\ library.there \in BOOLEAN
      /\ tried' \subseteq {"file", "folder"} /\ "platform-refusal" \in Trusted!Codes
  BY <1>0, <1>1, TrustedTypesAre, LibraryIs DEF Trusted!Codes
<1>4. CASE Trusted!Fails("platform-refusal", tried') /\ UNCHANGED <<library, versions, fileTag, drifting>>
  <2>1. NotCreated
    BY <1>4 DEF NotCreated
  <2> QED  BY <1>0, <1>1, <1>3, <1>4, <2>1, SiteSame, FailureKeeps
<1>5. CASE /\ Trusted!Possible(r) /\ Trusted!Applied(r) /\ cursor' \in {confirm, next}
           /\ UNCHANGED <<cleaning, primary, ended, drifting, held>>
  <2>1. /\ SiteKept /\ OwnDeletion
        /\ library'.there => library.there
    BY <1>0, <1>2, <1>3, <1>5, SiteApplied
  <2>2. NotCreated
    BY <1>5, <2>1 DEF NotCreated
  <2>3. cursor' \in {"confirm file", "confirm folder", "file deleted", "folder deleted"}
    BY <1>5
  <2>4. EndInv'
    BY <1>0, <1>1, <1>3, <1>5, <2>2, <2>3, EndKeeps
  <2> QED  BY <1>1, <1>2, <1>3, <1>5, <2>1, <2>3, <2>4, MutationKeeps
<1>6. CASE /\ cursor' = confirm /\ UNCHANGED <<cleaning, primary, ended, library, versions, fileTag, held>>
           /\ drifting' \in {drifting, drifting \union {r}}
  <2>1. SiteKept /\ OwnDeletion
    BY <1>0, <1>6, SiteSame
  <2>2. NotCreated
    BY <1>2, <1>6 DEF NotCreated
  <2>3. EndInv'
    BY <1>0, <1>1, <1>3, <1>6, <2>2, EndKeeps
  <2> QED  BY <1>1, <1>2, <1>3, <1>6, <2>1, <2>3, MutationKeeps
<1> QED  BY <1>1, <1>4, <1>5, <1>6

\* A record of two fields is its two fields.
LEMMA TwoFields ==
  ASSUME NEW S, NEW q \in [verb : S, tag : Nat]
  PROVE  q = [verb |-> q.verb, tag |-> q.tag]
OBVIOUS

\* A request is its verb and its eTag.
LEMMA SameRequest ==
  ASSUME NEW q \in SiteRequests, NEW r \in SiteRequests, q.verb = r.verb, q.tag = r.tag
  PROVE  q = r
<1>1. q = [verb |-> q.verb, tag |-> q.tag] /\ r = [verb |-> r.verb, tag |-> r.tag]
  BY TwoFields, Zenon DEF SiteRequests
<1> QED  BY <1>1, Zenon

\* Another's change, or a request that takes effect late.
LEMMA LandKeeps ==
  ASSUME TrustedInv, Trusted!Land
  PROVE  TrustedInv' /\ OwnDeletion
<1>0. TrustedTyped /\ TagsInv /\ EndInv /\ FileInFolder
  BY DEF TrustedInv, TagsInv
<1>1. PICK r \in drifting :
        /\ drifting' = drifting \ {r} /\ drifted' = TRUE
        /\ UNCHANGED <<cursor, held, tried, cleaning, primary, ended, expired, editors>>
        /\ \/ Trusted!Possible(r) /\ Trusted!Applied(r)
           \/ UNCHANGED <<library, versions, fileTag>>
  BY DEF Trusted!Land, Trusted!Runner, Trusted!site
<1>2. r \in SiteRequests /\ Grounded(r)
  BY <1>0, TrustedTypesAre DEF TagsInv
<1>3. SiteKept /\ OwnDeletion /\ (library'.there /\ ~library.there => r.verb = "create folder")
  BY <1>0, <1>1, <1>2, SiteApplied, SiteSame
<1>4. TrustedTyped'
  BY <1>0, <1>1, <1>3, TrustedTypesAre, TrustedTypes DEF SiteKept
<1>5. TagsInv'
  BY <1>0, <1>1, <1>3, TagsKeep
<1>6. EndInv'
  <2>1. \A q \in drifting' : q.verb = "create folder" => q \in drifting /\ q.tag = Trusted!NoTag
    BY <1>0, <1>1 DEF EndInv
  <2>2. CreationAhead' => CreationAhead /\ ~library'.there
    <3>1. ASSUME NEW q \in drifting', q.verb = "create folder", r.verb = "create folder"
          PROVE  FALSE
      <4>1. q \in SiteRequests /\ r \in SiteRequests /\ q.tag = r.tag /\ q.verb = r.verb
        BY <1>0, <1>1, <1>2, <2>1, <3>1, TrustedTypesAre DEF EndInv
      <4>2. q = r
        BY <4>1, SameRequest
      <4> QED  BY <1>1, <3>1, <4>2
    <3>2. CreationAhead => ~library.there
      BY <1>0 DEF EndInv
    <3> QED  BY <1>1, <1>3, <2>1, <3>1, <3>2 DEF CreationAhead
  <2>3. ended = "running" /\ cursor = "create folder" => ~library'.there
    <3>1. ended = "running" /\ cursor = "create folder" => ~library.there /\ ~CreationAhead
      BY <1>0 DEF EndInv
    <3> QED  BY <1>1, <1>3, <3>1 DEF CreationAhead
  <2>4. ended = "completed" => ~library'.there
    <3>1. ended = "completed" => ~library.there /\ ~CreationAhead
      BY <1>0 DEF EndInv, Trusted!EndsClean
    <3> QED  BY <1>1, <1>3, <3>1 DEF CreationAhead
  <2> QED  BY <1>0, <1>1, <2>1, <2>2, <2>3, <2>4 DEF EndInv, Trusted!EndsClean
<1> QED  BY <1>3, <1>4, <1>5, <1>6 DEF TrustedInv

LEMMA EditKeeps ==
  ASSUME TrustedInv, Trusted!Edit
  PROVE  TrustedInv' /\ OwnDeletion
<1>0. TrustedTyped /\ TagsInv /\ EndInv /\ FileInFolder
  BY DEF TrustedInv, TagsInv
<1>1. /\ UNCHANGED <<cursor, held, tried, cleaning, primary, ended, expired, drifting, drifted>>
      /\ editors' = editors + 1
  BY DEF Trusted!Edit, Trusted!Runner
<1>2. SiteKept /\ OwnDeletion /\ (library'.there => library.there)
  BY <1>0, SiteEdited
<1>3. editors' \in Nat
  BY <1>0, <1>1, TrustedTypesAre
<1>4. TrustedTyped'
  BY <1>0, <1>1, <1>2, <1>3, TrustedTypesAre, TrustedTypes DEF SiteKept
<1>5. TagsInv'
  BY <1>0, <1>1, <1>2, TagsKeep
<1>6. EndInv'
  BY <1>0, <1>1, <1>2 DEF EndInv, Trusted!EndsClean, CreationAhead
<1> QED  BY <1>2, <1>4, <1>5, <1>6 DEF TrustedInv

\* A step that changes neither the library nor what may still come.
LEMMA RunnerKeeps ==
  ASSUME TrustedInv, UNCHANGED <<library, versions, fileTag, drifting, drifted, expired, editors>>,
         EndInv', tried' \subseteq {"file", "folder"},
         cleaning' \in BOOLEAN, primary' \in Trusted!Codes \union {Trusted!None},
         ended' \in Trusted!Codes \union {"running", "completed"},
         held' \in Helds, held'.file \in {held.file, Trusted!NoTag},
         cursor' = "children" => (cursor = "children" /\ held'.seen = held.seen) \/ held'.seen = library.tag,
         cursor' = "delete folder" => cursor = "delete folder" /\ held'.seen = held.seen
  PROVE  TrustedInv' /\ OwnDeletion
<1>0. TrustedTyped /\ TagsInv /\ FileInFolder
  BY DEF TrustedInv, TagsInv
<1>1. SiteKept /\ OwnDeletion
  BY <1>0, SiteSame
<1>2. TrustedTyped'
  BY <1>0, TrustedTypesAre, TrustedTypes
<1>3. library.tag \in Nat /\ library'.tag = library.tag
  BY <1>0, TrustedTypesAre
<1>4. cursor' = "children" => (cursor = "children" /\ held'.seen = held.seen) \/ held'.seen <= library'.tag
  BY <1>3
<1>5. TagsInv'
  BY <1>0, <1>1, <1>4, TagsKeep
<1> QED  BY <1>1, <1>2, <1>5 DEF TrustedInv

\* What the folder or the file is once it is forgotten, or the folder's eTag once it is read.
LEMMA HeldIs ==
  ASSUME held \in Helds, NEW tag \in Nat
  PROVE  /\ held.folder \in Nat /\ held.file \in Nat /\ held.seen \in Nat
         /\ [held EXCEPT !.file = tag] \in Helds
         /\ [held EXCEPT !.file = tag].file = tag /\ [held EXCEPT !.file = tag].seen = held.seen
         /\ [held EXCEPT !.folder = tag] \in Helds
         /\ [held EXCEPT !.folder = tag].file = held.file /\ [held EXCEPT !.folder = tag].seen = held.seen
         /\ [held EXCEPT !.seen = tag] \in Helds
         /\ [held EXCEPT !.seen = tag].file = held.file /\ [held EXCEPT !.seen = tag].seen = tag
BY DEF Helds

\* What a step finds out, or the end it comes to.
LEMMA ReadsKeep ==
  ASSUME TrustedInv,
         \/ Trusted!TokenFails \/ Trusted!TokenArrives \/ Trusted!ReadFails \/ Trusted!Expire
         \/ Trusted!Deleted \/ Trusted!ReadOwnedFolder
  PROVE  TrustedInv' /\ OwnDeletion
<1>0. TrustedTyped /\ TagsInv /\ EndInv /\ FileInFolder
  BY DEF TrustedInv, TagsInv
<1>1. /\ held \in Helds /\ tried \subseteq {"file", "folder"} /\ cleaning \in BOOLEAN /\ library.tag \in Nat
      /\ primary \in Trusted!Codes \union {Trusted!None} /\ ended \in Trusted!Codes \union {"running", "completed"}
      /\ "state-conflict" \in Trusted!Codes
  BY <1>0, TrustedTypesAre DEF Trusted!Codes
<1>2. CASE Trusted!TokenFails
  <2>1. /\ ended = "running" /\ cursor = "token" /\ ended' = "platform-refusal"
        /\ UNCHANGED <<library, versions, fileTag, drifting, drifted, expired, editors,
                       cursor, held, tried, cleaning, primary>>
    BY <1>2 DEF Trusted!TokenFails, Trusted!At, Trusted!site, Trusted!Elsewhere
  <2>2. EndInv'
    BY <1>0, <2>1 DEF EndInv, Trusted!EndsClean, CreationAhead
  <2> QED  BY <1>1, <2>1, <2>2, RunnerKeeps DEF Trusted!Codes
<1>3. CASE Trusted!TokenArrives
  <2>1. /\ ended = "running" /\ cursor = "token" /\ cursor' = "lookup"
        /\ UNCHANGED <<library, versions, fileTag, drifting, drifted, expired, editors,
                       ended, held, tried, cleaning, primary>>
    BY <1>3 DEF Trusted!TokenArrives, Trusted!At, Trusted!site, Trusted!Elsewhere
  <2>2. EndInv'
    BY <1>0, <2>1 DEF EndInv, Trusted!EndsClean, CreationAhead, Trusted!Codes
  <2> QED  BY <1>1, <2>1, <2>2, RunnerKeeps
<1>4. CASE Trusted!ReadFails
  <2>1. /\ ended = "running" /\ cursor \in Trusted!Reads /\ Trusted!Fails("state-conflict", tried')
        /\ tried' \in {tried, tried \union {"folder"}}
        /\ UNCHANGED <<library, versions, fileTag, drifting, drifted, expired, editors>>
    BY <1>4 DEF Trusted!ReadFails, Trusted!site, Trusted!Elsewhere
  <2>2. tried' \subseteq {"file", "folder"}
    BY <1>1, <2>1
  <2>3. NotCreated /\ SiteKept /\ OwnDeletion
    BY <1>0, <2>1, SiteSame DEF NotCreated
  <2> QED  BY <1>1, <2>1, <2>2, <2>3, FailureKeeps
<1>5. CASE Trusted!Expire
  <2>1. /\ expired' = TRUE
        /\ UNCHANGED <<library, versions, fileTag, drifting, drifted, editors,
                       cursor, ended, held, tried, cleaning, primary>>
    BY <1>5 DEF Trusted!Expire, Trusted!site, Trusted!Runner
  <2>2. EndInv'
    BY <1>0, <2>1 DEF EndInv, Trusted!EndsClean, CreationAhead
  <2>3. TrustedTyped'
    BY <1>0, <2>1, TrustedTypesAre, TrustedTypes
  <2>4. SiteKept /\ OwnDeletion
    BY <1>0, <2>1, SiteSame
  <2>5. TagsInv'
    BY <1>0, <2>1, <2>4, TagsKeep
  <2> QED  BY <2>2, <2>3, <2>4, <2>5 DEF TrustedInv
<1>6. CASE Trusted!Deleted
  <2>1. /\ ended = "running" /\ UNCHANGED <<cleaning, primary, ended, tried>>
        /\ UNCHANGED <<library, versions, fileTag, drifting, drifted, expired, editors>>
        /\ \/ held' = [held EXCEPT !.file = Trusted!NoTag]
           \/ held' = [held EXCEPT !.folder = Trusted!NoTag]
        /\ cursor' \in {"delete file", "read folder", "absent file"} /\ cursor # "find folder"
    BY <1>6, Zenon DEF Trusted!Deleted, Trusted!At, Trusted!Stays, Trusted!site, Trusted!Elsewhere, Trusted!NextCleanup
  <2>2. held' \in Helds /\ held'.file \in {held.file, Trusted!NoTag}
    BY <1>1, <2>1, HeldIs DEF Trusted!NoTag
  <2>3. NotCreated
    BY <2>1 DEF NotCreated
  <2>4. EndInv'
    BY <1>0, <1>1, <2>1, <2>3, EndKeeps
  <2> QED  BY <1>1, <2>1, <2>2, <2>4, RunnerKeeps
<1>7. CASE Trusted!ReadOwnedFolder
  <2>1. /\ ended = "running" /\ cursor = "read folder" /\ tried' = tried \union {"folder"}
        /\ UNCHANGED <<library, versions, fileTag, drifting, drifted, expired, editors>>
        /\ \/ /\ cursor' = "children" /\ held' = [held EXCEPT !.seen = library.tag]
              /\ UNCHANGED <<cleaning, primary, ended>>
           \/ Trusted!Fails("state-conflict", tried')
    BY <1>7, Zenon DEF Trusted!ReadOwnedFolder, Trusted!At, Trusted!Stays, Trusted!site, Trusted!Elsewhere
  <2>2. tried' \subseteq {"file", "folder"}
    BY <1>1, <2>1
  <2>3. NotCreated /\ SiteKept /\ OwnDeletion
    BY <1>0, <2>1, SiteSame DEF NotCreated
  <2>4. CASE Trusted!Fails("state-conflict", tried')
    BY <1>1, <2>1, <2>2, <2>3, <2>4, FailureKeeps
  <2>5. CASE /\ cursor' = "children" /\ held' = [held EXCEPT !.seen = library.tag]
             /\ UNCHANGED <<cleaning, primary, ended>>
    <3>1. held' \in Helds /\ held'.file = held.file /\ held'.seen = library.tag
      BY <1>1, <2>5, HeldIs
    <3>2. EndInv'
      BY <1>0, <1>1, <2>1, <2>3, <2>5, EndKeeps
    <3> QED  BY <1>1, <2>1, <2>2, <2>5, <3>1, <3>2, RunnerKeeps
  <2> QED  BY <2>1, <2>4, <2>5
<1> QED  BY <1>2, <1>3, <1>4, <1>5, <1>6, <1>7

\* What a step reads and must find.
LEMMA FindsKeep ==
  ASSUME TrustedInv,
         \/ Trusted!Lookup \/ Trusted!ExactOwnedFolder \/ Trusted!ReconcileFileWrite \/ Trusted!RequireBytes
         \/ Trusted!ReadVersions \/ Trusted!DeleteOnce \/ Trusted!RequireEmpty \/ Trusted!RequireAbsent
  PROVE  TrustedInv' /\ OwnDeletion
<1>0. TrustedTyped /\ TagsInv /\ EndInv /\ FileInFolder
  BY DEF TrustedInv, TagsInv
<1>1. /\ held \in Helds /\ library.tag \in Nat /\ fileTag \in Nat /\ tried \subseteq {"file", "folder"}
      /\ cleaning \in BOOLEAN /\ primary \in Trusted!Codes \union {Trusted!None}
      /\ ended \in Trusted!Codes \union {"running", "completed"} /\ library.there \in BOOLEAN
      /\ FileDeletable(held.file)
      /\ {"state-conflict", "ambiguous", "cleanup-incomplete"} \subseteq Trusted!Codes
  BY <1>0, TrustedTypesAre, LibraryIs DEF Trusted!Codes, TagsInv
<1>2. CASE Trusted!Lookup
  <2> DEFINE found == ~library.there
  <2>1. Trusted!Expects("lookup", found, "create folder", held, "state-conflict")
    BY <1>2 DEF Trusted!Lookup
  <2> QED  BY <1>1, <2>1, ExpectsKeeps
<1>3. CASE Trusted!ExactOwnedFolder
  <2> DEFINE found == library.there
             keep == [held EXCEPT !.folder = library.tag]
  <2>1. Trusted!Expects("find folder", found, "create file", keep, "ambiguous")
    BY <1>3 DEF Trusted!ExactOwnedFolder
  <2>2. keep \in Helds /\ keep.file = held.file /\ keep.seen = held.seen
    BY <1>1, HeldIs
  <2>3. FileDeletable(keep.file)
    BY <1>1, <2>2 DEF FileDeletable
  <2>4. found => library.there
    OBVIOUS
  <2> HIDE DEF found, keep
  <2> QED  BY <1>1, <2>1, <2>2, <2>3, <2>4, ExpectsKeeps
<1>4. CASE Trusted!ReconcileFileWrite
  <2> DEFINE keep == [held EXCEPT !.file = fileTag]
             one == Trusted!HasFile /\ Trusted!Content = Trusted!V(1)
             two == Trusted!HasFile /\ Trusted!Content = Trusted!V(2)
  <2>1. \/ Trusted!Expects("find file", one, "check trusted", keep, "ambiguous")
        \/ Trusted!Expects("find write", two, "check changed", keep, "ambiguous")
    BY <1>4 DEF Trusted!ReconcileFileWrite
  <2>2. keep \in Helds /\ keep.file = fileTag /\ keep.seen = held.seen
    BY <1>1, HeldIs
  <2>3. one => FileDeletable(keep.file)
    BY <1>1, <2>2 DEF FileDeletable, Trusted!V
  <2>4. two => FileDeletable(keep.file)
    <3>1. Trusted!V(2) = "changed"
      <4>1. 2 # 1
        OBVIOUS
      <4> QED  BY <4>1, Zenon DEF Trusted!V
    <3> QED  BY <1>1, <2>2, <3>1 DEF FileDeletable
  <2> HIDE DEF keep, one, two
  <2>5. CASE Trusted!Expects("find file", one, "check trusted", keep, "ambiguous")
    BY <1>1, <2>2, <2>3, <2>5, ExpectsKeeps
  <2>6. CASE Trusted!Expects("find write", two, "check changed", keep, "ambiguous")
    BY <1>1, <2>2, <2>4, <2>6, ExpectsKeeps
  <2> QED  BY <2>1, <2>5, <2>6
<1>5. CASE Trusted!RequireBytes
  <2> DEFINE one == Trusted!HasFile /\ Trusted!Content = Trusted!V(1)
             two == Trusted!HasFile /\ Trusted!Content = Trusted!V(2)
  <2>1. \/ Trusted!Expects("check trusted", one, "write", held, "state-conflict")
        \/ Trusted!Expects("check changed", two, "versions", held, "state-conflict")
    BY <1>5 DEF Trusted!RequireBytes
  <2> HIDE DEF one, two
  <2>2. CASE Trusted!Expects("check trusted", one, "write", held, "state-conflict")
    BY <1>1, <2>2, ExpectsKeeps
  <2>3. CASE Trusted!Expects("check changed", two, "versions", held, "state-conflict")
    BY <1>1, <2>3, ExpectsKeeps
  <2> QED  BY <2>1, <2>2, <2>3
<1>6. CASE Trusted!ReadVersions
  <2> DEFINE found == versions = <<Trusted!V(1), Trusted!V(2)>>
  <2>1. Trusted!Expects("versions", found, "delete file", held, "state-conflict")
    BY <1>6 DEF Trusted!ReadVersions
  <2> HIDE DEF found
  <2> QED  BY <1>1, <2>1, ExpectsKeeps
<1>7. CASE Trusted!DeleteOnce
  <2> DEFINE file == Trusted!PathAbsent("file")
             folder == Trusted!PathAbsent("folder")
  <2>1. \/ Trusted!Expects("confirm file", file, "file deleted", held, "ambiguous")
        \/ Trusted!Expects("confirm folder", folder, "folder deleted", held, "ambiguous")
    BY <1>7 DEF Trusted!DeleteOnce
  <2> HIDE DEF file, folder
  <2>2. CASE Trusted!Expects("confirm file", file, "file deleted", held, "ambiguous")
    BY <1>1, <2>2, ExpectsKeeps
  <2>3. CASE Trusted!Expects("confirm folder", folder, "folder deleted", held, "ambiguous")
    BY <1>1, <2>3, ExpectsKeeps
  <2> QED  BY <2>1, <2>2, <2>3
<1>8. CASE Trusted!RequireEmpty
  <2> DEFINE found == library.there /\ Trusted!Empty
  <2>1. Trusted!Expects("children", found, "delete folder", held, "state-conflict")
    BY <1>8 DEF Trusted!RequireEmpty
  <2>2. cursor = "children" => held.seen <= library.tag
    BY <1>0 DEF TagsInv
  <2>3. cursor = "children"
    BY <2>1 DEF Trusted!Expects, Trusted!At
  <2>4. found => FolderDeletable(held.seen)
    BY <2>2, <2>3 DEF FolderDeletable, Trusted!Empty
  <2> HIDE DEF found
  <2> QED  BY <1>1, <2>1, <2>4, ExpectsKeeps
<1>9. CASE Trusted!RequireAbsent
  <2> DEFINE file == Trusted!PathAbsent("file")
  <2>1. \/ Trusted!Expects("absent file", file, "absent folder", held, "cleanup-incomplete")
        \/ /\ ended = "running" /\ cursor = "absent folder" /\ ~library.there
           /\ ended' = (IF cleaning THEN primary ELSE "completed")
           /\ UNCHANGED <<library, versions, fileTag, drifting, drifted, expired, editors,
                          cursor, held, tried, cleaning, primary>>
        \/ /\ ended = "running" /\ cursor = "absent folder" /\ Trusted!Fails("cleanup-incomplete", tried)
           /\ UNCHANGED <<library, versions, fileTag, drifting, drifted, expired, editors, tried>>
    BY <1>9, Zenon DEF Trusted!RequireAbsent, Trusted!At, Trusted!site, Trusted!Elsewhere, Trusted!PathAbsent
  <2> HIDE DEF file
  <2>2. CASE Trusted!Expects("absent file", file, "absent folder", held, "cleanup-incomplete")
    BY <1>1, <2>2, ExpectsKeeps
  <2>3. CASE /\ ended = "running" /\ cursor = "absent folder" /\ ~library.there
             /\ ended' = (IF cleaning THEN primary ELSE "completed")
             /\ UNCHANGED <<library, versions, fileTag, drifting, drifted, expired, editors,
                            cursor, held, tried, cleaning, primary>>
    <3>1. CreationAhead => cleaning
      BY <1>0, <2>3 DEF EndInv
    <3>2. cleaning => primary \in Trusted!Codes
      BY <1>0 DEF EndInv
    <3>3. (cleaning /\ ended' = primary) \/ (~cleaning /\ ended' = "completed")
      BY <1>1, <2>3, Zenon
    <3>4. ended' \in Trusted!Codes \union {"running", "completed"}
      BY <3>2, <3>3, Zenon
    <3>5. CreationAhead' => CreationAhead
      BY <2>3 DEF CreationAhead
    <3>6. ended' # "completed" \/ ~CreationAhead
      BY <3>1, <3>2, <3>3 DEF Trusted!Codes
    <3>7. ended' # "running"
      BY <3>2, <3>3 DEF Trusted!Codes
    <3>8. EndInv'
      BY <1>0, <2>3, <3>5, <3>6, <3>7 DEF EndInv, Trusted!EndsClean
    <3> QED  BY <1>1, <2>3, <3>4, <3>8, RunnerKeeps
  <2>4. CASE /\ ended = "running" /\ cursor = "absent folder" /\ Trusted!Fails("cleanup-incomplete", tried)
             /\ UNCHANGED <<library, versions, fileTag, drifting, drifted, expired, editors, tried>>
    <3>1. NotCreated /\ SiteKept /\ OwnDeletion
      BY <1>0, <2>4, SiteSame DEF NotCreated
    <3> QED  BY <1>1, <2>4, <3>1, FailureKeeps
  <2> QED  BY <2>1, <2>2, <2>3, <2>4
<1> QED  BY <1>2, <1>3, <1>4, <1>5, <1>6, <1>7, <1>8, <1>9

\* Every step of the trusted-version lifecycle keeps its invariant.
LEMMA TrustedNext ==
  ASSUME TrustedInv, Trusted!Next \/ UNCHANGED Trusted!trustedVars
  PROVE  TrustedInv' /\ OwnDeletion
<1>0. TrustedTyped /\ TagsInv /\ EndInv /\ FileInFolder
  BY DEF TrustedInv, TagsInv
<1>1. held \in Helds /\ held.file \in Nat /\ held.seen \in Nat /\ FileDeletable(held.file)
  BY <1>0, TrustedTypesAre DEF TagsInv
<1>2. CASE UNCHANGED Trusted!trustedVars
  <2>1. UNCHANGED <<library, versions, fileTag, drifting, drifted, expired, editors,
                    cursor, ended, held, tried, cleaning, primary>>
    BY <1>2 DEF Trusted!trustedVars, Trusted!site
  <2>2. EndInv'
    BY <1>0, <2>1 DEF EndInv, Trusted!EndsClean, CreationAhead
  <2> QED  BY <1>0, <2>1, <2>2, RunnerKeeps, TrustedTypesAre
<1>3. CASE Trusted!CreateFolder
  <2> DEFINE r == [verb |-> "create folder", tag |-> 0]
  <2>1. Produced(r, "create folder", "find folder", "create file")
    BY <1>3 DEF Trusted!CreateFolder, Trusted!Produces, Trusted!At, Trusted!Stays, Trusted!site, HeldAfter, Produced
  <2>2. r \in SiteRequests /\ r.verb = "create folder" /\ r.tag = 0
    BY <1>1 DEF SiteRequests
  <2> HIDE DEF r
  <2> QED  BY <2>1, <2>2, ProducesKeeps DEF Trusted!NoTag
<1>4. CASE Trusted!CreateFile
  <2> DEFINE r == [verb |-> "create file", tag |-> 0]
  <2>1. Produced(r, "create file", "find file", "check trusted")
    BY <1>4 DEF Trusted!CreateFile, Trusted!Produces, Trusted!At, Trusted!Stays, Trusted!site, HeldAfter, Produced
  <2>2. r \in SiteRequests /\ r.verb = "create file" /\ r.tag = 0
    BY <1>1 DEF SiteRequests
  <2> HIDE DEF r
  <2> QED  BY <2>1, <2>2, ProducesKeeps
<1>5. CASE Trusted!WriteVersion
  <2> DEFINE r == [verb |-> "write", tag |-> held.file]
  <2>1. Produced(r, "write", "find write", "check changed")
    BY <1>5 DEF Trusted!WriteVersion, Trusted!Produces, Trusted!At, Trusted!Stays, Trusted!site, HeldAfter, Produced
  <2>2. r \in SiteRequests /\ r.verb = "write" /\ r.tag = held.file
    BY <1>1 DEF SiteRequests
  <2> HIDE DEF r
  <2> QED  BY <2>1, <2>2, ProducesKeeps
<1>6. CASE Trusted!DeleteOwnedFile
  <2>1. Trusted!Deletes("delete file", "file", held.file, "confirm file", "file deleted")
    BY <1>6 DEF Trusted!DeleteOwnedFile
  <2> QED  BY <1>1, <2>1, DeletesKeeps
<1>7. CASE Trusted!DeleteFolder
  <2>1. Trusted!Deletes("delete folder", "folder", held.seen, "confirm folder", "folder deleted")
    BY <1>7 DEF Trusted!DeleteFolder
  <2>2. FolderDeletable(held.seen)
    BY <1>0, <2>1 DEF Trusted!Deletes, Trusted!At, TagsInv
  <2> QED  BY <1>1, <2>1, <2>2, DeletesKeeps
<1> QED  BY <1>2, <1>3, <1>4, <1>5, <1>6, <1>7, LandKeeps, EditKeeps, ReadsKeep, FindsKeep DEF Trusted!Next

LEMMA TrustedStart == Trusted!Init => TrustedInv
<1> SUFFICES ASSUME Trusted!Init PROVE TrustedInv
  OBVIOUS
<1>1. PICK b \in BOOLEAN : library = [there |-> b, tag |-> 0, foreign |-> b]
  BY DEF Trusted!Init
<1>2. library \in Libraries /\ library.there = b /\ library.tag = 0
  BY <1>1 DEF Libraries
<1>3. library.there \in BOOLEAN /\ library.foreign \in BOOLEAN /\ library.tag \in Nat
  BY <1>2, LibraryIs
<1>4. /\ versions = <<>> /\ fileTag = 0 /\ drifting = {} /\ cursor = "token"
      /\ held = [folder |-> 0, file |-> 0, seen |-> 0] /\ tried = {} /\ cleaning = FALSE
      /\ primary = "none" /\ expired = FALSE /\ ended = "running" /\ drifted = FALSE /\ editors = 0
  BY DEF Trusted!Init, Trusted!NoTag, Trusted!None
<1>5. held \in Helds /\ held.folder \in Nat /\ held.file \in Nat /\ held.seen \in Nat /\ held.file = 0
  BY <1>4 DEF Helds
<1>6. TrustedTyped
  <2>1. Trusted!TypeOK
    BY <1>3, <1>4, <1>5 DEF Trusted!TypeOK, Trusted!None
  <2>2. versions \in Seq({"trusted", "changed", "foreign"}) /\ drifting \subseteq SiteRequests
    BY <1>4
  <2> QED  BY <1>2, <1>4, <1>5, <2>1, <2>2 DEF TrustedTyped
<1>7. TagsInv
  BY <1>4, <1>5 DEF TagsInv, FileDeletable, FileInFolder, Trusted!HasFile, Trusted!NoTag
<1>8. EndInv
  BY <1>4 DEF EndInv, CreationAhead, Trusted!EndsClean, Trusted!Codes
<1> QED  BY <1>6, <1>7, <1>8 DEF TrustedInv

-----------------------------------------------------------------------------
\* The private document.

DocumentRequests == {Document!Script[i] : i \in {1, 2, 3, 5, 6, 7}}

DocumentTyped ==
  /\ Document!TypeOK /\ afloat \subseteq DocumentRequests
  /\ point = 4 => mode = "start"
  /\ point = 8 => mode = "before"

\* Of an object that the run itself made, and that is still there, every read is current.
Settled(o) == o \in things \ late => lag[o] = 0

\* Each cleanup step behind the run has left its object gone, or made by a late
\* request, or readable; and the absences counted so far have used up the lag.
GoneInv ==
  /\ Document!Running =>
       /\ \A i \in 5..7 : i < point => Settled(Document!Script[i].on)
       /\ mode \in {"before", "after"} =>
            (Document!Step.on \in things \ late => lag[Document!Step.on] + absences <= Document!AbsenceReads)
  /\ Document!CleanedMeansGone

DocumentInv == DocumentTyped /\ GoneInv

\* The steps of the script.
LEMMA ScriptIs ==
  /\ \A i \in 1..3 : Document!Script[i].op = "create" /\ Document!Script[i].on \in Document!Objects
  /\ \A i \in 5..7 : Document!Script[i].op = "delete" /\ Document!Script[i].on \in Document!Objects
  /\ \A i \in {4, 8} : Document!Script[i].op = "look" /\ Document!Script[i].on \notin Document!Objects
  /\ Document!Script[4].on = "learner" /\ Document!Script[8].on = "terminal"
  /\ \A i, j \in 5..7 : Document!Script[i].on = Document!Script[j].on => i = j
  /\ \A o \in Document!Objects : \E i \in 5..7 : Document!Script[i].on = o
<1>1. /\ Document!Script[1] = [op |-> "create", on |-> "folder"]
      /\ Document!Script[2] = [op |-> "create", on |-> "file"]
      /\ Document!Script[3] = [op |-> "create", on |-> "share"]
      /\ Document!Script[4] = [op |-> "look", on |-> "learner"]
      /\ Document!Script[5] = [op |-> "delete", on |-> "share"]
      /\ Document!Script[6] = [op |-> "delete", on |-> "file"]
      /\ Document!Script[7] = [op |-> "delete", on |-> "folder"]
      /\ Document!Script[8] = [op |-> "look", on |-> "terminal"]
  BY DEF Document!Script
<1>2. \A i \in 1..3 : i = 1 \/ i = 2 \/ i = 3
  OBVIOUS
<1>3. \A i \in 5..7 : i = 5 \/ i = 6 \/ i = 7
  OBVIOUS
<1>4. 5 \in 5..7 /\ 6 \in 5..7 /\ 7 \in 5..7
  OBVIOUS
<1> QED  BY <1>1, <1>2, <1>3, <1>4 DEF Document!Objects

LEMMA DocumentRequestIs ==
  ASSUME NEW s \in DocumentRequests
  PROVE  s.op \in {"create", "delete"} /\ s.on \in Document!Objects
<1>1. PICK i \in {1, 2, 3, 5, 6, 7} : s = Document!Script[i]
  BY DEF DocumentRequests
<1>2. i \in 1..3 \/ i \in 5..7
  OBVIOUS
<1> QED  BY <1>1, <1>2, ScriptIs

\* The step that the run is at.
LEMMA StepIs ==
  ASSUME DocumentTyped, Document!Step.op # "look"
  PROVE  /\ point \in 1..3 \/ point \in 5..7
         /\ Document!Step \in DocumentRequests
         /\ point \in 5..7 <=> Document!Step.op = "delete"
<1>1. point \in 1..8
  BY DEF DocumentTyped, Document!TypeOK
<1>2. point \in 1..3 \/ point \in 5..7 \/ point \in {4, 8}
  BY <1>1
<1>3. point \notin {4, 8}
  BY ScriptIs DEF Document!Step
<1>4. point \in {1, 2, 3, 5, 6, 7}
  BY <1>2, <1>3
<1>5. ~(point \in 1..3 /\ point \in 5..7)
  BY <1>1
<1> QED  BY <1>2, <1>3, <1>4, <1>5, ScriptIs DEF Document!Step, DocumentRequests

\* What a request that takes effect does to the objects.
LEMMA PerformedIs ==
  ASSUME DocumentTyped, NEW s \in DocumentRequests, Document!Performed(s)
  PROVE  /\ things' \subseteq Document!Objects /\ lag' \in [Document!Objects -> 0..MaxLag]
         /\ \A o \in Document!Objects : o # s.on => lag'[o] = lag[o]
         /\ \A o \in things' : o \in things \/ (o = s.on /\ s.op = "create")
         /\ s.op = "delete" => s.on \notin things'
<1>1. s.op \in {"create", "delete"} /\ s.on \in Document!Objects
  BY DocumentRequestIs
<1>2. things \subseteq Document!Objects /\ lag \in [Document!Objects -> 0..MaxLag]
  BY DEF DocumentTyped, Document!TypeOK
<1>3. things' = Document!After(s) /\ \E n \in 0..MaxLag : lag' = [lag EXCEPT ![s.on] = n]
  BY DEF Document!Performed
<1>4. /\ s.op = "create" => things' = things \union {s.on}
      /\ s.op = "delete" => things' \subseteq things \ {s.on}
  <2>1. s.op = "create" => things' = things \union {s.on}
    BY <1>3, Zenon DEF Document!After
  <2>2. s.op = "delete" => things' \subseteq things \ {s.on}
    <3> SUFFICES ASSUME s.op = "delete" PROVE things' \subseteq things \ {s.on}
      OBVIOUS
    <3>1. s.op # "create"
      OBVIOUS
    <3>2. things' = things \ (IF s.on = "file" THEN {"file", "share"} ELSE {s.on})
      BY <1>3, <3>1, Zenon DEF Document!After
    <3> QED  BY <3>2
  <2> QED  BY <2>1, <2>2
<1>5. /\ lag' \in [Document!Objects -> 0..MaxLag]
      /\ \A o \in Document!Objects : o # s.on => lag'[o] = lag[o]
  BY <1>1, <1>2, <1>3
<1> QED  BY <1>1, <1>2, <1>4, <1>5

\* What a read shows, and how much of the lag it uses up.
LEMMA ReadIs ==
  ASSUME DocumentTyped, NEW o \in Document!Objects, Document!Aged(o)
  PROVE  /\ lag' \in [Document!Objects -> 0..MaxLag]
         /\ \A x \in Document!Objects : x # o => lag'[x] = lag[x]
         /\ lag'[o] <= lag[o] /\ (lag[o] > 0 => lag'[o] = lag[o] - 1) /\ (lag[o] = 0 => lag'[o] = 0)
         /\ lag[o] \in Nat /\ lag'[o] \in Nat
<1>1. lag \in [Document!Objects -> 0..MaxLag] /\ MaxLag \in Nat
  BY OperationsAssumption DEF DocumentTyped, Document!TypeOK
<1>2. lag[o] \in 0..MaxLag
  BY <1>1
<1>3. lag' = [lag EXCEPT ![o] = IF lag[o] > 0 THEN lag[o] - 1 ELSE 0]
  BY DEF Document!Aged
<1>4. CASE lag[o] > 0
  <2>1. lag' = [lag EXCEPT ![o] = lag[o] - 1]
    BY <1>3, <1>4, Zenon
  <2>2. lag[o] - 1 \in 0..MaxLag
    BY <1>1, <1>2, <1>4
  <2> QED  BY <1>1, <1>2, <1>4, <2>1, <2>2
<1>5. CASE lag[o] = 0
  <2>1. lag' = [lag EXCEPT ![o] = 0] /\ 0 \in 0..MaxLag
    BY <1>1, <1>3, <1>5
  <2> QED  BY <1>1, <1>2, <1>5, <2>1
<1> QED  BY <1>2, <1>4, <1>5

\* How a blocked step, and one that succeeds, go on.
LEMMA BlockedIs ==
  ASSUME Document!Blocked
  PROVE  \/ /\ point < 5 /\ failure' = TRUE /\ point' = 5 /\ mode' = "before" /\ verdict' = verdict
            /\ tries' = 0 /\ absences' = 0
         \/ /\ ~(point < 5) /\ verdict' = "blocked-cleanup"
            /\ UNCHANGED <<point, mode, tries, absences, failure>>
BY Zenon DEF Document!Blocked, Document!Goes, Document!Fresh, Document!Returns, Document!Cleanup

LEMMA SucceedsIs ==
  ASSUME Document!Succeeds
  PROVE  /\ point' = point + 1 /\ tries' = 0 /\ absences' = 0 /\ failure' = failure /\ verdict' = verdict
         /\ (point + 1 >= 5 /\ mode' = "before") \/ (~(point + 1 >= 5) /\ mode' = "start")
<1>1. /\ point' = point + 1 /\ tries' = 0 /\ absences' = 0 /\ failure' = failure /\ verdict' = verdict
      /\ mode' = IF point + 1 >= 5 THEN "before" ELSE "start"
  BY DEF Document!Succeeds, Document!Proceeds, Document!Goes, Document!Fresh, Document!Cleanup
<1> QED  BY <1>1, Zenon

\* What one attempt to reconcile comes to: another read, the end of the step, or the
\* mutation that a removal still needs.
LEMMA ReconcilesIs ==
  ASSUME Document!Reconciles
  PROVE  /\ Document!Running /\ Document!Step.op # "look" /\ mode \in {"before", "after"}
         /\ UNCHANGED <<things, afloat, late, written, calledFor>>
         /\ lag' = lag \/ Document!Aged(Document!Step.on)
         /\ \/ /\ tries < 2 /\ tries' = tries + 1 /\ UNCHANGED <<point, mode, failure, verdict>>
               /\ \/ lag' = lag /\ absences' = 0
                  \/ /\ absences' = absences + 1 /\ absences + 1 < 3 /\ Document!Aged(Document!Step.on)
                     /\ FALSE \in Document!Shown(Document!Step.on)
            \/ Document!Blocked
            \/ /\ mode = "before" /\ point' = point /\ mode' = "start" /\ tries' = 0 /\ absences' = 0
               /\ UNCHANGED <<failure, verdict>>
            \/ /\ Document!Succeeds /\ Document!Aged(Document!Step.on)
               /\ \/ mode = "after" /\ Document!Step.op = "create"
                  \/ ~(absences + 1 < 3) /\ FALSE \in Document!Shown(Document!Step.on)
<1>0. /\ Document!Running /\ Document!Step.op # "look" /\ mode \in {"before", "after"}
      /\ UNCHANGED <<things, afloat, late, written, calledFor>>
  BY DEF Document!Reconciles, Document!World
<1>1. CASE /\ lag' = lag
           /\ IF tries < 2
              THEN tries' = tries + 1 /\ absences' = 0 /\ UNCHANGED <<point, mode, failure, verdict>>
              ELSE Document!Blocked
  BY <1>0, <1>1
<1>2. ASSUME NEW there \in Document!Shown(Document!Step.on), Document!Aged(Document!Step.on),
             IF ~there /\ absences + 1 < 3 /\ tries < 2
             THEN /\ tries' = tries + 1 /\ absences' = absences + 1
                  /\ UNCHANGED <<point, mode, failure, verdict>>
             ELSE IF ~there /\ absences + 1 < 3 THEN Document!Blocked
             ELSE CASE mode = "before" ->
                         IF there THEN Document!Goes(point, "start") /\ UNCHANGED <<failure, verdict>>
                         ELSE Document!Succeeds
                    [] mode = "after" -> IF there = (Document!Step.op = "create") THEN Document!Succeeds
                                         ELSE Document!Blocked
      PROVE  \/ /\ tries < 2 /\ tries' = tries + 1 /\ UNCHANGED <<point, mode, failure, verdict>>
                /\ absences' = absences + 1 /\ absences + 1 < 3 /\ FALSE \in Document!Shown(Document!Step.on)
             \/ Document!Blocked
             \/ /\ mode = "before" /\ point' = point /\ mode' = "start" /\ tries' = 0 /\ absences' = 0
                /\ UNCHANGED <<failure, verdict>>
             \/ /\ Document!Succeeds
                /\ \/ mode = "after" /\ Document!Step.op = "create"
                   \/ ~(absences + 1 < 3) /\ FALSE \in Document!Shown(Document!Step.on)
  <2>1. there \in BOOLEAN
    BY DEF Document!Shown
  <2>2. CASE ~there /\ absences + 1 < 3 /\ tries < 2
    BY <1>2, <2>1, <2>2
  <2>3. CASE ~there /\ absences + 1 < 3 /\ ~(tries < 2)
    BY <1>2, <2>1, <2>3
  <2>4. CASE (there \/ ~(absences + 1 < 3)) /\ mode = "before"
    <3>1. IF there THEN Document!Goes(point, "start") /\ UNCHANGED <<failure, verdict>> ELSE Document!Succeeds
      BY <1>2, <2>1, <2>4
    <3>2. CASE there
      BY <2>4, <3>1, <3>2 DEF Document!Goes, Document!Fresh
    <3>3. CASE ~there
      BY <1>2, <2>1, <2>4, <3>1, <3>3
    <3> QED  BY <3>2, <3>3
  <2>5. CASE (there \/ ~(absences + 1 < 3)) /\ mode = "after"
    <3>1. IF there = (Document!Step.op = "create") THEN Document!Succeeds ELSE Document!Blocked
      BY <1>2, <2>1, <2>5
    <3>2. CASE there
      BY <2>5, <3>1, <3>2
    <3>3. CASE ~there
      BY <1>2, <2>1, <2>5, <3>1, <3>3
    <3> QED  BY <3>2, <3>3
  <2> QED  BY <1>0, <2>1, <2>2, <2>3, <2>4, <2>5
<1> QED  BY <1>0, <1>1, <1>2 DEF Document!Reconciles, Document!AbsenceReads

\* The types of the run, variable by variable.
LEMMA DocumentTypes ==
  ASSUME DocumentTyped
  PROVE  /\ things \subseteq Document!Objects /\ late \subseteq Document!Objects
         /\ lag \in [Document!Objects -> 0..MaxLag]
         /\ written \subseteq {Document!Script[i] : i \in 1..8}
         /\ calledFor \subseteq {Document!Script[i] : i \in 1..8}
         /\ point \in 1..8 /\ mode \in {"start", "mutating", "before", "after"} /\ tries \in 0..2
         /\ absences \in 0..2 /\ failure \in BOOLEAN
         /\ verdict \in {"none", "thrown", "blocked-cleanup", "cleaned-after-failure", "completed-cleaned"}
         /\ afloat \subseteq DocumentRequests
         /\ point = 4 => mode = "start"
         /\ point = 8 => mode = "before"
BY DEF DocumentTyped, Document!TypeOK

LEMMA DocumentTypesNow ==
  ASSUME things' \subseteq Document!Objects, late' \subseteq Document!Objects,
         lag' \in [Document!Objects -> 0..MaxLag],
         written' \subseteq {Document!Script[i] : i \in 1..8},
         calledFor' \subseteq {Document!Script[i] : i \in 1..8},
         point' \in 1..8, mode' \in {"start", "mutating", "before", "after"}, tries' \in 0..2,
         absences' \in 0..2, failure' \in BOOLEAN,
         verdict' \in {"none", "thrown", "blocked-cleanup", "cleaned-after-failure", "completed-cleaned"},
         afloat' \subseteq DocumentRequests,
         point' = 4 => mode' = "start", point' = 8 => mode' = "before"
  PROVE  DocumentTyped'
<1>1. {1, 2, 3, 5, 6, 7} \subseteq 1..8
  OBVIOUS
<1>2. DocumentRequests \subseteq {Document!Script[i] : i \in 1..8}
  BY <1>1 DEF DocumentRequests
<1> QED  BY <1>2 DEF DocumentTyped, Document!TypeOK

\* The end of a step keeps the types of where the run is.
LEMMA PlacesKept ==
  ASSUME DocumentTyped, Document!Step.op # "look", Document!Blocked \/ Document!Succeeds
  PROVE  /\ point' \in 1..8 /\ mode' \in {"start", "mutating", "before", "after"} /\ tries' \in 0..2
         /\ absences' \in 0..2 /\ failure' \in BOOLEAN
         /\ verdict' \in {"none", "thrown", "blocked-cleanup", "cleaned-after-failure", "completed-cleaned"}
         /\ point' = 4 => mode' = "start"
         /\ point' = 8 => mode' = "before"
<1>1. point \in 1..3 \/ point \in 5..7
  BY StepIs
<1>2. CASE Document!Blocked
  <2>1. CASE /\ failure' = TRUE /\ point' = 5 /\ mode' = "before" /\ verdict' = verdict
             /\ tries' = 0 /\ absences' = 0
    BY <2>1, DocumentTypes
  <2>2. CASE verdict' = "blocked-cleanup" /\ UNCHANGED <<point, mode, tries, absences, failure>>
    BY <2>2, DocumentTypes
  <2> QED  BY <1>2, <2>1, <2>2, BlockedIs
<1>3. CASE Document!Succeeds
  BY <1>1, <1>3, SucceedsIs, DocumentTypes
<1> QED  BY <1>2, <1>3

\* A step is of the script; so is one that may be sent.
LEMMA StepListed == DocumentTyped => Document!Step \in {Document!Script[i] : i \in 1..8}
BY DocumentTypes DEF Document!Step

\* What the run asks for, or asks about.
LEMMA DocumentTypedNext ==
  ASSUME DocumentTyped, Document!Next \/ UNCHANGED documentVars
  PROVE  DocumentTyped'
<1>1. CASE Document!Land
  <2>1. PICK s \in afloat :
          /\ afloat' = afloat \ {s}
          /\ \/ Document!Performed(s) /\ late' = (late \union {s.on}) \intersect things'
             \/ UNCHANGED <<things, lag, late>>
          /\ UNCHANGED <<point, mode, tries, absences, failure, written, calledFor, verdict>>
    BY <1>1 DEF Document!Land
  <2>2. s \in DocumentRequests
    BY <2>1, DocumentTypes
  <2>3. /\ things' \subseteq Document!Objects /\ late' \subseteq Document!Objects
        /\ lag' \in [Document!Objects -> 0..MaxLag]
    BY <2>1, <2>2, PerformedIs, DocumentTypes
  <2>4. afloat' \subseteq DocumentRequests
    BY <2>1, DocumentTypes
  <2> QED  BY <2>1, <2>3, <2>4, DocumentTypes, DocumentTypesNow
<1>2. CASE Document!JournalThrows
  BY <1>2, DocumentTypes, DocumentTypesNow DEF Document!JournalThrows
<1>3. CASE Document!Intends
  <2>1. written' \subseteq {Document!Script[i] : i \in 1..8} /\ point # 4 /\ point # 8
    BY <1>3, StepListed, DocumentTypes, StepIs DEF Document!Intends
  <2> QED  BY <1>3, <2>1, DocumentTypes, DocumentTypesNow DEF Document!Intends, Document!World
<1>4. CASE Document!Mutates
  <2>0. point \notin {4, 8} /\ Document!Step.op # "look" /\ Document!Step \in DocumentRequests
    <3>1. mode = "mutating"
      BY <1>4 DEF Document!Mutates
    <3>2. point \in 1..8 /\ point \notin {4, 8}
      BY <3>1, DocumentTypes
    <3>3. point \in 1..3 \/ point \in 5..7
      BY <3>2
    <3>4. Document!Step.op # "look"
      BY <3>3, ScriptIs DEF Document!Step
    <3> QED  BY <3>2, <3>4, StepIs
  <2>1. calledFor' \subseteq {Document!Script[i] : i \in 1..8} /\ written' = written
    BY <1>4, StepListed, DocumentTypes DEF Document!Mutates
  <2>2. CASE /\ Document!Performed(Document!Step) /\ mode' = "after" /\ Document!Fresh
             /\ late' = late \intersect things' /\ UNCHANGED <<afloat, point, failure, verdict>>
    <3>1. things' \subseteq Document!Objects /\ lag' \in [Document!Objects -> 0..MaxLag]
      BY <2>0, <2>2, PerformedIs
    <3>2. late' \subseteq Document!Objects
      BY <2>2, DocumentTypes
    <3> QED  BY <2>0, <2>1, <2>2, <3>1, <3>2, DocumentTypes, DocumentTypesNow DEF Document!Fresh
  <2>3. CASE UNCHANGED <<things, afloat, late, lag>> /\ Document!Blocked
    BY <2>0, <2>1, <2>3, PlacesKept, DocumentTypes, DocumentTypesNow
  <2>4. CASE /\ mode' = "after" /\ Document!Fresh /\ UNCHANGED <<things, lag, point, failure, verdict, late>>
             /\ afloat' \in {afloat, afloat \union {Document!Step}}
    <3>1. afloat' \subseteq DocumentRequests
      BY <2>0, <2>4, DocumentTypes
    <3> QED  BY <2>0, <2>1, <2>4, <3>1, DocumentTypes, DocumentTypesNow DEF Document!Fresh
  <2> QED  BY <1>4, <2>2, <2>3, <2>4 DEF Document!Mutates, Document!World
<1>5. CASE Document!Reconciles
  <2>1. /\ Document!Step.op # "look" /\ UNCHANGED <<things, afloat, late, written, calledFor>>
        /\ mode \in {"before", "after"}
    BY <1>5, ReconcilesIs
  <2>2. lag' \in [Document!Objects -> 0..MaxLag]
    <3>1. Document!Step.on \in Document!Objects
      BY <2>1, StepIs, DocumentRequestIs
    <3> QED  BY <1>5, <3>1, ReconcilesIs, ReadIs, DocumentTypes
  <2>3. /\ point' \in 1..8 /\ mode' \in {"start", "mutating", "before", "after"} /\ tries' \in 0..2
        /\ absences' \in 0..2 /\ failure' \in BOOLEAN
        /\ verdict' \in {"none", "thrown", "blocked-cleanup", "cleaned-after-failure", "completed-cleaned"}
        /\ point' = 4 => mode' = "start"
        /\ point' = 8 => mode' = "before"
    <3>1. CASE Document!Blocked \/ Document!Succeeds
      BY <2>1, <3>1, PlacesKept
    <3>2. CASE /\ tries < 2 /\ tries' = tries + 1 /\ UNCHANGED <<point, mode, failure, verdict>>
               /\ absences' = 0 \/ (absences' = absences + 1 /\ absences + 1 < 3)
      BY <3>2, DocumentTypes
    <3>3. CASE /\ mode = "before" /\ point' = point /\ mode' = "start" /\ tries' = 0 /\ absences' = 0
               /\ UNCHANGED <<failure, verdict>>
      <4>1. point # 8
        BY <2>1, ScriptIs DEF Document!Step
      <4> QED  BY <3>3, <4>1, DocumentTypes
    <3> QED  BY <1>5, <3>1, <3>2, <3>3, ReconcilesIs
  <2> QED  BY <2>1, <2>2, <2>3, DocumentTypes, DocumentTypesNow
<1>6. CASE Document!LearnerLooks
  <2>1. /\ UNCHANGED <<things, afloat, late, written, calledFor, lag, verdict>>
        /\ failure' \in BOOLEAN /\ point' = 5 /\ mode' = "before" /\ tries' = 0 /\ absences' = 0
    BY <1>6 DEF Document!LearnerLooks, Document!World, Document!Goes, Document!Fresh, Document!Cleanup
  <2> QED  BY <2>1, DocumentTypes, DocumentTypesNow
<1>7. CASE Document!TerminalLooks
  <2>1. /\ UNCHANGED <<things, afloat, late, written, calledFor, lag, failure, point, mode, tries, absences>>
        /\ verdict' \in {"blocked-cleanup", "cleaned-after-failure", "completed-cleaned"}
    BY <1>7, Zenon DEF Document!TerminalLooks, Document!World, Document!Returns
  <2> QED  BY <2>1, DocumentTypes, DocumentTypesNow
<1>8. CASE UNCHANGED documentVars
  BY <1>8, DocumentTypes, DocumentTypesNow DEF documentVars
<1>9. CASE Document!Done
  BY <1>9, DocumentTypes, DocumentTypesNow DEF Document!Done, Document!documentVars
<1> QED  BY <1>1, <1>2, <1>3, <1>4, <1>5, <1>6, <1>7, <1>8, <1>9 DEF Document!Next

\* The parts of GoneInv, for a step that ends nothing.
LEMMA GoneHolds ==
  ASSUME Document!Running' =>
           /\ \A i \in 5..7 : i < point' => Settled(Document!Script[i].on)'
           /\ mode' \in {"before", "after"} =>
                (Document!Script[point'].on \in things' \ late' =>
                   lag'[Document!Script[point'].on] + absences' <= 3),
         verdict' \in {"completed-cleaned", "cleaned-after-failure"} => things' \subseteq late'
  PROVE  GoneInv'
BY DEF GoneInv, Document!Step, Document!AbsenceReads, Document!CleanedMeansGone

LEMMA GoneIs ==
  ASSUME GoneInv
  PROVE  /\ Document!Running =>
              /\ \A i \in 5..7 : i < point => Settled(Document!Script[i].on)
              /\ mode \in {"before", "after"} =>
                   (Document!Script[point].on \in things \ late =>
                      lag[Document!Script[point].on] + absences <= 3)
         /\ verdict \in {"completed-cleaned", "cleaned-after-failure"} => things \subseteq late
BY DEF GoneInv, Document!Step, Document!AbsenceReads, Document!CleanedMeansGone

\* An object that is there, unless a late request made it, was there, and reads no staler.
Steadily ==
  /\ \A o \in Document!Objects :
       o \in things' \ late' => o \in things \ late /\ lag'[o] \in Nat /\ lag'[o] <= lag[o]
  /\ things \subseteq late => things' \subseteq late'

LEMMA SettledKept ==
  ASSUME Steadily, NEW o, Settled(o), o \in Document!Objects
  PROVE  Settled(o)'
<1> SUFFICES ASSUME o \in things' \ late' PROVE lag'[o] = 0
  BY DEF Settled
<1>1. o \in things \ late /\ lag'[o] \in Nat /\ lag'[o] <= lag[o]
  BY DEF Steadily
<1>2. lag[o] = 0
  BY <1>1 DEF Settled
<1> QED  BY <1>1, <1>2

\* Absences cannot outlast the lag: a step of the script that ends leaves its object
\* gone, or readable.
LEMMA GoneNext ==
  ASSUME MaxLag <= 3, DocumentTyped, GoneInv, Document!Next \/ UNCHANGED documentVars
  PROVE  GoneInv'
<1> USE DEF Document!Running
<1>0. /\ things \subseteq Document!Objects /\ lag \in [Document!Objects -> 0..MaxLag] /\ MaxLag \in Nat
      /\ point \in 1..8 /\ absences \in 0..2
      /\ things' \subseteq Document!Objects /\ lag' \in [Document!Objects -> 0..MaxLag] /\ point' \in 1..8
  <2>1. DocumentTyped'
    BY DocumentTypedNext
  <2>2. things' \subseteq Document!Objects /\ lag' \in [Document!Objects -> 0..MaxLag] /\ point' \in 1..8
    BY <2>1 DEF DocumentTyped, Document!TypeOK
  <2> QED  BY <2>2, OperationsAssumption, DocumentTypes
<1>a. \A o \in Document!Objects : lag[o] \in Nat /\ lag'[o] \in Nat /\ lag[o] <= 3 /\ lag'[o] <= 3
  BY <1>0
<1>b. \A i \in 5..7 : Document!Script[i].on \in Document!Objects
  BY ScriptIs
\* The run stays where it is, or stops.
<1>1. ASSUME Steadily, UNCHANGED <<point, mode, absences>>,
             verdict' = verdict \/ verdict' \in {"thrown", "blocked-cleanup"}
      PROVE  GoneInv'
  <2>1. verdict' = "none" => verdict = "none"
    BY <1>1
  <2>2. verdict' = "none" => \A i \in 5..7 : i < point' => Settled(Document!Script[i].on)'
    BY <1>1, <1>b, <2>1, GoneIs, SettledKept
  <2>3. ASSUME verdict' = "none", mode' \in {"before", "after"}, Document!Script[point'].on \in things' \ late'
        PROVE  lag'[Document!Script[point'].on] + absences' <= 3
    <3> DEFINE o == Document!Script[point].on
    <3>1. o \in Document!Objects /\ o \in things' \ late' /\ absences' = absences
      BY <1>0, <1>1, <2>3
    <3> HIDE DEF o
    <3>2. o \in things \ late /\ lag'[o] \in Nat /\ lag[o] \in Nat /\ lag'[o] <= lag[o]
      BY <1>1, <1>a, <3>1 DEF Steadily
    <3>3. lag[o] + absences <= 3
      BY <1>1, <2>1, <2>3, <3>2, GoneIs DEF o
    <3>4. lag'[o] + absences' <= 3
      BY <1>0, <3>1, <3>2, <3>3
    <3> QED  BY <1>1, <3>4 DEF o
  <2>4. verdict' \in {"completed-cleaned", "cleaned-after-failure"} => things' \subseteq late'
    BY <1>1, GoneIs DEF Steadily
  <2> QED  BY <2>2, <2>3, <2>4, GoneHolds
\* The run goes on, where it has counted no absence.
<1>2. ASSUME \A i \in 5..7 : i < point' => Settled(Document!Script[i].on)',
             mode' \in {"before", "after"} => absences' = 0, verdict' = "none"
      PROVE  GoneInv'
  <2>1. ASSUME mode' \in {"before", "after"}, Document!Script[point'].on \in things' \ late'
        PROVE  lag'[Document!Script[point'].on] + absences' <= 3
    BY <1>0, <1>2, <1>a, <2>1
  <2> QED  BY <1>2, <2>1, GoneHolds
<1>3. (UNCHANGED <<things, late, lag>>) => Steadily
  BY <1>a DEF Steadily
<1>4. ASSUME Document!Blocked, Steadily, verdict = "none"
      PROVE  GoneInv'
  <2>1. CASE verdict' = "blocked-cleanup" /\ UNCHANGED <<point, mode, tries, absences, failure>>
    BY <1>1, <1>4, <2>1
  <2>2. CASE point' = 5 /\ absences' = 0 /\ verdict' = verdict
    <3>1. \A i \in 5..7 : ~(i < point')
      BY <2>2
    <3> QED  BY <1>2, <1>4, <2>2, <3>1
  <2> QED  BY <1>4, <2>1, <2>2, BlockedIs
<1>5. CASE Document!Land
  <2>1. PICK s \in afloat :
          /\ \/ Document!Performed(s) /\ late' = (late \union {s.on}) \intersect things'
             \/ UNCHANGED <<things, lag, late>>
          /\ UNCHANGED <<point, mode, absences, verdict>>
    BY <1>5 DEF Document!Land
  <2>2. s \in DocumentRequests
    BY <2>1, DocumentTypes
  <2>3. Steadily
    <3>1. CASE Document!Performed(s) /\ late' = (late \union {s.on}) \intersect things'
      BY <1>0, <1>a, <2>2, <3>1, PerformedIs DEF Steadily
    <3> QED  BY <1>3, <2>1, <3>1
  <2> QED  BY <1>1, <2>1, <2>3
<1>6. CASE Document!JournalThrows
  BY <1>1, <1>3, <1>6 DEF Document!JournalThrows
<1>7. CASE Document!Intends
  <2>1. /\ verdict = "none" /\ verdict' = verdict /\ point' = point /\ mode' = "mutating"
        /\ UNCHANGED <<things, late, lag>>
    BY <1>7 DEF Document!Intends, Document!World
  <2>2. \A i \in 5..7 : i < point' => Settled(Document!Script[i].on)'
    BY <1>3, <1>b, <2>1, GoneIs, SettledKept
  <2> QED  BY <1>2, <2>1, <2>2
<1>8. CASE Document!Mutates
  <2>0. verdict = "none" /\ mode = "mutating"
    BY <1>8 DEF Document!Mutates
  <2>1. CASE /\ Document!Performed(Document!Step) /\ mode' = "after" /\ Document!Fresh
             /\ late' = late \intersect things' /\ UNCHANGED <<afloat, point, failure, verdict>>
    <3>1. point \in 1..3 \/ point \in 5..7
      BY <1>0, <2>0, DocumentTypes
    <3>2. Document!Step \in DocumentRequests /\ (point \in 5..7 => Document!Step.op = "delete")
      BY <3>1, ScriptIs, StepIs DEF Document!Step
    <3>3. ASSUME NEW i \in 5..7, i < point'
          PROVE  Settled(Document!Script[i].on)'
      <4> DEFINE o == Document!Script[i].on
      <4>1. point \in 5..7 /\ o \in Document!Objects /\ Settled(o)
        BY <1>b, <2>0, <2>1, <3>1, <3>3, GoneIs
      <4>2. o # Document!Step.on
        BY <2>1, <3>3, <4>1, ScriptIs DEF Document!Step
      <4> HIDE DEF o
      <4>3. lag'[o] = lag[o] /\ (o \in things' \ late' => o \in things \ late)
        BY <2>1, <3>2, <4>1, <4>2, PerformedIs
      <4>4. Settled(o)'
        BY <4>1, <4>3 DEF Settled
      <4> QED  BY <4>4 DEF o
    <3> QED  BY <1>2, <2>0, <2>1, <3>3 DEF Document!Fresh
  <2>2. CASE UNCHANGED <<things, late, lag>> /\ Document!Blocked
    BY <1>3, <1>4, <2>0, <2>2
  <2>3. CASE mode' = "after" /\ Document!Fresh /\ UNCHANGED <<things, lag, point, failure, verdict, late>>
    <3>1. \A i \in 5..7 : i < point' => Settled(Document!Script[i].on)'
      BY <1>3, <1>b, <2>0, <2>3, GoneIs, SettledKept
    <3> QED  BY <1>2, <2>0, <2>3, <3>1 DEF Document!Fresh
  <2> QED  BY <1>8, <2>1, <2>2, <2>3 DEF Document!Mutates, Document!World
<1>9. CASE Document!Reconciles
  <2> DEFINE o == Document!Step.on
  <2>0. /\ verdict = "none" /\ mode \in {"before", "after"} /\ UNCHANGED <<things, late>>
        /\ Document!Step.op # "look"
    BY <1>9, ReconcilesIs
  <2>a. o \in Document!Objects /\ o = Document!Script[point].on
    BY <2>0, StepIs, DocumentRequestIs DEF Document!Step
  <2> HIDE DEF o
  <2>1. lag' = lag \/ Document!Aged(o)
    BY <1>9, ReconcilesIs DEF o
  <2>2. Document!Aged(o) =>
          /\ \A x \in Document!Objects : x # o => lag'[x] = lag[x]
          /\ lag'[o] <= lag[o] /\ (lag[o] > 0 => lag'[o] = lag[o] - 1)
    BY <2>a, ReadIs
  <2>3. Steadily
    <3>1. \A x \in Document!Objects : lag'[x] <= lag[x]
      BY <1>a, <2>1, <2>2
    <3> QED  BY <1>a, <2>0, <3>1 DEF Steadily
  <2>4. /\ \A i \in 5..7 : i < point => Settled(Document!Script[i].on)'
        /\ o \in things \ late => lag[o] + absences <= 3
    BY <1>b, <2>0, <2>3, <2>a, GoneIs, SettledKept
  <2>5. CASE Document!Blocked
    BY <1>4, <2>0, <2>3, <2>5
  <2>6. CASE /\ UNCHANGED <<point, mode, failure, verdict>>
             /\ \/ lag' = lag /\ absences' = 0
                \/ absences' = absences + 1 /\ Document!Aged(o) /\ FALSE \in Document!Shown(o)
    <3>1. CASE lag' = lag /\ absences' = 0
      BY <1>2, <2>0, <2>4, <2>6, <3>1
    <3>2. CASE absences' = absences + 1 /\ Document!Aged(o) /\ FALSE \in Document!Shown(o)
      <4>1. ASSUME o \in things' \ late'
            PROVE  lag'[o] + absences' <= 3
        <5>1. o \in things \ late
          BY <2>0, <4>1
        <5>2. lag[o] > 0
          BY <3>2, <5>1 DEF Document!Shown
        <5>3. lag'[o] = lag[o] - 1 /\ lag[o] \in Nat /\ lag[o] + absences <= 3
          BY <1>a, <2>2, <2>4, <2>a, <3>2, <5>1, <5>2
        <5> QED  BY <1>0, <3>2, <5>3
      <4>2. point' = point /\ verdict' = "none"
        BY <2>0, <2>6
      <4> QED  BY <2>4, <2>a, <4>1, <4>2, GoneHolds
    <3> QED  BY <2>6, <3>1, <3>2
  <2>7. CASE /\ point' = point /\ mode' = "start" /\ absences' = 0 /\ UNCHANGED verdict
    BY <1>2, <2>0, <2>4, <2>7
  <2>8. CASE /\ Document!Succeeds /\ Document!Aged(o)
             /\ \/ mode = "after" /\ Document!Step.op = "create"
                \/ ~(absences + 1 < 3) /\ FALSE \in Document!Shown(o)
    <3>1. point' = point + 1 /\ absences' = 0 /\ verdict' = "none"
      BY <2>0, <2>8, SucceedsIs
    <3>2. ASSUME NEW i \in 5..7, i < point'
          PROVE  Settled(Document!Script[i].on)'
      <4>1. CASE i < point
        BY <2>4, <4>1
      <4>2. CASE i = point
        <5>1. Document!Step.op = "delete"
          BY <2>0, <4>2, StepIs
        <5>2. ~(absences + 1 < 3) /\ FALSE \in Document!Shown(o)
          BY <2>8, <5>1
        <5>3. ASSUME o \in things' \ late'
              PROVE  lag'[o] = 0
          <6>1. o \in things \ late
            BY <2>0, <5>3
          <6>2. lag[o] > 0
            BY <5>2, <6>1 DEF Document!Shown
          <6>3. lag'[o] = lag[o] - 1 /\ lag[o] \in Nat /\ lag[o] + absences <= 3
            BY <1>a, <2>2, <2>4, <2>8, <2>a, <6>1, <6>2
          <6> QED  BY <1>0, <5>2, <6>2, <6>3
        <5> QED  BY <2>a, <4>2, <5>3 DEF Settled
      <4>3. i < point \/ i = point
        BY <1>0, <3>1, <3>2
      <4> QED  BY <4>1, <4>2, <4>3
    <3> QED  BY <1>2, <3>1, <3>2
  <2> QED  BY <1>9, <2>5, <2>6, <2>7, <2>8, ReconcilesIs DEF o
<1>10. CASE Document!LearnerLooks
  <2>1. /\ verdict = "none" /\ verdict' = verdict /\ point' = 5 /\ mode' = "before" /\ absences' = 0
    BY <1>10 DEF Document!LearnerLooks, Document!Goes, Document!Fresh, Document!Cleanup
  <2>2. \A i \in 5..7 : ~(i < point')
    BY <2>1
  <2> QED  BY <1>2, <2>1, <2>2
<1>11. CASE Document!TerminalLooks
  <2>1. /\ verdict = "none" /\ Document!Step.on = "terminal" /\ UNCHANGED <<things, late, lag>>
        /\ \/ \A o \in Document!Objects : FALSE \in Document!Shown(o)
           \/ verdict' = "blocked-cleanup"
        /\ verdict' \in {"blocked-cleanup", "cleaned-after-failure", "completed-cleaned"}
    BY <1>11, Zenon DEF Document!TerminalLooks, Document!World, Document!Returns
  <2>2. point = 8
    <3>1. point \in 1..3 \/ point \in 5..7 \/ point = 4 \/ point = 8
      BY <1>0
    <3>2. "terminal" \notin Document!Objects /\ "terminal" # "learner"
      BY DEF Document!Objects
    <3> QED  BY <2>1, <3>1, <3>2, ScriptIs DEF Document!Step
  <2>3. ASSUME \A o \in Document!Objects : FALSE \in Document!Shown(o), NEW o \in things
        PROVE  o \in late
    <3>1. o \in Document!Objects
      BY <1>0
    <3>2. PICK i \in 5..7 : Document!Script[i].on = o
      BY <3>1, ScriptIs
    <3>3. Settled(o)
      BY <2>1, <2>2, <3>2, GoneIs
    <3>4. lag[o] > 0
      BY <2>3, <3>1 DEF Document!Shown
    <3> QED  BY <1>a, <3>1, <3>3, <3>4 DEF Settled
  <2> QED  BY <2>1, <2>3, GoneHolds
<1>12. CASE UNCHANGED documentVars
  BY <1>1, <1>3, <1>12 DEF documentVars
<1>13. CASE Document!Done
  BY <1>1, <1>3, <1>13 DEF Document!Done, Document!documentVars
<1> QED  BY <1>5, <1>6, <1>7, <1>8, <1>9, <1>10, <1>11, <1>12, <1>13 DEF Document!Next

LEMMA DocumentStart == Document!Init => DocumentInv
<1> SUFFICES ASSUME Document!Init PROVE DocumentInv
  OBVIOUS
<1>1. /\ things = {} /\ lag = [o \in Document!Objects |-> 0] /\ afloat = {} /\ point = 1 /\ mode = "start"
      /\ tries = 0 /\ absences = 0 /\ failure = FALSE /\ written = {} /\ calledFor = {}
      /\ verdict = "none" /\ late = {}
  BY DEF Document!Init
<1>2. DocumentTyped
  <2>1. lag \in [Document!Objects -> 0..MaxLag]
    BY <1>1, OperationsAssumption
  <2>2. point \in 1..8 /\ tries \in 0..2 /\ absences \in 0..2 /\ ~(point = 4) /\ ~(point = 8)
    BY <1>1
  <2>3. Document!TypeOK
    BY <1>1, <2>1, <2>2 DEF Document!TypeOK
  <2> QED  BY <1>1, <2>2, <2>3 DEF DocumentTyped
<1>3. GoneInv
  BY <1>1 DEF GoneInv, Document!Running, Document!CleanedMeansGone
<1> QED  BY <1>2, <1>3 DEF DocumentInv

\* A run of the private document, or of the trusted version, that claims to have cleaned
\* up has left nothing but what a request whose answer was lost brings about later,
\* provided that no object reads as it was more often than an absence is read
\* (AbsenceReads, three times in a row; run and its catch block of both lifecycles).
THEOREM CleanupIsClean ==
  ASSUME MaxLag <= Document!AbsenceReads
  PROVE  Spec => []CleanupLeavesNothing
<1>1. Init => DocumentInv /\ TrustedInv
  BY DocumentStart, TrustedStart DEF Init
<1>2. DocumentInv /\ TrustedInv /\ [Next]_apiVars => (DocumentInv /\ TrustedInv)'
  <2> SUFFICES ASSUME DocumentInv, TrustedInv, [Next]_apiVars
               PROVE  (DocumentInv /\ TrustedInv)'
    OBVIOUS
  <2>1. Trusted!Next \/ UNCHANGED Trusted!trustedVars
    BY EachSteps DEF trustedVars, Trusted!trustedVars, Trusted!site
  <2>2. MaxLag <= 3
    BY DEF Document!AbsenceReads
  <2> QED  BY <2>1, <2>2, EachSteps, DocumentTypedNext, GoneNext, TrustedNext DEF DocumentInv
<1>3. DocumentInv /\ TrustedInv => CleanupLeavesNothing
  BY DEF DocumentInv, GoneInv, TrustedInv, EndInv, CleanupLeavesNothing
<1> QED  BY <1>1, <1>2, <1>3, PTL DEF Spec

-----------------------------------------------------------------------------
\* What the operations promise together.

LEMMA OperationsStart == Init => HealthyInv /\ ShareInv /\ TrustedInv
BY HealthyStart, ShareStart, TrustedStart DEF Init

LEMMA OperationsNext ==
  HealthyInv /\ ShareInv /\ TrustedInv /\ [Next]_apiVars => (HealthyInv /\ ShareInv /\ TrustedInv)'
<1> SUFFICES ASSUME HealthyInv, ShareInv, TrustedInv, [Next]_apiVars
             PROVE  (HealthyInv /\ ShareInv /\ TrustedInv)'
  OBVIOUS
<1>1. Trusted!Next \/ UNCHANGED Trusted!trustedVars
  BY EachSteps DEF trustedVars, Trusted!trustedVars, Trusted!site
<1> QED  BY <1>1, EachSteps, HealthyNext, ShareNext, TrustedNext

\* Calls heal: a fixed proof that met neither a lost answer nor a foreign edit (nor,
\* where it retains an id, overlapping calls) refuses no call, and sharing or cleaning
\* up the file, undisturbed, succeeds from whatever earlier calls left half done
\* (retained in each proof, ProcessLocalOneDriveShareProofBoundary).
THEOREM CallsDoHeal == Spec => []CallsHeal
<1>1. HealthyInv /\ ShareInv /\ TrustedInv => CallsHeal
  BY HealthyMeans DEF CallsHeal, Share!CleanupHeals, ShareInv, SoundInv
<1> QED  BY OperationsStart, OperationsNext, <1>1, PTL DEF Spec

\* A fixed proof deletes only objects that it made or was shown exact before, of a file
\* exactly the version it was shown (the other kinds by id, edited since or not); the
\* share proof never deletes a file that somebody edited; the trusted version deletes
\* its file only as it wrote it, and its folder only while it is empty (If-Match, the
\* looks before each deletion).
THEOREM DeletionsAreOwn == Spec => DeletesOnlyItsOwn
<1>1. HealthyInv /\ ShareInv /\ TrustedInv /\ [Next]_apiVars =>
        [\A i \in Ids : store[i] # "gone" /\ store'[i] = "gone" /\ edits' = edits =>
           /\ Proofs!Known(i)
           /\ \E q \in flight \ flight' :
                q.op = "remove" /\ q.target = i /\ (kind = "sharepoint-file" => q.tag = etag[i])]_(Proofs!proofVars)
  BY EachSteps, RemovesWhatItReadStep DEF HealthyInv
<1>2. HealthyInv /\ ShareInv /\ TrustedInv /\ [Next]_apiVars =>
        [doc.content = "edited" /\ doc'.content = "absent" => meddles' # meddles]_(Share!shareVars)
  BY EachSteps, ShareNext
<1>3. HealthyInv /\ ShareInv /\ TrustedInv /\ [Next]_apiVars =>
        [/\ Trusted!HasFile /\ versions' = <<>> => Trusted!Content # "foreign" /\ library'.there
         /\ library.there /\ ~library'.there => ~library.foreign]_(Trusted!trustedVars)
  <2> SUFFICES ASSUME TrustedInv, [Next]_apiVars
               PROVE  OwnDeletion
    BY DEF OwnDeletion
  <2>1. Trusted!Next \/ UNCHANGED Trusted!trustedVars
    BY EachSteps DEF trustedVars, Trusted!trustedVars, Trusted!site
  <2> QED  BY <2>1, TrustedNext
<1> QED  BY OperationsStart, OperationsNext, <1>1, <1>2, <1>3, PTL
         DEF Spec, DeletesOnlyItsOwn, Proofs!RemovesWhatItRead, Share!DeletesOnlyExactFile, Trusted!DeletesOnlyItsOwn

\* The variables of every operation have their types, whichever operation runs.
THEOREM OperationsTyped == Spec => []TypeOK
<1> DEFINE Inv == /\ part \in Parts
                  /\ HealthyInv /\ ShareInv /\ TrustedInv
                  /\ MailInv /\ CalendarInv /\ TokensInv /\ DocumentTyped
<1>1. Init => Inv
  BY OperationsStart, SendingStarts, TokensStart, DocumentStart DEF Init, DocumentInv
<1>2. Inv /\ [Next]_apiVars => Inv'
  <2> SUFFICES ASSUME Inv, [Next]_apiVars
               PROVE  Inv'
    OBVIOUS
  <2>1. (HealthyInv /\ ShareInv /\ TrustedInv)'
    BY OperationsNext
  <2>2. MailInv' /\ CalendarInv' /\ TokensInv' /\ DocumentTyped'
    BY EachSteps, MailNext, CalendarNext, TokensNext, DocumentTypedNext
  <2>3. part' \in Parts
    BY EachSteps
  <2> QED  BY <2>1, <2>2, <2>3
<1>3. Inv => TypeOK
  BY DEF TypeOK, HealthyInv, FixedInv, ProofsTyped, ShareInv, ShareTyped, TrustedInv, TrustedTyped,
         MailInv, CalendarInv, TokensInv, DocumentTyped
<1> HIDE DEF Inv
<1> QED  BY <1>1, <1>2, <1>3, PTL DEF Spec

=============================================================================
