---------------------------- MODULE PrivateDocument ----------------------------
(***************************************************************************)
(* The private-document runner: it creates a folder, a file and a direct   *)
(* share, lets the learner look, and removes the three again in reverse,   *)
(* whatever failed (api/private-document-evidence.ts).  Reads of the       *)
(* platform lag behind its mutations, an answer may be lost while its      *)
(* request takes effect later, and the journal may fail.                   *)
(***************************************************************************)
EXTENDS Naturals, Sequences, FiniteSets

CONSTANTS MaxLag,  \* bound: reads that may still show an object as it was
          MaxLate  \* bound: requests that take effect after their answer

VARIABLES
  things,    \* the objects that exist: subset of Objects
  lag,       \* object -> reads that may still be stale
  afloat,    \* requests whose answer was lost, not yet in effect
  point,     \* index in Script
  mode,      \* "start", "mutating", "before" (read before a removal), "after"
  tries,     \* #reconcile: attempts made, and consecutive absences
  absences,
  failure,   \* something has failed before the cleanup
  written,   \* the operations whose intent is in the journal
  calledFor, \* the operations sent to the transport
  verdict,   \* what run() returned, or "thrown"
  late       \* history: objects that a request made after it was answered for

documentVars == <<things, lag, afloat, point, mode, tries, absences, failure, written,
                  calledFor, verdict, late>>

Objects == {"folder", "file", "share"}

\* mutationOrder, the learner's look, cleanupOrder, the terminal looks.
Script == <<[op |-> "create", on |-> "folder"], [op |-> "create", on |-> "file"],
            [op |-> "create", on |-> "share"], [op |-> "look", on |-> "learner"],
            [op |-> "delete", on |-> "share"], [op |-> "delete", on |-> "file"],
            [op |-> "delete", on |-> "folder"], [op |-> "look", on |-> "terminal"]>>

Step == Script[point]
Cleanup == 5
Running == verdict = "none"

-----------------------------------------------------------------------------
(* The platform.                                                            *)

\* A file needs its folder, a share its file; a folder goes only when empty.
Can(s) ==
  CASE s.op = "create" -> /\ s.on \notin things
                          /\ s.on = "file" => "folder" \in things
                          /\ s.on = "share" => "file" \in things
    [] s.op = "delete" -> s.on \in things /\ (s.on = "folder" => "file" \notin things)

After(s) ==
  IF s.op = "create" THEN things \cup {s.on}
  ELSE things \ (IF s.on = "file" THEN {"file", "share"} ELSE {s.on})

Performed(s) ==
  /\ Can(s) /\ things' = After(s)
  /\ lag' \in {[lag EXCEPT ![s.on] = n] : n \in 0..MaxLag}

Land ==
  \E s \in afloat :
    /\ afloat' = afloat \ {s}
    /\ \/ Performed(s) /\ late' = (late \cup {s.on}) \cap things'
       \/ UNCHANGED <<things, lag, late>>
    /\ UNCHANGED <<point, mode, tries, absences, failure, written, calledFor, verdict>>

\* What a read may show of an object.
Shown(o) == {o \in things} \cup (IF lag[o] > 0 THEN {o \notin things} ELSE {})
Aged(o) == lag' = [lag EXCEPT ![o] = IF @ > 0 THEN @ - 1 ELSE 0]

-----------------------------------------------------------------------------
(* The runner.                                                              *)

Fresh == tries' = 0 /\ absences' = 0
World == <<things, afloat, late>>

Goes(to, how) == point' = to /\ mode' = how /\ Fresh
Returns(what) == verdict' = what /\ UNCHANGED <<point, mode, tries, absences>>

\* A step is done.  A blocked one ends the staging, or the run.
Proceeds == Goes(point + 1, IF point + 1 >= Cleanup THEN "before" ELSE "start") /\ UNCHANGED verdict
Blocked ==
  IF point < Cleanup
  THEN failure' = TRUE /\ Goes(Cleanup, "before") /\ UNCHANGED verdict
  ELSE Returns("blocked-cleanup") /\ UNCHANGED failure

Succeeds == Proceeds /\ UNCHANGED failure

\* A journal append that throws rejects run() at once.
JournalThrows ==
  /\ Running /\ verdict' = "thrown"
  /\ UNCHANGED <<things, lag, afloat, point, mode, tries, absences, failure, written, calledFor, late>>

Intends ==
  /\ Running /\ Step.op # "look" /\ mode = "start" /\ written' = written \cup {Step}
  /\ mode' = "mutating"
  /\ UNCHANGED <<World, lag, point, tries, absences, failure, calledFor, verdict>>

\* A success, or an ambiguous outcome of a request that took effect; a definite
\* failure; an ambiguous outcome of one that takes effect later or never.
Mutates ==
  /\ Running /\ mode = "mutating" /\ calledFor' = calledFor \cup {Step}
  /\ \/ /\ Performed(Step) /\ mode' = "after" /\ Fresh /\ late' = late \cap things'
        /\ UNCHANGED <<afloat, point, failure, verdict>>
     \/ UNCHANGED <<World, lag>> /\ Blocked
     \/ /\ mode' = "after" /\ Fresh /\ UNCHANGED <<things, lag, point, failure, verdict, late>>
        /\ \/ UNCHANGED afloat
           \/ Cardinality(afloat) < MaxLate /\ afloat' = afloat \cup {Step}
  /\ UNCHANGED written

AbsenceReads_One == 1
AbsenceReads == 3

\* One attempt of #reconcile.  An absence counts once it was read three times
\* in a row; any other complete read counts at once.
Reconciles ==
  /\ Running /\ Step.op # "look" /\ mode \in {"before", "after"}
  /\ UNCHANGED <<World, written, calledFor>>
  /\ \/ \E there \in Shown(Step.on) :
          /\ Aged(Step.on)
          /\ IF ~there /\ absences + 1 < AbsenceReads /\ tries < 2
             THEN /\ tries' = tries + 1 /\ absences' = absences + 1
                  /\ UNCHANGED <<point, mode, failure, verdict>>
             ELSE IF ~there /\ absences + 1 < AbsenceReads THEN Blocked
             ELSE CASE mode = "before" ->
                         IF there THEN Goes(point, "start") /\ UNCHANGED <<failure, verdict>>
                         ELSE Succeeds
                    [] mode = "after" -> IF there = (Step.op = "create") THEN Succeeds ELSE Blocked
     \/ /\ UNCHANGED lag  \* incomplete
        /\ IF tries < 2
           THEN tries' = tries + 1 /\ absences' = 0 /\ UNCHANGED <<point, mode, failure, verdict>>
           ELSE Blocked

LearnerLooks ==
  /\ Running /\ Step.on = "learner" /\ UNCHANGED <<World, written, calledFor, lag>>
  /\ \E proven \in {"share" \in things, FALSE} :
       failure' = ~proven /\ Goes(Cleanup, "before") /\ UNCHANGED verdict

\* Both terminal observations must be an exact absence; they are single reads.
TerminalLooks ==
  /\ Running /\ Step.on = "terminal" /\ UNCHANGED <<World, lag, written, calledFor, failure>>
  /\ \E gone \in {\A o \in Objects : FALSE \in Shown(o), FALSE} :
       Returns(IF ~gone THEN "blocked-cleanup"
               ELSE IF failure THEN "cleaned-after-failure" ELSE "completed-cleaned")

Done == ~Running /\ afloat = {} /\ UNCHANGED documentVars

Init ==
  /\ things = {} /\ lag = [o \in Objects |-> 0] /\ afloat = {} /\ point = 1 /\ mode = "start"
  /\ tries = 0 /\ absences = 0 /\ failure = FALSE /\ written = {} /\ calledFor = {}
  /\ verdict = "none" /\ late = {}

Next == \/ Land \/ JournalThrows \/ Intends \/ Mutates \/ Reconciles \/ LearnerLooks
        \/ TerminalLooks \/ Done

Spec == Init /\ [][Next]_documentVars

TypeOK ==
  /\ things \subseteq Objects /\ late \subseteq Objects /\ lag \in [Objects -> 0..MaxLag]
  /\ afloat \cup written \cup calledFor \subseteq {Script[i] : i \in 1..8} /\ point \in 1..8
  /\ mode \in {"start", "mutating", "before", "after"} /\ tries \in 0..2 /\ absences \in 0..2
  /\ failure \in BOOLEAN
  /\ verdict \in {"none", "thrown", "blocked-cleanup", "cleaned-after-failure", "completed-cleaned"}

\* A run that claims to be cleaned has left nothing behind, though each object
\* it made may have read as absent up to MaxLag times: all that can still come
\* up is the effect of a request that ended without an answer (run, #cleanup,
\* #reconcile).
CleanedMeansGone ==
  verdict \in {"completed-cleaned", "cleaned-after-failure"} => things \subseteq late

=============================================================================
