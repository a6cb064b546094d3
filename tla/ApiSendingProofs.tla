--------------------------- MODULE ApiSendingProofs ---------------------------
(***************************************************************************)
(* Proofs about the operations of ApiOperations that send: the mails, the  *)
(* calendar meeting and the token provider, for any number of senders,     *)
(* meetings, scopes and callers.                                           *)
(*                                                                         *)
(* An operation's variables change by its own steps only, so an invariant  *)
(* of the operation alone is one of all of them side by side.              *)
(***************************************************************************)
EXTENDS ApiOperations, FiniteSetTheorems, SequenceTheorems, TLAPS

\* Whatever happens is a step of each operation, or leaves it alone.
LEMMA EachSteps ==
  ASSUME [Next]_apiVars
  PROVE  /\ Proofs!Next \/ UNCHANGED proofVars
         /\ Mail!Next \/ UNCHANGED mailVars
         /\ Calendar!Next \/ UNCHANGED calendarVars
         /\ Tokens!Next \/ UNCHANGED tokenVars
         /\ Share!Next \/ UNCHANGED shareVars
         /\ Document!Next \/ UNCHANGED documentVars
         /\ Trusted!Next \/ UNCHANGED trustedVars
         /\ UNCHANGED part
<1>1. CASE UNCHANGED apiVars
  BY <1>1 DEF apiVars
<1>2. CASE Next
  BY <1>2 DEF Next, Only
<1> QED  BY <1>1, <1>2

\* Each instance brings the definition of Cardinality along under its own name.
LEMMA SameCardinality ==
  \A S : /\ Proofs!Cardinality(S) = Cardinality(S) /\ Mail!Cardinality(S) = Cardinality(S)
         /\ Calendar!Cardinality(S) = Cardinality(S) /\ Document!Cardinality(S) = Cardinality(S)
BY DEF Proofs!Cardinality, Mail!Cardinality, Calendar!Cardinality, Document!Cardinality, Cardinality

-----------------------------------------------------------------------------
\* Mails.

Busy == {c \in Senders : sender[c] # "idle"}

\* While the help desk sends, its call alone is busy and nothing is unknown yet:
\* what is posted is that call's, and it has not heard that it is over.
MailInv ==
  /\ Mail!TypeOK
  /\ mailKind = "help-desk-scenario" =>
       /\ sendState # "uncertain" => ~unknown
       /\ sendState = "ready" => posted = {}
       /\ sendState = "sending" => \A c \in posted : sender[c] \in {"waiting", "unclear"}
       /\ sendState # "sending" => Busy = {}
       /\ \A c, d \in Busy : c = d

LEMMA MailNext ==
  ASSUME MailInv, Mail!Next \/ UNCHANGED mailVars
  PROVE  MailInv'
<1> USE DEF MailInv, Mail!TypeOK, Busy
<1>1. CASE UNCHANGED mailVars
  BY <1>1 DEF mailVars
<1>2. CASE Mail!Restart
  BY <1>2 DEF Mail!Restart
<1>3. ASSUME NEW c \in Senders, Mail!HelpDeskSend(c)
      PROVE  MailInv'
  BY <1>3 DEF Mail!HelpDeskSend, Mail!Ends
<1>4. ASSUME NEW c \in Senders, Mail!EmailSend(c)
      PROVE  MailInv'
  BY <1>4 DEF Mail!EmailSend
<1>5. ASSUME NEW c \in Senders, Mail!TokenFails(c)
      PROVE  MailInv'
  BY <1>5 DEF Mail!TokenFails, Mail!Ends, Mail!Becomes
<1>6. ASSUME NEW c \in Senders, Mail!Posts(c)
      PROVE  MailInv'
  BY <1>6 DEF Mail!Posts
<1>7. ASSUME NEW c \in Senders, Mail!Answers(c)
      PROVE  MailInv'
  BY <1>7 DEF Mail!Answers
<1>8. ASSUME NEW c \in Senders, Mail!Hears(c)
      PROVE  MailInv'
  BY <1>8 DEF Mail!Hears, Mail!Ends, Mail!Becomes, Mail!AfterStatus
<1>9. ASSUME NEW c \in Senders, Mail!Lost(c)
      PROVE  MailInv'
  BY <1>9 DEF Mail!Lost, Mail!Ends, Mail!Becomes
<1> QED  BY <1>1, <1>2, <1>3, <1>4, <1>5, <1>6, <1>7, <1>8, <1>9 DEF Mail!Next

LEMMA MailKnown == MailInv => Mail!ReadyMeansKnown
<1> SUFFICES ASSUME MailInv, mailKind = "help-desk-scenario"
             PROVE  /\ sendState = "ready" => ~unknown /\ posted = {}
                    /\ sendState # "sending" => \A c \in Senders : sender[c] = "idle"
                    /\ Mail!Cardinality(Busy) <= 1
  BY Zenon DEF Mail!ReadyMeansKnown, Busy
<1>1. Cardinality(Busy) <= 1
  <2>1. CASE Busy = {}
    BY <2>1, FS_EmptySet
  <2>2. ASSUME NEW c \in Busy PROVE Busy = {c}
    BY <2>2 DEF MailInv
  <2> QED  BY <2>1, <2>2, FS_Singleton
<1>2. Mail!Cardinality(Busy) <= 1
  BY <1>1, SameCardinality
<1> QED  BY <1>2 DEF MailInv, Busy, Mail!TypeOK

-----------------------------------------------------------------------------
\* The calendar meeting.

\* A busy boundary has left the stage of its act behind it, and an answer to the
\* request of the act tells of its effect.
StageInv ==
  /\ act = "none" <=> at = "idle"
  /\ act = "create" => stage = "uncertain"
  /\ act = "cancel" => stage = "cancellation-uncertain"
  /\ at = "recovering" => act = "cancel"
  /\ at \in {"token", "recovering"} => sent[act] = 0
  /\ at # "sent" => heard = "none"
  /\ heard \in Meetings \union {"done"} => act \in landed
  /\ stage = "not-started" => sent["create"] = 0 /\ sent["cancel"] = 0
  /\ stage \in {"uncertain", "configured"} => sent["cancel"] = 0
  /\ \A a \in Calendar!Acts : sent[a] <= 1
  /\ stage = "configured" => "create" \in landed
  /\ stage = "cancellation-accepted" => "cancel" \in landed

Events ==
  [op : Calendar!Acts, phase : {"execution", "cleanup", "recovery"},
   outcome : {"started", "succeeded", "refused", "ambiguous"},
   ambiguity : {"none", "possible-mutation", "unresolved"},
   recovery : {"not-applicable", "in-progress", "not-needed", "unresolved", "reconciled"}]
Entries == [time : Nat, event : Events]

\* What is collected are the last of the events that happened.
Suffix(c, l) ==
  /\ Len(c) <= Len(l)
  /\ \A k \in 1..Len(c) : c[k].event = l[Len(l) - Len(c) + k]

LEMMA SuffixOfSuffix ==
  ASSUME NEW c \in Seq(Entries), NEW l \in Seq(Events), Suffix(c, l), NEW m \in 1..(Len(c) + 1)
  PROVE  /\ SubSeq(c, m, Len(c)) \in Seq(Entries)
         /\ Len(SubSeq(c, m, Len(c))) = Len(c) - m + 1
         /\ \A k \in 1..(Len(c) - m + 1) : SubSeq(c, m, Len(c))[k] = c[m + k - 1]
         /\ Suffix(SubSeq(c, m, Len(c)), l)
<1> DEFINE t == SubSeq(c, m, Len(c))
<1>1. \A i \in m..Len(c) : c[i] \in Entries
  BY ElementOfSeq
<1>2. /\ t \in Seq(Entries)
      /\ Len(t) = Len(c) - m + 1
      /\ \A k \in 1..(Len(c) - m + 1) : t[k] = c[m + k - 1]
  BY <1>1, LenProperties, SubSeqProperties
<1>3. Suffix(t, l)
  BY <1>2, LenProperties DEF Suffix
<1> QED  BY <1>2, <1>3

LEMMA SuffixGrows ==
  ASSUME NEW c \in Seq(Entries), NEW l \in Seq(Events), Suffix(c, l),
         NEW e \in Seq(Events), NEW now \in Nat
  PROVE  LET more == [k \in 1..Len(e) |-> [time |-> now, event |-> e[k]]]
         IN  c \o more \in Seq(Entries) /\ l \o e \in Seq(Events) /\ Suffix(c \o more, l \o e)
<1> DEFINE more == [k \in 1..Len(e) |-> [time |-> now, event |-> e[k]]]
<1>1. more \in Seq(Entries) /\ Len(more) = Len(e) /\ \A k \in 1..Len(e) : more[k].event = e[k]
  BY LenProperties, ElementOfSeq DEF Entries
<1> HIDE DEF more
<1>2. /\ c \o more \in Seq(Entries) /\ Len(c \o more) = Len(c) + Len(e)
      /\ \A k \in 1..(Len(c) + Len(e)) :
           (c \o more)[k] = IF k <= Len(c) THEN c[k] ELSE more[k - Len(c)]
  <2>1. /\ c \o more \in Seq(Entries) /\ Len(c \o more) = Len(c) + Len(more)
        /\ \A k \in 1..(Len(c) + Len(more)) :
             (c \o more)[k] = IF k <= Len(c) THEN c[k] ELSE more[k - Len(c)]
    BY <1>1, ConcatProperties
  <2> QED  BY <2>1, <1>1
<1>3. /\ l \o e \in Seq(Events) /\ Len(l \o e) = Len(l) + Len(e)
      /\ \A k \in 1..(Len(l) + Len(e)) :
           (l \o e)[k] = IF k <= Len(l) THEN l[k] ELSE e[k - Len(l)]
  BY ConcatProperties, LenProperties
<1>4. Suffix(c \o more, l \o e)
  <2>1. Len(c) \in Nat /\ Len(l) \in Nat /\ Len(e) \in Nat /\ Len(c) <= Len(l)
    BY LenProperties DEF Suffix
  <2>2. ASSUME NEW k \in 1..(Len(c) + Len(e))
        PROVE  (c \o more)[k].event = (l \o e)[Len(l) + Len(e) - (Len(c) + Len(e)) + k]
    <3>1. CASE k <= Len(c)
      BY <2>1, <3>1, <1>2, <1>3 DEF Suffix
    <3>2. CASE ~(k <= Len(c))
      <4>1. k - Len(c) \in 1..Len(e)
        BY <2>1, <3>2
      <4>2. /\ Len(l) + Len(e) - (Len(c) + Len(e)) + k \in 1..(Len(l) + Len(e))
            /\ ~(Len(l) + Len(e) - (Len(c) + Len(e)) + k <= Len(l))
            /\ Len(l) + Len(e) - (Len(c) + Len(e)) + k - Len(l) = k - Len(c)
        BY <2>1, <3>2
      <4>3. (l \o e)[Len(l) + Len(e) - (Len(c) + Len(e)) + k] = e[k - Len(c)]
        BY <4>2, <1>3
      <4>4. (c \o more)[k] = more[k - Len(c)]
        BY <1>2, <3>2
      <4> QED  BY <4>1, <4>3, <4>4, <1>1
    <3> QED  BY <3>1, <3>2
  <2> QED  BY <2>1, <2>2, <1>2, <1>3 DEF Suffix
<1> QED  BY <1>2, <1>3, <1>4 DEF more

LEMMA UpTo == ASSUME NEW n \in Nat PROVE IsFiniteSet(1..n) /\ Cardinality(1..n) = n
<1>1. n \in Int /\ 1 \in Int
  OBVIOUS
<1>2. IsFiniteSet(1..n) /\ Cardinality(1..n) = (IF 1 > n THEN 0 ELSE n - 1 + 1)
  BY <1>1, FS_Interval, Zenon
<1> QED  BY <1>2

\* What is too old is the start of what is collected.
LEMMA PrunedIsSuffix ==
  ASSUME NEW c \in Seq(Entries), NEW l \in Seq(Events), Suffix(c, l)
  PROVE  Calendar!Pruned(c) \in Seq(Entries) /\ Suffix(Calendar!Pruned(c), l)
<1> DEFINE old == {k \in DOMAIN c : c[k].time + MaxAge < clock}
<1>1. Len(c) \in Nat /\ DOMAIN c = 1..Len(c)
  BY LenProperties
<1>0. IsFiniteSet(1..Len(c)) /\ Cardinality(1..Len(c)) = Len(c)
  BY <1>1, UpTo
<1>2. old \subseteq 1..Len(c)
  BY LenProperties
<1>3. Cardinality(old) \in 0..Len(c)
  <2> HIDE DEF old
  <2>1. IsFiniteSet(old) /\ Cardinality(old) <= Len(c)
    BY <1>0, <1>2, FS_Subset
  <2> QED  BY <2>1, <1>1, FS_CardinalityType
<1>4. Calendar!Cardinality(old) = Cardinality(old)
  BY SameCardinality
<1>5. Calendar!Pruned(c) = SubSeq(c, Cardinality(old) + 1, Len(c))
  BY <1>4 DEF Calendar!Pruned
<1>6. Cardinality(old) + 1 \in 1..(Len(c) + 1)
  BY <1>3, LenProperties
<1> HIDE DEF old
<1> QED  BY <1>5, <1>6, SuffixOfSuffix

\* The collector holds no more than it may, and the latest of what happened.
LEMMA RecordIs ==
  ASSUME NEW c \in Seq(Entries), NEW l \in Seq(Events), Suffix(c, l),
         NEW e \in Seq(Events), clock \in Nat
  PROVE  /\ Calendar!RecordEvents(c, e) \in Seq(Entries)
         /\ Len(Calendar!RecordEvents(c, e)) <= MaxEvents
         /\ l \o e \in Seq(Events)
         /\ Suffix(Calendar!RecordEvents(c, e), l \o e)
<1> DEFINE all == Calendar!Pruned(c) \o [k \in 1..Len(e) |-> [time |-> clock, event |-> e[k]]]
           first == IF Len(all) > MaxEvents THEN Len(all) - MaxEvents + 1 ELSE 1
<1>1. all \in Seq(Entries) /\ l \o e \in Seq(Events) /\ Suffix(all, l \o e)
  BY PrunedIsSuffix, SuffixGrows
<1>2. Calendar!RecordEvents(c, e) = SubSeq(all, first, Len(all))
  BY DEF Calendar!RecordEvents
<1> HIDE DEF all
<1>3. MaxEvents \in Nat \ {0}
  BY OperationsAssumption
<1>4. first \in 1..(Len(all) + 1) /\ Len(all) - first + 1 <= MaxEvents
  BY <1>1, <1>3, LenProperties
<1> HIDE DEF first
<1> QED  BY <1>1, <1>2, <1>4, SuffixOfSuffix

CollectorInv ==
  /\ log \in Seq(Events)
  /\ collected \in Seq(Entries)
  /\ Suffix(collected, log)

CalendarInv == Calendar!TypeOK /\ CollectorInv /\ StageInv

LEMMA EmitKeeps ==
  ASSUME CollectorInv, clock \in Nat, NEW e \in Seq(Events), Calendar!Emit(e)
  PROVE  CollectorInv' /\ Len(collected') <= MaxEvents
<1>1. log' = log \o e /\ collected' = Calendar!RecordEvents(collected, e)
  BY DEF Calendar!Emit
<1> QED  BY <1>1, RecordIs DEF CollectorInv

LEMMA EventsEmitted ==
  /\ \A a \in Calendar!Acts : Calendar!Started(a) \in Events
  /\ \A a \in Calendar!Acts, o \in {"succeeded", "refused", "ambiguous"},
        m \in {"none", "possible-mutation", "unresolved"},
        r \in {"not-needed", "unresolved", "reconciled"} : Calendar!Finished(a, o, m, r) \in Events
  /\ Calendar!RecoveryStarted \in Events
  /\ \A o \in {"succeeded", "refused", "ambiguous"}, m \in {"none", "unresolved"},
        r \in {"unresolved", "reconciled"} : Calendar!RecoveryFinished(o, m, r) \in Events
BY DEF Events, Calendar!Acts, Calendar!Started, Calendar!Finished, Calendar!RecoveryStarted,
       Calendar!RecoveryFinished, Calendar!Phase

\* The words beside the ids of meetings are none of them.
LEMMA WordsApart ==
  \A w \in {"none", "done", "inexact", "refused", "failed", "thrown"} : w \notin Meetings
BY OperationsAssumption

LEMMA OutcomeIs ==
  ASSUME NEW x \in Meetings \union {"done", "inexact", "refused", "failed", "thrown"}
  PROVE  /\ Calendar!Outcome(x) \in {"succeeded", "refused", "ambiguous"}
         /\ Calendar!Outcome(x) = "succeeded" <=> x \in Meetings \union {"done"}
         /\ Calendar!Outcome(x) = "refused" <=> x = "refused"
<1>1. CASE x \in Meetings \union {"done"}
  <2>1. Calendar!Outcome(x) = "succeeded"
    <3>1. x # "refused" /\ x \notin {"inexact", "failed", "thrown"}
      BY <1>1, WordsApart
    <3> QED  BY <1>1, <3>1, Zenon DEF Calendar!Outcome
  <2> QED  BY <1>1, <2>1, WordsApart
<1>2. CASE x = "refused"
  <2>1. Calendar!Outcome(x) = "refused"
    <3>1. x \notin Meetings \union {"done"} /\ x \notin {"inexact", "failed", "thrown"}
      BY <1>2, WordsApart
    <3> QED  BY <1>2, <3>1, Zenon DEF Calendar!Outcome
  <2> QED  BY <1>2, <2>1, WordsApart
<1>3. CASE x \in {"inexact", "failed", "thrown"}
  <2>1. Calendar!Outcome(x) = "ambiguous"
    <3>1. x \notin Meetings \union {"done"} /\ x # "refused"
      BY <1>3, WordsApart
    <3> QED  BY <1>3, <3>1, Zenon DEF Calendar!Outcome
  <2> QED  BY <1>3, <2>1, WordsApart
<1> QED  BY <1>1, <1>2, <1>3

\* A call that ends leaves its stage, and an event that says how.
LEMMA FinishIs ==
  ASSUME CalendarInv, at = "sent",
         NEW x \in Meetings \union {"done", "inexact", "refused", "failed", "thrown"},
         Calendar!Finish(x)
  PROVE  /\ act' = "none" /\ at' = "idle" /\ heard' = "none" /\ run' = "not-needed"
         /\ stage' = IF x \notin Meetings \union {"done"} THEN stage
                     ELSE IF act = "create" THEN "configured" ELSE "cancellation-accepted"
         /\ \E m \in {"none", "possible-mutation"} :
              Calendar!Emit(<<Calendar!Finished(act, Calendar!Outcome(x), m, run)>>)
         /\ CollectorInv' /\ Len(collected') <= MaxEvents
<1>1. PICK m \in {"none", "possible-mutation"} :
        /\ Calendar!Leave(IF Calendar!Outcome(x) # "succeeded" THEN stage
                ELSE IF act = "create" THEN "configured" ELSE "cancellation-accepted")
        /\ Calendar!Emit(<<Calendar!Finished(act, Calendar!Outcome(x), m, run)>>)
  BY DEF Calendar!Finish
<1>2. act \in Calendar!Acts /\ run \in {"not-needed", "unresolved", "reconciled"}
  BY DEF CalendarInv, Calendar!TypeOK, StageInv
<1>3. <<Calendar!Finished(act, Calendar!Outcome(x), m, run)>> \in Seq(Events)
  BY <1>2, OutcomeIs, EventsEmitted
<1>4. clock \in Nat /\ CollectorInv
  BY OperationsAssumption DEF CalendarInv, Calendar!TypeOK
<1>5. CollectorInv' /\ Len(collected') <= MaxEvents
  BY <1>1, <1>3, <1>4, EmitKeeps
<1> QED  BY <1>1, <1>5, OutcomeIs DEF Calendar!Leave

Requests == [op : Calendar!Acts, id : Meetings \union {Calendar!NoMeeting}, mine : BOOLEAN]

LEMMA SendIs ==
  ASSUME Calendar!TypeOK, act \in Calendar!Acts, NEW id \in Meetings \union {Calendar!NoMeeting}, Calendar!Send(id)
  PROVE  /\ wire' = wire \union {[op |-> act, id |-> id, mine |-> TRUE]} /\ wire' \subseteq Requests
         /\ sent' = [sent EXCEPT ![act] = @ + 1] /\ sent' \in [Calendar!Acts -> Nat]
<1>1. /\ wire' = wire \union {[op |-> act, id |-> id, mine |-> TRUE]}
      /\ sent' = [sent EXCEPT ![act] = @ + 1]
  BY DEF Calendar!Send
<1>2. [op |-> act, id |-> id, mine |-> TRUE] \in Requests
  BY DEF Requests
<1>3. wire \subseteq Requests /\ sent \in [Calendar!Acts -> Nat]
  BY DEF Calendar!TypeOK, Requests
<1>4. wire' \subseteq Requests
  BY <1>1, <1>2, <1>3, Zenon
<1>5. sent' \in [Calendar!Acts -> Nat]
  BY <1>1, <1>3
<1> QED  BY <1>1, <1>4, <1>5

LEMMA CalendarNext ==
  ASSUME CalendarInv, Calendar!Next \/ UNCHANGED calendarVars
  PROVE  CalendarInv'
<1>0. clock \in Nat /\ CollectorInv
  BY OperationsAssumption DEF CalendarInv, Calendar!TypeOK
<1>1. ASSUME UNCHANGED <<log, collected>>
      PROVE  CollectorInv' /\ (Len(collected) <= MaxEvents => Len(collected') <= MaxEvents)
  BY <1>0, <1>1 DEF CollectorInv
<1> USE DEF Calendar!Acts, Calendar!Stages, Calendar!NoMeeting
<1>2. CASE UNCHANGED calendarVars
  BY <1>1, <1>2 DEF calendarVars, CalendarInv, Calendar!TypeOK, StageInv
<1>3. ASSUME NEW a \in Calendar!Acts, NEW attempted, Calendar!Begin(a, attempted),
             a = "create" => stage = "not-started" /\ attempted = "uncertain",
             a = "cancel" => /\ stage \notin {"cancellation-uncertain", "cancellation-accepted"}
                             /\ attempted = "cancellation-uncertain"
      PROVE  CalendarInv'
  <2>1. <<Calendar!Started(a)>> \in Seq(Events)
    BY EventsEmitted
  <2>2. CollectorInv' /\ Len(collected') <= MaxEvents
    BY <1>0, <1>3, <2>1, EmitKeeps DEF Calendar!Begin
  <2>3. Calendar!TypeOK'
    BY <1>3, <2>2, WordsApart DEF CalendarInv, Calendar!TypeOK, Calendar!Begin
  <2>4. StageInv'
    BY <1>3, WordsApart DEF CalendarInv, Calendar!TypeOK, StageInv, Calendar!Begin
  <2> QED  BY <2>2, <2>3, <2>4 DEF CalendarInv
<1>4. CASE Calendar!Create
  BY <1>3, <1>4 DEF Calendar!Create
<1>5. CASE Calendar!Cancel
  BY <1>3, <1>5 DEF Calendar!Cancel
<1>6. CASE Calendar!TokenFails
  <2>1. act \in Calendar!Acts
    BY <1>6 DEF CalendarInv, Calendar!TypeOK, StageInv, Calendar!TokenFails
  <2>2. <<Calendar!Finished(act, "refused", "none", "not-needed")>> \in Seq(Events)
    BY <2>1, EventsEmitted
  <2>3. CollectorInv' /\ Len(collected') <= MaxEvents
    BY <1>0, <1>6, <2>2, EmitKeeps DEF Calendar!TokenFails
  <2>4. Calendar!TypeOK'
    BY <1>6, <2>3 DEF CalendarInv, Calendar!TypeOK, Calendar!TokenFails, Calendar!Leave
  <2>5. StageInv'
    BY <1>6, WordsApart DEF CalendarInv, Calendar!TypeOK, StageInv, Calendar!TokenFails, Calendar!Leave
  <2> QED  BY <2>3, <2>4, <2>5 DEF CalendarInv
<1>7. CASE Calendar!TokenArrives
  <2>1. CASE /\ act = "create" \/ eventId # Calendar!NoMeeting
             /\ Calendar!Send(IF act = "create" THEN Calendar!NoMeeting ELSE eventId)
             /\ UNCHANGED <<run, log, collected>>
    <3>1. CollectorInv' /\ Len(collected') <= MaxEvents
      BY <1>1, <2>1 DEF CalendarInv, Calendar!TypeOK
    <3>2. act \in Calendar!Acts
      BY <1>7 DEF CalendarInv, Calendar!TypeOK, StageInv, Calendar!TokenArrives
    <3>5. /\ wire' \subseteq Requests /\ sent' \in [Calendar!Acts -> Nat]
      BY <2>1, <3>2, SendIs DEF CalendarInv, Calendar!TypeOK
    <3>3. Calendar!TypeOK'
      BY <1>7, <2>1, <3>1, <3>2, <3>5
      DEF CalendarInv, Calendar!TypeOK, Calendar!TokenArrives, Calendar!Send, Calendar!boundary, Requests
    <3>4. StageInv'
      BY <1>7, <2>1, <3>2, WordsApart
      DEF CalendarInv, Calendar!TypeOK, StageInv, Calendar!TokenArrives, Calendar!Send, Calendar!boundary
    <3> QED  BY <3>1, <3>3, <3>4 DEF CalendarInv
  <2>2. CASE /\ act = "cancel" /\ eventId = Calendar!NoMeeting
             /\ at' = "recovering" /\ run' = "unresolved" /\ Calendar!Emit(<<Calendar!RecoveryStarted>>)
             /\ UNCHANGED <<wire, sent>>
    <3>1. <<Calendar!RecoveryStarted>> \in Seq(Events)
      BY EventsEmitted
    <3>2. CollectorInv' /\ Len(collected') <= MaxEvents
      BY <1>0, <2>2, <3>1, EmitKeeps
    <3>3. Calendar!TypeOK'
      BY <1>7, <2>2, <3>2 DEF CalendarInv, Calendar!TypeOK, Calendar!TokenArrives, Calendar!boundary
    <3>4. StageInv'
      BY <1>7, <2>2, WordsApart DEF CalendarInv, Calendar!TypeOK, StageInv, Calendar!TokenArrives, Calendar!boundary
    <3> QED  BY <3>2, <3>3, <3>4 DEF CalendarInv
  <2> QED  BY <1>7, <2>1, <2>2 DEF Calendar!TokenArrives
<1>8. CASE Calendar!Recovers
  <2>1. PICK i \in Calendar!Marked :
          /\ meeting[i] = "live" /\ eventId' = i /\ run' = "reconciled"
          /\ Calendar!Emit(<<Calendar!RecoveryFinished("succeeded", "none", "reconciled")>>)
          /\ Calendar!Send(i)
    BY <1>8 DEF Calendar!Recovers
  <2>2. <<Calendar!RecoveryFinished("succeeded", "none", "reconciled")>> \in Seq(Events)
    BY EventsEmitted
  <2>3. CollectorInv' /\ Len(collected') <= MaxEvents
    BY <1>0, <2>1, <2>2, EmitKeeps
  <2>4. act = "cancel" /\ i \in Meetings
    BY <1>8, <2>1 DEF CalendarInv, StageInv, Calendar!Recovers, Calendar!Marked
  <2>7. wire' \subseteq Requests /\ sent' \in [Calendar!Acts -> Nat]
    BY <2>1, <2>4, SendIs DEF CalendarInv, Calendar!TypeOK
  <2>5. Calendar!TypeOK'
    BY <1>8, <2>1, <2>3, <2>4, <2>7
    DEF CalendarInv, Calendar!TypeOK, Calendar!Recovers, Calendar!Send, Calendar!boundary, Requests
  <2>6. StageInv'
    BY <1>8, <2>1, <2>4, WordsApart
    DEF CalendarInv, Calendar!TypeOK, StageInv, Calendar!Recovers, Calendar!Send, Calendar!boundary
  <2> QED  BY <2>3, <2>5, <2>6 DEF CalendarInv
<1>9. ASSUME at = "recovering", NEW o \in {"refused", "ambiguous"}, Calendar!RecoveryRefused(o)
      PROVE  CalendarInv'
  <2>1. <<Calendar!RecoveryFinished(o, "unresolved", "unresolved"),
          Calendar!Finished("cancel", "refused", "unresolved", "unresolved")>> \in Seq(Events)
    BY EventsEmitted
  <2>2. CollectorInv' /\ Len(collected') <= MaxEvents
    BY <1>0, <1>9, <2>1, EmitKeeps DEF Calendar!RecoveryRefused
  <2>3. Calendar!TypeOK'
    BY <1>9, <2>2 DEF CalendarInv, Calendar!TypeOK, Calendar!RecoveryRefused, Calendar!Leave
  <2>4. StageInv'
    BY <1>9, WordsApart
    DEF CalendarInv, Calendar!TypeOK, StageInv, Calendar!RecoveryRefused, Calendar!Leave
  <2> QED  BY <2>2, <2>3, <2>4 DEF CalendarInv
<1>10. CASE Calendar!FindsNoneOrSeveral \/ Calendar!RecoveryReadFails
  BY <1>9, <1>10 DEF Calendar!FindsNoneOrSeveral, Calendar!RecoveryReadFails
<1>11. CASE Calendar!Hears
  <2>1. heard \in Meetings \union {"done", "inexact", "refused", "failed", "thrown"} /\ at = "sent"
        /\ Calendar!Finish(heard)
    BY <1>11 DEF CalendarInv, Calendar!TypeOK, Calendar!Hears
  <2>2. /\ act' = "none" /\ at' = "idle" /\ heard' = "none" /\ run' = "not-needed"
        /\ stage' = IF heard \notin Meetings \union {"done"} THEN stage
                    ELSE IF act = "create" THEN "configured" ELSE "cancellation-accepted"
        /\ CollectorInv' /\ Len(collected') <= MaxEvents
    BY <2>1, FinishIs
  <2>3. Calendar!TypeOK'
    BY <1>11, <2>2 DEF CalendarInv, Calendar!TypeOK, Calendar!Hears
  <2>4. StageInv'
    BY <1>11, <2>1, <2>2, WordsApart DEF CalendarInv, Calendar!TypeOK, StageInv, Calendar!Hears
  <2> QED  BY <2>2, <2>3, <2>4 DEF CalendarInv
<1>12. CASE Calendar!Lost
  <2>1. "thrown" \in Meetings \union {"done", "inexact", "refused", "failed", "thrown"} /\ at = "sent"
        /\ Calendar!Finish("thrown")
    BY <1>12 DEF Calendar!Lost
  <2>2. /\ act' = "none" /\ at' = "idle" /\ heard' = "none" /\ run' = "not-needed" /\ stage' = stage
        /\ CollectorInv' /\ Len(collected') <= MaxEvents
    BY <2>1, FinishIs, WordsApart
  <2>3. Calendar!TypeOK'
    BY <1>12, <2>2 DEF CalendarInv, Calendar!TypeOK, Calendar!Lost
  <2>4. StageInv'
    BY <1>12, <2>1, <2>2, WordsApart DEF CalendarInv, Calendar!TypeOK, StageInv, Calendar!Lost
  <2> QED  BY <2>2, <2>3, <2>4 DEF CalendarInv
<1>13. ASSUME NEW q \in wire, Calendar!GraphActs(q)
       PROVE  CalendarInv'
  <2>1. CollectorInv' /\ Len(collected') <= MaxEvents
    BY <1>1, <1>13 DEF CalendarInv, Calendar!TypeOK, Calendar!GraphActs, Calendar!telemetry
  <2>2. Calendar!TypeOK'
    BY <1>13, <2>1
    DEF CalendarInv, Calendar!TypeOK, Calendar!GraphActs, Calendar!telemetry, Calendar!boundary
  <2>3. StageInv'
    BY <1>13, WordsApart
    DEF CalendarInv, Calendar!TypeOK, StageInv, Calendar!GraphActs, Calendar!boundary, Calendar!Awaits
  <2> QED  BY <2>1, <2>2, <2>3 DEF CalendarInv
<1>14. ASSUME NEW q \in wire, Calendar!GraphRefuses(q)
       PROVE  CalendarInv'
  <2>1. CollectorInv' /\ Len(collected') <= MaxEvents
    BY <1>1, <1>14 DEF CalendarInv, Calendar!TypeOK, Calendar!GraphRefuses, Calendar!telemetry
  <2>2. Calendar!TypeOK'
    BY <1>14, <2>1
    DEF CalendarInv, Calendar!TypeOK, Calendar!GraphRefuses, Calendar!telemetry, Calendar!boundary
  <2>3. StageInv'
    BY <1>14, WordsApart
    DEF CalendarInv, Calendar!TypeOK, StageInv, Calendar!GraphRefuses, Calendar!boundary, Calendar!Awaits
  <2> QED  BY <2>1, <2>2, <2>3 DEF CalendarInv
<1>15. ASSUME NEW i \in Meetings, Calendar!UserCancels(i)
       PROVE  CalendarInv'
  BY <1>1, <1>15
  DEF CalendarInv, Calendar!TypeOK, StageInv, Calendar!UserCancels, Calendar!telemetry, Calendar!boundary
<1>16. CASE Calendar!Tick
  BY <1>1, <1>16, OperationsAssumption
  DEF CalendarInv, Calendar!TypeOK, StageInv, Calendar!Tick, Calendar!telemetry, Calendar!boundary
<1>17. CASE Calendar!Restart
  <2>1. CollectorInv' /\ Len(collected') <= MaxEvents
    BY <1>17, OperationsAssumption DEF CollectorInv, Calendar!Restart, Suffix
  <2>4. wire' \subseteq Requests
    <3>1. \A q \in Requests : [q EXCEPT !.mine = FALSE] \in Requests
      BY DEF Requests
    <3>2. wire' = {[q EXCEPT !.mine = FALSE] : q \in wire} /\ wire \subseteq Requests
      BY <1>17 DEF CalendarInv, Calendar!TypeOK, Calendar!Restart, Requests
    <3> QED  BY <3>1, <3>2, Zenon
  <2>2. Calendar!TypeOK'
    BY <1>17, <2>1, <2>4, OperationsAssumption DEF CalendarInv, Calendar!TypeOK, Calendar!Restart, Requests
  <2>3. StageInv'
    BY <1>17, WordsApart DEF CalendarInv, StageInv, Calendar!Restart
  <2> QED  BY <2>1, <2>2, <2>3 DEF CalendarInv
<1> QED  BY <1>2, <1>4, <1>5, <1>6, <1>7, <1>8, <1>10, <1>11, <1>12, <1>13, <1>14, <1>15, <1>16, <1>17
    DEF Calendar!Next

LEMMA CalendarKnown == CalendarInv => Calendar!StageKnowsWhatWasSent
BY DEF CalendarInv, StageInv, Calendar!StageKnowsWhatWasSent

-----------------------------------------------------------------------------
\* The telemetry of a meeting.

\* A mutation of this process is on its way at most once, and before it has landed.
WireInv ==
  /\ \A q \in wire : q.mine => q.op \notin landed /\ sent[q.op] # 0
  /\ \A q, r \in wire : q.mine /\ r.mine /\ q.op = r.op => q = r
  /\ \A a \in Calendar!Acts : sent[a] = 0 => a \notin landed
  /\ heard = "refused" => act \notin landed /\ \A q \in wire : q.mine => q.op # act

\* An act that is not over has only started.
OutcomesInv ==
  \A k \in 1..Len(log), a \in Calendar!Acts : log[k].phase = Calendar!Phase(a) =>
    /\ log[k].outcome = "succeeded" => a \in landed
    /\ log[k].outcome = "refused" => a \notin landed /\ \A q \in wire : q.mine => q.op # a
    /\ act = a => log[k].outcome = "started"

\* First c events of the create, then n of the cancel, whose recovery is between
\* its start and its end.
Shape(c, n) ==
  /\ Len(log) = c + n
  /\ \A k \in 1..c : log[k].op = "create" /\ log[k].phase = "execution"
  /\ \A k \in (c + 1)..(c + n) :
       /\ log[k].op = "cancel" /\ log[k].phase \in {"cleanup", "recovery"}
       /\ log[k].phase = "recovery" <=> k = c + 3 \/ (k = c + 2 /\ (n > 2 \/ at = "recovering"))
  /\ IF act = "create" THEN c = 1 ELSE c \in {0, 2}
  /\ act = "cancel" => /\ at = "token" => n = 1
                       /\ at = "recovering" => n = 2
                       /\ at = "sent" => n \in {1, 3}
  /\ act # "cancel" => n \in {0, 2, 4}
  /\ stage = "not-started" => c = 0
  /\ stage \in {"not-started", "uncertain", "configured"} => n = 0

TelemetryInv == WireInv /\ OutcomesInv /\ \E c \in 0..2, n \in 0..4 : Shape(c, n)


LEMMA Appended ==
  ASSUME log \in Seq(Events), NEW e \in Events, Calendar!Emit(<<e>>)
  PROVE  /\ Len(log) \in Nat /\ Len(log') = Len(log) + 1
         /\ \A k \in 1..Len(log) : log'[k] = log[k]
         /\ log'[Len(log) + 1] = e
BY DEF Calendar!Emit

LEMMA AppendedTwo ==
  ASSUME log \in Seq(Events), NEW e \in Events, NEW f \in Events, Calendar!Emit(<<e, f>>)
  PROVE  /\ Len(log) \in Nat /\ Len(log') = Len(log) + 2
         /\ \A k \in 1..Len(log) : log'[k] = log[k]
         /\ log'[Len(log) + 1] = e /\ log'[Len(log) + 2] = f
BY DEF Calendar!Emit

LEMMA WireNext ==
  ASSUME CalendarInv, WireInv, Calendar!Next \/ UNCHANGED calendarVars
  PROVE  WireInv'
<1> USE DEF Calendar!Acts
<1>0. Calendar!TypeOK /\ StageInv
  BY DEF CalendarInv
<1>1. CASE UNCHANGED calendarVars
  BY <1>1 DEF calendarVars, WireInv
<1>2. CASE Calendar!Create \/ Calendar!Cancel
  BY <1>0, <1>2 DEF Calendar!Create, Calendar!Cancel, Calendar!Begin, WireInv, StageInv
<1>3. CASE Calendar!TokenFails
  BY <1>3 DEF Calendar!TokenFails, Calendar!Leave, WireInv
<1>4. ASSUME NEW id, Calendar!Send(id), UNCHANGED <<act, landed, heard>>, at \in {"token", "recovering"}
      PROVE  WireInv'
  <2>1. act \in Calendar!Acts /\ sent[act] = 0 /\ heard = "none"
    BY <1>0, <1>4 DEF Calendar!TypeOK, StageInv
  <2>2. \A q \in wire' : q \in wire \/ (q = [op |-> act, id |-> id, mine |-> TRUE] /\ q.op = act)
    BY <1>4 DEF Calendar!Send
  <2>3. sent'[act] # 0 /\ \A a \in Calendar!Acts : a # act => sent'[a] = sent[a]
    BY <1>0, <1>4, <2>1 DEF Calendar!TypeOK, Calendar!Send
  <2>4. \A q \in wire : q.op \in Calendar!Acts
    BY <1>0 DEF Calendar!TypeOK
  <2> QED  BY <1>4, <2>1, <2>2, <2>3, <2>4 DEF WireInv
<1>5. CASE Calendar!TokenArrives
  BY <1>4, <1>5 DEF Calendar!TokenArrives, Calendar!boundary, WireInv
<1>6. CASE Calendar!Recovers
  BY <1>4, <1>6 DEF Calendar!Recovers, Calendar!boundary
<1>7. CASE Calendar!FindsNoneOrSeveral \/ Calendar!RecoveryReadFails
  BY <1>7 DEF Calendar!FindsNoneOrSeveral, Calendar!RecoveryReadFails, Calendar!RecoveryRefused, Calendar!Leave, WireInv
<1>8. CASE Calendar!Hears \/ Calendar!Lost
  BY <1>8 DEF Calendar!Hears, Calendar!Lost, Calendar!Finish, Calendar!Leave, WireInv
<1>9. ASSUME NEW q \in wire, Calendar!GraphActs(q) \/ Calendar!GraphRefuses(q)
      PROVE  WireInv'
  <2>1. wire' = wire \ {q} /\ q.op \in Calendar!Acts /\ UNCHANGED <<sent, act>>
        /\ landed' \in {landed, IF q.mine THEN landed \union {q.op} ELSE landed}
    BY <1>0, <1>9 DEF Calendar!GraphActs, Calendar!GraphRefuses, Calendar!boundary, Calendar!TypeOK
  <2>2. heard' = "refused" => \/ heard = "refused"
                             \/ (q.mine /\ act = q.op /\ landed' = landed)
    BY <1>9, WordsApart DEF Calendar!GraphActs, Calendar!GraphRefuses, Calendar!Awaits
  <2> QED  BY <2>1, <2>2 DEF WireInv
<1>10. CASE (\E i \in Meetings : Calendar!UserCancels(i)) \/ Calendar!Tick
  BY <1>10 DEF Calendar!UserCancels, Calendar!Tick, Calendar!boundary, WireInv
<1>11. CASE Calendar!Restart
  <2>1. \A q \in Requests : [q EXCEPT !.mine = FALSE].mine = FALSE
    BY DEF Requests
  <2>2. wire' = {[q EXCEPT !.mine = FALSE] : q \in wire} /\ wire \subseteq Requests
    BY <1>0, <1>11 DEF Calendar!TypeOK, Calendar!Restart, Requests
  <2>3. \A q \in wire' : q.mine = FALSE
    BY <2>1, <2>2, Zenon
  <2> QED  BY <1>11, <2>3 DEF Calendar!Restart, WireInv
<1> QED  BY <1>1, <1>2, <1>3, <1>5, <1>6, <1>7, <1>8, <1>9, <1>10, <1>11 DEF Calendar!Next


\* The log keeps its shape: what each step appends goes to the end of its part.
LEMMA ShapeNext ==
  ASSUME CalendarInv, NEW c \in 0..2, NEW n \in 0..4, Shape(c, n),
         Calendar!Next \/ UNCHANGED calendarVars
  PROVE  \E d \in 0..2, m \in 0..4 : Shape(d, m)'
<1> USE DEF Calendar!Acts
<1>0. Calendar!TypeOK /\ StageInv /\ log \in Seq(Events) /\ Len(log) = c + n
  BY DEF CalendarInv, CollectorInv, Shape
<1>1. ASSUME UNCHANGED <<log, act, at, stage>>
      PROVE  Shape(c, n)'
  BY <1>1 DEF Shape
<1>2. CASE UNCHANGED calendarVars
  BY <1>1, <1>2 DEF calendarVars
<1>3. CASE Calendar!Create
  <2>1. c = 0 /\ n = 0 /\ Calendar!Started("create") \in Events
    BY <1>3, EventsEmitted DEF Calendar!Create, Shape
  <2>2. /\ Len(log') = 1 /\ log'[1] = Calendar!Started("create")
        /\ act' = "create" /\ stage' = "uncertain"
    BY <1>0, <1>3, <2>1, Appended DEF Calendar!Create, Calendar!Begin
  <2>3. Shape(1, 0)'
    BY <2>2 DEF Shape, Calendar!Started, Calendar!Phase
  <2> QED  BY <2>3
<1>4. CASE Calendar!Cancel
  <2>1. /\ n = 0 /\ Calendar!Started("cancel") \in Events /\ act = "none" /\ c \in {0, 2}
    BY <1>0, <1>4, EventsEmitted DEF Calendar!Cancel, Calendar!Begin, Shape, Calendar!TypeOK, Calendar!Stages
  <2>2. /\ Len(log') = c + 1 /\ log'[c + 1] = Calendar!Started("cancel")
        /\ \A k \in 1..c : log'[k] = log[k]
        /\ act' = "cancel" /\ stage' = "cancellation-uncertain" /\ at' = "token"
    BY <1>0, <1>4, <2>1, Appended DEF Calendar!Cancel, Calendar!Begin
  <2>3. Shape(c, 1)'
    BY <2>1, <2>2 DEF Shape, Calendar!Started, Calendar!Phase
  <2> QED  BY <2>3
\* The end of an act.
<1>5. ASSUME at \in {"token", "sent"}, NEW o, NEW m, NEW r,
             Calendar!Finished(act, o, m, r) \in Events,
             Calendar!Emit(<<Calendar!Finished(act, o, m, r)>>),
             act' = "none", at' = "idle", stage' # "not-started",
             act = "cancel" => stage' \notin {"uncertain", "configured"}
      PROVE  \E d \in 0..2, e \in 0..4 : Shape(d, e)'
  <2>1. /\ Len(log') = c + n + 1 /\ log'[c + n + 1] = Calendar!Finished(act, o, m, r)
        /\ \A k \in 1..(c + n) : log'[k] = log[k]
    BY <1>0, <1>5, Appended
  <2>2. CASE act = "create"
    <3>1. c = 1 /\ n = 0
      BY <2>2, <1>0 DEF Shape, StageInv
    <3>2. Shape(2, 0)'
      BY <1>5, <2>1, <2>2, <3>1 DEF Shape, Calendar!Finished, Calendar!Phase
    <3> QED  BY <3>2
  <2>3. CASE act = "cancel"
    <3>1. n \in {1, 3} /\ c \in {0, 2} /\ (n = 3 => log[c + 2].phase = "recovery")
          /\ (n = 3 => log[c + 3].phase = "recovery") /\ log[c + 1].phase # "recovery"
      BY <2>3, <1>5 DEF Shape
    <3>2. \A k \in (c + 1)..(c + n + 1) :
            /\ log'[k].op = "cancel" /\ log'[k].phase \in {"cleanup", "recovery"}
            /\ k = c + n + 1 => log'[k].phase = "cleanup"
            /\ k # c + n + 1 => log'[k] = log[k]
      BY <2>1, <2>3 DEF Shape, Calendar!Finished, Calendar!Phase
    <3>4. \A k \in 1..c : log'[k].op = "create" /\ log'[k].phase = "execution"
      BY <2>1 DEF Shape
    <3>5. \A k \in (c + 1)..(c + n + 1) :
            log'[k].phase = "recovery" <=> k = c + 3 \/ (k = c + 2 /\ (n + 1 > 2 \/ at' = "recovering"))
      BY <3>1, <3>2, <1>5, <2>3 DEF Shape
    <3>3. Shape(c, n + 1)'
      BY <1>5, <2>1, <3>1, <3>2, <3>4, <3>5 DEF Shape
    <3> QED  BY <3>1, <3>3
  <2> QED  BY <1>0, <1>5, <2>2, <2>3 DEF StageInv, Calendar!TypeOK
<1>6. CASE Calendar!TokenFails
  <2>1. act \in Calendar!Acts
    BY <1>0, <1>6 DEF Calendar!TypeOK, StageInv, Calendar!TokenFails
  <2>2. Calendar!Finished(act, "refused", "none", "not-needed") \in Events
    BY <2>1, EventsEmitted
  <2> QED  BY <1>0, <1>5, <1>6, <2>2 DEF Calendar!TokenFails, Calendar!Leave, StageInv, Calendar!TypeOK
<1>7. CASE Calendar!TokenArrives
  <2>1. CASE UNCHANGED log
    <3>1. at' = "sent" /\ UNCHANGED <<act, stage>> /\ at = "token"
      BY <1>7, <2>1, <1>0, Appended, EventsEmitted
      DEF Calendar!TokenArrives, Calendar!Send, Calendar!boundary
    <3>2. Shape(c, n)'
      BY <2>1, <3>1 DEF Shape
    <3> QED  BY <3>2
  <2>2. CASE /\ act = "cancel" /\ at' = "recovering" /\ Calendar!Emit(<<Calendar!RecoveryStarted>>)
    <3>1. /\ Len(log') = c + n + 1 /\ log'[c + n + 1] = Calendar!RecoveryStarted
          /\ \A k \in 1..(c + n) : log'[k] = log[k]
      BY <1>0, <2>2, Appended, EventsEmitted
    <3>2. n = 1 /\ UNCHANGED <<act, stage>>
      BY <1>7, <2>2 DEF Shape, Calendar!TokenArrives, Calendar!boundary
    <3>3. Shape(c, 2)'
      BY <2>2, <3>1, <3>2 DEF Shape, Calendar!RecoveryStarted
    <3> QED  BY <3>3
  <2> QED  BY <1>7, <2>1, <2>2 DEF Calendar!TokenArrives
<1>8. CASE Calendar!Recovers
  <2>1. /\ Calendar!Emit(<<Calendar!RecoveryFinished("succeeded", "none", "reconciled")>>)
        /\ at = "recovering" /\ at' = "sent" /\ UNCHANGED <<act, stage>> /\ act = "cancel"
    BY <1>0, <1>8 DEF Calendar!Recovers, Calendar!Send, Calendar!boundary, StageInv
  <2>2. /\ Len(log') = c + n + 1
        /\ log'[c + n + 1] = Calendar!RecoveryFinished("succeeded", "none", "reconciled")
        /\ \A k \in 1..(c + n) : log'[k] = log[k]
    BY <1>0, <2>1, Appended, EventsEmitted
  <2>3. n = 2
    BY <2>1 DEF Shape
  <2>4. Shape(c, 3)'
    BY <2>1, <2>2, <2>3 DEF Shape, Calendar!RecoveryFinished
  <2> QED  BY <2>4
<1>9. CASE Calendar!FindsNoneOrSeveral \/ Calendar!RecoveryReadFails
  <2>1. PICK o \in {"refused", "ambiguous"} : Calendar!RecoveryRefused(o)
    BY <1>9 DEF Calendar!FindsNoneOrSeveral, Calendar!RecoveryReadFails
  <2> DEFINE e == Calendar!RecoveryFinished(o, "unresolved", "unresolved")
             f == Calendar!Finished("cancel", "refused", "unresolved", "unresolved")
  <2>2. Calendar!Emit(<<e, f>>) /\ act' = "none" /\ stage' = stage /\ act = "cancel" /\ at = "recovering"
    BY <1>0, <1>9, <2>1
    DEF Calendar!FindsNoneOrSeveral, Calendar!RecoveryReadFails, Calendar!RecoveryRefused, Calendar!Leave, StageInv
  <2>3. e \in Events /\ f \in Events
    BY EventsEmitted
  <2>4. /\ Len(log') = c + n + 2 /\ log'[c + n + 1] = e /\ log'[c + n + 2] = f
        /\ \A k \in 1..(c + n) : log'[k] = log[k]
    <3> HIDE DEF e, f
    <3> QED  BY <1>0, <2>2, <2>3, AppendedTwo
  <2>5. n = 2 /\ c \in {0, 2} /\ stage \notin {"not-started", "uncertain", "configured"}
    BY <1>0, <2>2 DEF Shape, StageInv
  <2>6. Shape(c, 4)'
    BY <2>2, <2>4, <2>5 DEF Shape, Calendar!RecoveryFinished, Calendar!Finished, Calendar!Phase
  <2> QED  BY <2>6
<1>10. ASSUME at = "sent", NEW x \in Meetings \union {"done", "inexact", "refused", "failed", "thrown"},
              Calendar!Finish(x)
       PROVE  \E d \in 0..2, m \in 0..4 : Shape(d, m)'
  <2>1. PICK m \in {"none", "possible-mutation"} :
          Calendar!Emit(<<Calendar!Finished(act, Calendar!Outcome(x), m, run)>>)
    BY <1>10, FinishIs
  <2>2. Calendar!Finished(act, Calendar!Outcome(x), m, run) \in Events
    BY <1>0, <1>10, OutcomeIs, EventsEmitted DEF StageInv, Calendar!TypeOK
  <2>3. /\ act' = "none" /\ at' = "idle"
        /\ stage' \in {stage, IF act = "create" THEN "configured" ELSE "cancellation-accepted"}
    BY <1>10, FinishIs
  <2> QED  BY <1>0, <1>5, <1>10, <2>1, <2>2, <2>3 DEF StageInv, Calendar!TypeOK
<1>11. CASE Calendar!Hears \/ Calendar!Lost
  BY <1>0, <1>10, <1>11 DEF Calendar!Hears, Calendar!Lost, Calendar!TypeOK
<1>12. CASE \E q \in wire : Calendar!GraphActs(q) \/ Calendar!GraphRefuses(q)
  BY <1>1, <1>12 DEF Calendar!GraphActs, Calendar!GraphRefuses, Calendar!boundary, Calendar!telemetry
<1>13. CASE (\E i \in Meetings : Calendar!UserCancels(i)) \/ Calendar!Tick
  BY <1>1, <1>13 DEF Calendar!UserCancels, Calendar!Tick, Calendar!boundary, Calendar!telemetry
<1>14. CASE Calendar!Restart
  <2>1. Shape(0, 0)'
    BY <1>14 DEF Calendar!Restart, Shape
  <2> QED  BY <2>1
<1> QED  BY <1>2, <1>3, <1>4, <1>6, <1>7, <1>8, <1>9, <1>11, <1>12, <1>13, <1>14 DEF Calendar!Next


\* What was told of an act, now that e has been told of it too.
Tells(e) ==
  \A a \in Calendar!Acts : e.phase = Calendar!Phase(a) =>
    /\ e.outcome = "succeeded" => a \in landed
    /\ e.outcome = "refused" => a \notin landed /\ \A q \in wire : q.mine => q.op # a
    /\ act' = a => e.outcome = "started"

LEMMA OutcomesNext ==
  ASSUME CalendarInv, TelemetryInv, Calendar!Next \/ UNCHANGED calendarVars
  PROVE  OutcomesInv'
<1> USE DEF Calendar!Acts
<1>0. Calendar!TypeOK /\ StageInv /\ log \in Seq(Events) /\ Len(log) \in Nat
  BY DEF CalendarInv, CollectorInv
<1>1. OutcomesInv /\ WireInv
  BY DEF TelemetryInv
<1>2. PICK c \in 0..2, n \in 0..4 : Shape(c, n)
  BY DEF TelemetryInv
\* A step that tells nothing, and lets no act land or be sent after it was told.
<1>3. ASSUME UNCHANGED <<log, act>>, landed \subseteq landed',
             \A a \in landed' : a \in landed \/ \E q \in wire : q.mine /\ q.op = a,
             \A q \in wire' : q.mine => q \in wire \/ q.op = act
      PROVE  OutcomesInv'
  <2> SUFFICES ASSUME NEW k \in 1..Len(log), NEW a \in Calendar!Acts, log[k].phase = Calendar!Phase(a)
               PROVE  /\ log[k].outcome = "succeeded" => a \in landed'
                      /\ log[k].outcome = "refused" => a \notin landed' /\ \A q \in wire' : q.mine => q.op # a
                      /\ act = a => log[k].outcome = "started"
    BY <1>3 DEF OutcomesInv, Calendar!Phase
  <2> QED  BY <1>1, <1>3 DEF OutcomesInv
\* A step that tells e, true now, and of whose act nothing had been told if it is new.
<1>4. ASSUME NEW e \in Events, Calendar!Emit(<<e>>), Tells(e), landed' = landed,
             \A q \in wire' : q.mine => q \in wire \/ q.op = act,
             act' \in {act, "none"} \/ \A k \in 1..Len(log) : log[k].phase # Calendar!Phase(act'),
             wire' = wire \/ act' = act
      PROVE  OutcomesInv'
  <2>1. /\ Len(log') = Len(log) + 1 /\ \A k \in 1..Len(log) : log'[k] = log[k]
        /\ log'[Len(log) + 1] = e
    BY <1>0, <1>4, Appended
  <2>2. ASSUME NEW k \in 1..Len(log), NEW a \in Calendar!Acts, log[k].phase = Calendar!Phase(a)
        PROVE  /\ log[k].outcome = "succeeded" => a \in landed'
               /\ log[k].outcome = "refused" => a \notin landed' /\ \A q \in wire' : q.mine => q.op # a
               /\ act' = a => log[k].outcome = "started"
    BY <1>1, <1>4, <2>2 DEF OutcomesInv
  <2> QED  BY <1>4, <2>1, <2>2 DEF OutcomesInv, Calendar!Phase, Tells
<1>5. CASE UNCHANGED calendarVars
  BY <1>3, <1>5 DEF calendarVars
<1>6. ASSUME NEW a \in Calendar!Acts, NEW attempted, Calendar!Begin(a, attempted),
             \A k \in 1..Len(log) : log[k].phase # Calendar!Phase(a)
      PROVE  OutcomesInv'
  <2>1. Calendar!Started(a) \in Events /\ Tells(Calendar!Started(a))
    BY EventsEmitted DEF Tells, Calendar!Started, Calendar!Phase
  <2> QED  BY <1>4, <1>6, <2>1 DEF Calendar!Begin
<1>7. CASE Calendar!Create
  BY <1>2, <1>6, <1>7 DEF Calendar!Create, Shape
<1>8. CASE Calendar!Cancel
  <2>1. \A k \in 1..Len(log) : log[k].phase # Calendar!Phase("cancel")
    BY <1>0, <1>2, <1>8 DEF Calendar!Cancel, Shape, Calendar!Phase, Calendar!TypeOK, Calendar!Stages
  <2> QED  BY <1>6, <1>8, <2>1 DEF Calendar!Cancel
<1>9. CASE Calendar!TokenFails
  <2>1. act \in Calendar!Acts /\ sent[act] = 0 /\ act' = "none" /\ UNCHANGED <<wire, landed>>
        /\ Calendar!Emit(<<Calendar!Finished(act, "refused", "none", "not-needed")>>)
    BY <1>0, <1>9 DEF Calendar!TypeOK, StageInv, Calendar!TokenFails, Calendar!Leave
  <2>2. act \notin landed /\ \A q \in wire : q.mine => q.op # act
    BY <1>1, <2>1 DEF WireInv
  <2>3. Calendar!Finished(act, "refused", "none", "not-needed") \in Events
    BY <2>1, EventsEmitted
  <2>4. Tells(Calendar!Finished(act, "refused", "none", "not-needed"))
    BY <2>1, <2>2 DEF Tells, Calendar!Finished, Calendar!Phase
  <2> QED  BY <1>4, <2>1, <2>3, <2>4
<1>10. CASE Calendar!TokenArrives
  <2>1. UNCHANGED <<act, landed>> /\ \A q \in wire' : q.mine => q \in wire \/ q.op = act
    BY <1>10 DEF Calendar!TokenArrives, Calendar!Send, Calendar!boundary
  <2>2. CASE UNCHANGED log
    BY <1>3, <2>1, <2>2
  <2>3. CASE Calendar!Emit(<<Calendar!RecoveryStarted>>)
    <3>1. Calendar!RecoveryStarted \in Events /\ Tells(Calendar!RecoveryStarted)
      BY EventsEmitted DEF Tells, Calendar!RecoveryStarted, Calendar!Phase
    <3> QED  BY <1>4, <2>1, <2>3, <3>1
  <2> QED  BY <1>10, <2>2, <2>3 DEF Calendar!TokenArrives
<1>11. CASE Calendar!Recovers
  <2> DEFINE e == Calendar!RecoveryFinished("succeeded", "none", "reconciled")
  <2>1. /\ UNCHANGED <<act, landed>> /\ \A q \in wire' : q.mine => q \in wire \/ q.op = act
        /\ Calendar!Emit(<<e>>)
    BY <1>11 DEF Calendar!Recovers, Calendar!Send, Calendar!boundary
  <2>2. e \in Events /\ Tells(e)
    BY EventsEmitted DEF Tells, Calendar!RecoveryFinished, Calendar!Phase
  <2> HIDE DEF e
  <2> QED  BY <1>4, <2>1, <2>2
<1>12. CASE Calendar!FindsNoneOrSeveral \/ Calendar!RecoveryReadFails
  <2>1. PICK o \in {"refused", "ambiguous"} : Calendar!RecoveryRefused(o)
    BY <1>12 DEF Calendar!FindsNoneOrSeveral, Calendar!RecoveryReadFails
  <2> DEFINE e == Calendar!RecoveryFinished(o, "unresolved", "unresolved")
             f == Calendar!Finished("cancel", "refused", "unresolved", "unresolved")
  <2>2. /\ Calendar!Emit(<<e, f>>) /\ act' = "none" /\ UNCHANGED <<wire, landed>>
        /\ act = "cancel" /\ sent[act] = 0
    BY <1>0, <1>12, <2>1
    DEF Calendar!FindsNoneOrSeveral, Calendar!RecoveryReadFails, Calendar!RecoveryRefused, Calendar!Leave, StageInv
  <2>3. e \in Events /\ f \in Events
    BY EventsEmitted
  <2>4. /\ Len(log') = Len(log) + 2 /\ log'[Len(log) + 1] = e /\ log'[Len(log) + 2] = f
        /\ \A k \in 1..Len(log) : log'[k] = log[k]
    <3> HIDE DEF e, f
    <3> QED  BY <1>0, <2>2, <2>3, AppendedTwo
  <2>5. "cancel" \notin landed /\ \A q \in wire : q.mine => q.op # "cancel"
    BY <1>1, <2>2 DEF WireInv
  <2>6. ASSUME NEW k \in 1..(Len(log) + 2), NEW a \in Calendar!Acts, log'[k].phase = Calendar!Phase(a)
        PROVE  /\ log'[k].outcome = "succeeded" => a \in landed
               /\ log'[k].outcome = "refused" => a \notin landed /\ \A q \in wire : q.mine => q.op # a
    <3>1. CASE k \in 1..Len(log)
      BY <1>1, <2>4, <2>6, <3>1 DEF OutcomesInv
    <3>2. CASE k = Len(log) + 1
      BY <2>4, <2>6, <3>2 DEF Calendar!RecoveryFinished, Calendar!Phase
    <3>3. CASE k = Len(log) + 2
      BY <2>4, <2>5, <2>6, <3>3 DEF Calendar!Finished, Calendar!Phase
    <3> QED  BY <1>0, <3>1, <3>2, <3>3
  <2> QED  BY <2>2, <2>4, <2>6 DEF OutcomesInv, Calendar!Phase
<1>13. ASSUME at = "sent", NEW x \in Meetings \union {"done", "inexact", "refused", "failed", "thrown"},
              Calendar!Finish(x), UNCHANGED <<wire, landed>>,
              x \in Meetings \union {"done"} => act \in landed,
              x = "refused" => act \notin landed /\ \A q \in wire : q.mine => q.op # act
       PROVE  OutcomesInv'
  <2>1. PICK m \in {"none", "possible-mutation"} :
          Calendar!Emit(<<Calendar!Finished(act, Calendar!Outcome(x), m, run)>>)
    BY <1>13, FinishIs
  <2> DEFINE e == Calendar!Finished(act, Calendar!Outcome(x), m, run)
  <2>2. act \in Calendar!Acts /\ act' = "none"
    BY <1>0, <1>13, FinishIs DEF StageInv, Calendar!TypeOK
  <2>3. e \in Events
    BY <1>0, <2>2, OutcomeIs, EventsEmitted DEF Calendar!TypeOK
  <2>4. e.outcome = Calendar!Outcome(x) /\ e.phase = Calendar!Phase(act)
    BY DEF Calendar!Finished
  <2>5. Tells(e)
    BY <1>13, <2>2, <2>4, OutcomeIs DEF Tells, Calendar!Phase
  <2> HIDE DEF e
  <2>6. Calendar!Emit(<<e>>)
    BY <2>1 DEF e
  <2> QED  BY <1>4, <1>13, <2>2, <2>3, <2>5, <2>6
<1>14. CASE Calendar!Hears
  BY <1>0, <1>1, <1>13, <1>14 DEF Calendar!Hears, Calendar!TypeOK, StageInv, WireInv
<1>15. CASE Calendar!Lost
  <2>1. "thrown" \in Meetings \union {"done", "inexact", "refused", "failed", "thrown"}
        /\ "thrown" \notin Meetings \union {"done"}
    BY WordsApart
  <2> QED  BY <1>13, <1>15, <2>1 DEF Calendar!Lost
<1>16. ASSUME NEW q \in wire, Calendar!GraphActs(q) \/ Calendar!GraphRefuses(q)
       PROVE  OutcomesInv'
  BY <1>3, <1>16 DEF Calendar!GraphActs, Calendar!GraphRefuses, Calendar!boundary, Calendar!telemetry
<1>17. CASE (\E i \in Meetings : Calendar!UserCancels(i)) \/ Calendar!Tick
  BY <1>3, <1>17 DEF Calendar!UserCancels, Calendar!Tick, Calendar!boundary, Calendar!telemetry
<1>18. CASE Calendar!Restart
  BY <1>18 DEF Calendar!Restart, OutcomesInv
<1> QED  BY <1>5, <1>7, <1>8, <1>9, <1>10, <1>11, <1>12, <1>14, <1>15, <1>16, <1>17, <1>18 DEF Calendar!Next

LEMMA TelemetryNext ==
  ASSUME CalendarInv, TelemetryInv, Calendar!Next \/ UNCHANGED calendarVars
  PROVE  TelemetryInv'
BY WireNext, OutcomesNext, ShapeNext DEF TelemetryInv

LEMMA TwoElements ==
  ASSUME NEW i, NEW j, i # j
  PROVE  Cardinality({i, j}) = 2
<1>1. IsFiniteSet({i}) /\ Cardinality({i}) = 1
  BY FS_Singleton
<1>2. Cardinality({i} \union {j}) = 2
  BY <1>1, FS_AddElement
<1>3. {i, j} = {i} \union {j}
  OBVIOUS
<1> QED  BY <1>2, <1>3

LEMMA Between ==
  ASSUME NEW i \in Nat, NEW m \in Nat
  PROVE  Cardinality((i + 1)..(i + m)) = m
<1>1. i + 1 \in Int /\ i + m \in Int
  OBVIOUS
<1>2. Cardinality((i + 1)..(i + m)) = (IF i + 1 > i + m THEN 0 ELSE (i + m) - (i + 1) + 1)
  BY <1>1, FS_Interval, Zenon
<1> QED  BY <1>2

\* The events of a part of the log, counted.
LEMMA Counted ==
  ASSUME CalendarInv, TelemetryInv, NEW a \in Calendar!Acts
  PROVE  /\ act # a => Cardinality({k \in 1..Len(log) : log[k].phase = Calendar!Phase(a)}) \in {0, 2}
         /\ Cardinality({k \in 1..Len(log) : log[k].op = a}) <= 4
<1>1. PICK c \in 0..2, n \in 0..4 : Shape(c, n)
  BY DEF TelemetryInv
<1> DEFINE phased == {k \in 1..Len(log) : log[k].phase = Calendar!Phase(a)}
           named == {k \in 1..Len(log) : log[k].op = a}
<1>2. at = "recovering" => act = "cancel"
  BY DEF CalendarInv, StageInv
<1>3. CASE a = "create"
  <2>1. phased = 1..c /\ named = 1..c
    BY <1>1, <1>3 DEF Shape, Calendar!Phase
  <2>2. Cardinality(1..c) = c
    BY UpTo
  <2>3. act # "create" => c \in {0, 2}
    BY <1>1 DEF Shape
  <2>4. Cardinality(phased) = c /\ Cardinality(named) = c
    BY <2>1, <2>2
  <2> HIDE DEF phased, named
  <2>5. (act # a => Cardinality(phased) \in {0, 2}) /\ Cardinality(named) <= 4
    BY <1>3, <2>3, <2>4
  <2> QED  BY <2>5 DEF phased, named
<1>4. CASE a = "cancel"
  <2>1. named = (c + 1)..(c + n)
    BY <1>1, <1>4 DEF Shape
  <2>2. Cardinality(named) <= 4
    <3>1. Cardinality((c + 1)..(c + n)) = n
      BY Between
    <3> HIDE DEF named
    <3> QED  BY <2>1, <3>1
  <2>3. ASSUME act # "cancel" PROVE Cardinality(phased) \in {0, 2}
    <3>1. n \in {0, 2, 4} /\ at # "recovering"
      BY <1>1, <1>2, <2>3 DEF Shape
    <3>2. CASE n = 0
      <4>1. phased = {}
        BY <1>1, <1>4, <3>2 DEF Shape, Calendar!Phase
      <4> QED  BY <4>1, FS_EmptySet
    <3>3. CASE n = 2
      <4>1. phased = {c + 1, c + 2}
        BY <1>1, <1>4, <3>1, <3>3 DEF Shape, Calendar!Phase
      <4>2. c + 1 # c + 2
        OBVIOUS
      <4>3. Cardinality({c + 1, c + 2}) = 2
        BY <4>2, TwoElements
      <4> QED  BY <4>1, <4>3
    <3>4. CASE n = 4
      <4>1. phased = {c + 1, c + 4}
        BY <1>1, <1>4, <3>1, <3>4 DEF Shape, Calendar!Phase
      <4>2. c + 1 # c + 4
        OBVIOUS
      <4>3. Cardinality({c + 1, c + 4}) = 2
        BY <4>2, TwoElements
      <4> QED  BY <4>1, <4>3
    <3> QED  BY <3>1, <3>2, <3>3, <3>4
  <2> QED  BY <1>4, <2>2, <2>3
<1> QED  BY <1>3, <1>4 DEF Calendar!Acts

LEMMA SnapshotIsLatest ==
  CalendarInv => Calendar!Snapshot = SubSeq(log, Len(log) - Len(Calendar!Snapshot) + 1, Len(log))
<1> SUFFICES ASSUME CalendarInv
             PROVE  Calendar!Snapshot = SubSeq(log, Len(log) - Len(Calendar!Snapshot) + 1, Len(log))
  OBVIOUS
<1> DEFINE fresh == Calendar!Pruned(collected)
           first == IF Len(fresh) > MaxRead THEN Len(fresh) - MaxRead + 1 ELSE 1
           kept == SubSeq(fresh, first, Len(fresh))
<1>1. log \in Seq(Events) /\ fresh \in Seq(Entries) /\ Suffix(fresh, log)
  BY PrunedIsSuffix DEF CalendarInv, CollectorInv
<1>2. Calendar!Snapshot = [k \in 1..Len(kept) |-> kept[k].event]
  BY DEF Calendar!Snapshot
<1>3. MaxRead \in Nat
  BY OperationsAssumption
<1> HIDE DEF fresh
<1>4. first \in 1..(Len(fresh) + 1)
  BY <1>1, <1>3, LenProperties
<1> HIDE DEF first
<1>5. kept \in Seq(Entries) /\ Suffix(kept, log)
  BY <1>1, <1>4, SuffixOfSuffix
<1> HIDE DEF kept
<1> DEFINE snapshot == [k \in 1..Len(kept) |-> kept[k].event]
           latest == SubSeq(log, Len(log) - Len(kept) + 1, Len(log))
<1>6. Len(kept) \in Nat /\ Len(log) \in Nat /\ Len(kept) <= Len(log)
  BY <1>1, <1>5, LenProperties DEF Suffix
<1>7. snapshot \in Seq(Events) /\ Len(snapshot) = Len(kept)
      /\ \A k \in 1..Len(kept) : snapshot[k] = log[Len(log) - Len(kept) + k]
  <2>1. \A k \in 1..Len(kept) : kept[k].event \in Events
    <3>1. \A k \in 1..Len(kept) : kept[k] \in Entries
      BY <1>5, ElementOfSeq
    <3> QED  BY <3>1 DEF Entries
  <2> QED  BY <1>5, <1>6, <2>1 DEF Suffix
<1>8. latest \in Seq(Events) /\ Len(latest) = Len(kept)
      /\ \A k \in 1..Len(kept) : latest[k] = log[Len(log) - Len(kept) + k]
  <2>1. \A i \in (Len(log) - Len(kept) + 1)..Len(log) : log[i] \in Events
    BY <1>1, <1>6, ElementOfSeq
  <2>2. /\ SubSeq(log, Len(log) - Len(kept) + 1, Len(log)) \in Seq(Events)
        /\ Len(latest) = (IF Len(log) - Len(kept) + 1 <= Len(log)
                          THEN Len(log) - (Len(log) - Len(kept) + 1) + 1 ELSE 0)
        /\ \A k \in 1..(Len(log) - (Len(log) - Len(kept) + 1) + 1) :
             latest[k] = log[Len(log) - Len(kept) + 1 + k - 1]
    BY <1>6, <2>1, SubSeqProperties
  <2> QED  BY <1>6, <2>2
<1> HIDE DEF snapshot, latest
<1>9. snapshot = latest
  BY <1>7, <1>8, SeqEqual
<1> QED  BY <1>2, <1>7, <1>9 DEF snapshot, latest

LEMMA TelemetryTrue == CalendarInv /\ TelemetryInv => Calendar!TelemetryTruthful
<1> SUFFICES ASSUME CalendarInv, TelemetryInv PROVE Calendar!TelemetryTruthful
  OBVIOUS
<1>1. ASSUME NEW a \in Calendar!Acts
      PROVE  /\ Calendar!Terminal(a, "succeeded") => a \in landed
             /\ Calendar!Terminal(a, "refused") => a \notin landed /\ \A q \in wire : q.mine => q.op # a
  BY DEF TelemetryInv, OutcomesInv, Calendar!Terminal
<1>2. ASSUME NEW a \in Calendar!Acts
      PROVE  /\ act # a => Calendar!Cardinality({k \in 1..Len(log) : log[k].phase = Calendar!Phase(a)}) \in {0, 2}
             /\ Calendar!Cardinality({k \in 1..Len(log) : log[k].op = a}) <= 4
  BY Counted, SameCardinality
<1> QED  BY <1>1, <1>2, SnapshotIsLatest DEF Calendar!TelemetryTruthful

LEMMA SendingStarts == Init => MailInv /\ CalendarInv
<1> SUFFICES ASSUME Init PROVE MailInv /\ CalendarInv
  OBVIOUS
<1>1. MailInv
  BY DEF Init, Mail!Init, MailInv, Mail!TypeOK, Busy
<1>2. CollectorInv
  BY DEF Init, Calendar!Init, CollectorInv, Suffix
<1>3. Calendar!TypeOK
  BY OperationsAssumption DEF Init, Calendar!Init, Calendar!TypeOK, Calendar!Acts, Calendar!Stages, Calendar!NoMeeting
<1>4. StageInv
  BY WordsApart DEF Init, Calendar!Init, StageInv, Calendar!Acts
<1> QED  BY <1>1, <1>2, <1>3, <1>4 DEF CalendarInv

LEMMA TelemetryStarts == Init => TelemetryInv
<1> SUFFICES ASSUME Init PROVE TelemetryInv
  OBVIOUS
<1>1. Shape(0, 0)
  BY DEF Init, Calendar!Init, Shape
<1>2. WireInv /\ OutcomesInv
  BY DEF Init, Calendar!Init, WireInv, OutcomesInv
<1> QED  BY <1>1, <1>2 DEF TelemetryInv

\* The state of the help desk and the stage of the calendar's boundary tell what
\* was sent and what became of it, so that neither sends again after an outcome it
\* does not know (helpDeskScenarioState and its in-flight guard,
\* ProcessLocalCalendarMeetingBoundary).
THEOREM SendingKnown == Spec => []KnowsWhatWasSent
<1>1. MailInv /\ CalendarInv /\ [Next]_apiVars => (MailInv /\ CalendarInv)'
  BY EachSteps, MailNext, CalendarNext
<1>2. MailInv /\ CalendarInv => KnowsWhatWasSent
  BY MailKnown, CalendarKnown DEF KnowsWhatWasSent
<1> QED  BY SendingStarts, <1>1, <1>2, PTL DEF Spec

\* What the telemetry of a meeting records as succeeded took effect, what it records
\* as refused did not and never will, a finished act has one start and one end, and
\* an operator reads the latest part of it (OperationTelemetryRun, the collector).
THEOREM TelemetryIsTrue == Spec => []TelemetryTruthful
<1>1. CalendarInv /\ TelemetryInv /\ [Next]_apiVars => (CalendarInv /\ TelemetryInv)'
  BY EachSteps, CalendarNext, TelemetryNext
<1>2. CalendarInv /\ TelemetryInv => TelemetryTruthful
  BY TelemetryTrue DEF TelemetryTruthful
<1>3. Init => CalendarInv /\ TelemetryInv
  BY SendingStarts, TelemetryStarts
<1> QED  BY <1>1, <1>2, <1>3, PTL DEF Spec

-----------------------------------------------------------------------------
\* The token provider.

TokensInv == Tokens!TypeOK /\ Tokens!TokenForOwnScope

\* A scope is not a word of the provider.
LEMMA ScopesApart == "none" \notin Scopes /\ "failed" \notin Scopes
BY OperationsAssumption

\* Whoever is told something is told it of its own scope, and waits no more; the
\* acquisitions that others wait for go on.
LEMMA TellKeeps ==
  ASSUME TokensInv, NEW ends \in [Scopes -> Scopes \union {"none", "failed"}],
         \A s \in Scopes : ends[s] \in {s, "none", "failed"},
         Tokens!Tell(ends),
         acquisition' \in [Scopes -> {"none", "silent", "checking", "joined"}],
         \A s \in Scopes : acquisition[s] # "none" /\ ends[s] = "none" => acquisition'[s] # "none"
  PROVE  /\ asks' \in [Callers -> Scopes \union {Tokens!NoScope}]
         /\ got' \in [Callers -> [asked : Scopes \union {Tokens!NoScope},
                                 told : Scopes \union {Tokens!NoScope, "failed"}]]
         /\ Tokens!TokenForOwnScope'
<1> USE DEF Tokens!NoScope
<1>1. ASSUME NEW c \in Callers
      PROVE  /\ asks'[c] \in Scopes \union {"none"}
             /\ got'[c] \in [asked : Scopes \union {"none"}, told : Scopes \union {"none", "failed"}]
             /\ got'[c].told \in {got'[c].asked, "failed"}
             /\ asks'[c] # "none" => acquisition'[asks'[c]] # "none"
  <2>1. /\ asks[c] \in Scopes \union {"none"}
        /\ got[c] \in [asked : Scopes \union {"none"}, told : Scopes \union {"none", "failed"}]
        /\ got[c].told \in {got[c].asked, "failed"}
        /\ asks[c] # "none" => acquisition[asks[c]] # "none"
    BY DEF TokensInv, Tokens!TypeOK, Tokens!TokenForOwnScope
  <2>2. CASE asks[c] # "none" /\ ends[asks[c]] # "none"
    <3>1. asks'[c] = "none" /\ got'[c] = [asked |-> asks[c], told |-> ends[asks[c]]]
      BY <2>2 DEF Tokens!Tell
    <3>2. asks[c] \in Scopes /\ ends[asks[c]] \in {asks[c], "failed"}
      BY <2>1, <2>2
    <3> QED  BY <3>1, <3>2
  <2>3. CASE ~(asks[c] # "none" /\ ends[asks[c]] # "none")
    <3>1. asks'[c] = asks[c] /\ got'[c] = got[c]
      BY <2>3 DEF Tokens!Tell
    <3> QED  BY <2>1, <2>3, <3>1
  <2> QED  BY <2>2, <2>3
<1>2. asks' = [c \in Callers |-> asks'[c]] /\ got' = [c \in Callers |-> got'[c]]
  BY DEF Tokens!Tell
<1> QED  BY <1>1, <1>2 DEF Tokens!TokenForOwnScope

LEMMA EndsKeeps ==
  ASSUME TokensInv, NEW s \in Scopes, NEW x \in {s, "failed"}, Tokens!Ends(s, x)
  PROVE  /\ asks' \in [Callers -> Scopes \union {Tokens!NoScope}]
         /\ got' \in [Callers -> [asked : Scopes \union {Tokens!NoScope},
                                 told : Scopes \union {Tokens!NoScope, "failed"}]]
         /\ acquisition' \in [Scopes -> {"none", "silent", "checking", "joined"}]
         /\ Tokens!TokenForOwnScope'
<1> DEFINE ends == [r \in Scopes |-> IF r = s THEN x ELSE "none"]
<1>1. ends \in [Scopes -> Scopes \union {"none", "failed"}]
      /\ \A r \in Scopes : ends[r] \in {r, "none", "failed"}
  OBVIOUS
<1>2. acquisition' = [acquisition EXCEPT ![s] = "none"] /\ Tokens!Tell(ends)
  BY DEF Tokens!Ends, Tokens!Removed, Tokens!NoScope
<1>3. acquisition' \in [Scopes -> {"none", "silent", "checking", "joined"}]
  BY <1>2 DEF TokensInv, Tokens!TypeOK
<1>4. \A r \in Scopes : acquisition[r] # "none" /\ ends[r] = "none" => acquisition'[r] # "none"
  BY <1>2, ScopesApart DEF TokensInv, Tokens!TypeOK
<1> HIDE DEF ends
<1> QED  BY <1>1, <1>2, <1>3, <1>4, TellKeeps

LEMMA TokensNext ==
  ASSUME TokensInv, Tokens!Next \/ UNCHANGED tokenVars
  PROVE  TokensInv'
<1> USE DEF Tokens!NoScope, Tokens!PageParts
<1>0. MaxAsks \in Nat
  BY OperationsAssumption
<1>1. CASE UNCHANGED tokenVars
  BY <1>1 DEF tokenVars, TokensInv, Tokens!TypeOK, Tokens!TokenForOwnScope
<1>2. ASSUME NEW c \in Callers, Tokens!Refuses(c)
      PROVE  TokensInv'
  BY <1>2 DEF TokensInv, Tokens!TypeOK, Tokens!TokenForOwnScope, Tokens!Refuses
<1>3. ASSUME NEW c \in Callers, NEW s \in Scopes, Tokens!GetToken(c, s)
      PROVE  TokensInv'
  <2>1. /\ asks[c] = "none" /\ asks' = [asks EXCEPT ![c] = s] /\ UNCHANGED <<got, account>>
        /\ asked' \in 0..MaxAsks
    BY <1>0, <1>3 DEF Tokens!GetToken, TokensInv, Tokens!TypeOK
  <2>2. /\ acquisition' \in [Scopes -> {"none", "silent", "checking", "joined"}]
        /\ acquisition'[s] # "none" /\ \A r \in Scopes : acquisition[r] # "none" => acquisition'[r] # "none"
        /\ signIn' \in {"none", "browser", "code", "checking"} /\ signInScope' \in Scopes \union {"none"}
        /\ handled' \subseteq Tokens!PageParts
    BY <1>3 DEF Tokens!GetToken, Tokens!Joins, TokensInv, Tokens!TypeOK
  <2>3. \A d \in Callers : asks'[d] # "none" => acquisition'[asks'[d]] # "none"
    BY <2>1, <2>2 DEF TokensInv, Tokens!TypeOK, Tokens!TokenForOwnScope
  <2> QED  BY <2>1, <2>2, <2>3 DEF TokensInv, Tokens!TypeOK, Tokens!TokenForOwnScope
<1>4. ASSUME NEW s \in Scopes, Tokens!SilentAnswers(s)
      PROVE  TokensInv'
  <2>1. CASE Tokens!Ends(s, "failed") /\ UNCHANGED <<signIn, signInScope, handled>>
    BY <1>4, <2>1, EndsKeeps DEF TokensInv, Tokens!TypeOK, Tokens!SilentAnswers
  <2>2. CASE /\ acquisition' = [acquisition EXCEPT ![s] = "checking"]
             /\ UNCHANGED <<asks, got, signIn, signInScope, handled>>
    BY <1>4, <2>2 DEF TokensInv, Tokens!TypeOK, Tokens!TokenForOwnScope, Tokens!SilentAnswers
  <2>3. CASE Tokens!Joins(s) /\ UNCHANGED <<asks, got>>
    BY <1>4, <2>3 DEF TokensInv, Tokens!TypeOK, Tokens!TokenForOwnScope, Tokens!SilentAnswers, Tokens!Joins
  <2> QED  BY <1>4, <2>1, <2>2, <2>3 DEF Tokens!SilentAnswers
<1>5. ASSUME NEW s \in Scopes, Tokens!SilentChecked(s)
      PROVE  TokensInv'
  BY <1>5, EndsKeeps DEF TokensInv, Tokens!TypeOK, Tokens!SilentChecked
<1>6. ASSUME NEW ok \in BOOLEAN, Tokens!SignInEnds(ok)
      PROVE  TokensInv'
  <2> DEFINE ends == [s \in Scopes |->
               IF acquisition[s] = "joined" THEN Tokens!AfterSignIn(s, ok) ELSE "none"]
  <2>1. /\ signIn' = "none" /\ signInScope' = "none" /\ handled' = {} /\ account' = (account \/ ok)
        /\ acquisition' = [s \in Scopes |->
             IF acquisition[s] # "joined" THEN acquisition[s]
             ELSE IF ends[s] = "none" THEN "silent" ELSE "none"]
        /\ Tokens!Tell(ends) /\ UNCHANGED asked
    BY <1>6 DEF Tokens!SignInEnds, Tokens!Removed
  <2>2. \A s \in Scopes : Tokens!AfterSignIn(s, ok) \in {s, "none", "failed"}
    BY DEF Tokens!AfterSignIn
  <2>3. ends \in [Scopes -> Scopes \union {"none", "failed"}]
        /\ \A s \in Scopes : ends[s] \in {s, "none", "failed"}
    BY <2>2
  <2> HIDE DEF ends
  <2>4. acquisition' \in [Scopes -> {"none", "silent", "checking", "joined"}]
        /\ \A s \in Scopes : acquisition[s] # "none" /\ ends[s] = "none" => acquisition'[s] # "none"
    BY <2>1 DEF TokensInv, Tokens!TypeOK
  <2>5. /\ asks' \in [Callers -> Scopes \union {Tokens!NoScope}]
        /\ got' \in [Callers -> [asked : Scopes \union {Tokens!NoScope},
                                told : Scopes \union {Tokens!NoScope, "failed"}]]
        /\ Tokens!TokenForOwnScope'
    BY <2>1, <2>3, <2>4, TellKeeps
  <2> QED  BY <2>1, <2>4, <2>5 DEF TokensInv, Tokens!TypeOK
<1>7. CASE Tokens!SignInPage
  BY <1>6, <1>7 DEF Tokens!SignInPage, TokensInv, Tokens!TypeOK, Tokens!TokenForOwnScope
<1>8. CASE Tokens!CodeRedeemed
  BY <1>6, <1>8 DEF Tokens!CodeRedeemed, TokensInv, Tokens!TypeOK, Tokens!TokenForOwnScope
<1>9. CASE Tokens!SignInChecked
  BY <1>6, <1>9 DEF Tokens!SignInChecked
<1> QED  BY <1>1, <1>2, <1>3, <1>4, <1>5, <1>7, <1>8, <1>9 DEF Tokens!Next

LEMMA TokensStart == Init => TokensInv
<1> SUFFICES ASSUME Init PROVE TokensInv
  OBVIOUS
<1>1. Tokens!Init /\ MaxAsks \in Nat
  BY OperationsAssumption DEF Init
<1>4. [asked |-> "none", told |-> "none"]
        \in [asked : Scopes \union {"none"}, told : Scopes \union {"none", "failed"}]
  OBVIOUS
<1>5. got = [c \in Callers |-> [asked |-> "none", told |-> "none"]]
  BY <1>1 DEF Tokens!Init, Tokens!NoScope, Tokens!NoAnswer
<1>6. got \in [Callers -> [asked : Scopes \union {"none"}, told : Scopes \union {"none", "failed"}]]
  BY <1>4, <1>5, Zenon
<1>7. /\ asks \in [Callers -> Scopes \union {"none"}]
      /\ acquisition \in [Scopes -> {"none", "silent", "checking", "joined"}]
  BY <1>1 DEF Tokens!Init, Tokens!NoScope
<1>8. /\ signIn = "none" /\ signInScope = "none" /\ handled = {} /\ account = FALSE /\ asked \in 0..MaxAsks
  BY <1>1 DEF Tokens!Init, Tokens!NoScope
<1>2. Tokens!TypeOK
  BY <1>6, <1>7, <1>8 DEF Tokens!TypeOK, Tokens!NoScope
<1>3. Tokens!TokenForOwnScope
  BY <1>1 DEF Tokens!Init, Tokens!TokenForOwnScope, Tokens!NoScope, Tokens!NoAnswer
<1> QED  BY <1>2, <1>3 DEF TokensInv

\* Whoever shares an acquisition or a sign-in with others gets a token for the scope
\* it asked for, and nobody waits for an acquisition that is over
\* (#acquireAccessToken, #acquisitions).
THEOREM TokensAreOwn == Spec => []TokenForOwnScope
<1>1. TokensInv /\ [Next]_apiVars => TokensInv'
  BY EachSteps, TokensNext
<1>2. TokensInv => TokenForOwnScope
  BY DEF TokensInv, TokenForOwnScope
<1> QED  BY TokensStart, <1>1, <1>2, PTL DEF Spec

=============================================================================
