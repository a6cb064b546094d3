---------------------------- MODULE CallingCanary ----------------------------
(***************************************************************************)
(* The Teams calling canary (teams-calling-bot/call-canary.ts): it places  *)
(* one call, waits for it to end or for its window to close, hangs up at   *)
(* most once, and writes what it does to an exclusive journal              *)
(* (teams-calling-bot/journal.ts).  Three activities interleave at their   *)
(* awaits: the run, the one hang-up, and the callbacks Graph delivers.     *)
(* CallingBot composes the canary with the process that hosts it.          *)
(***************************************************************************)
EXTENDS Naturals, Sequences, FiniteSets

CONSTANTS
  Ours, Strays, NoCall, \* the call the bot may place, other calls of its application
  Ranks,                \* the call states that callbacks tell apart, by rank
  Bodies,               \* the envelopes one state may be reported in
  MayFail,              \* TRUE: a write to the journal may fail
  MaxLeft               \* bound: appends that throw with their line on file

Over == 5               \* the rank of "terminated"; 1 is "establishing"

ASSUME CanaryAssumption ==
  /\ NoCall # Ours /\ NoCall \notin Strays /\ Ours \notin Strays
  /\ Ranks \subseteq 1..Over /\ {1, Over} \subseteq Ranks
  /\ MayFail \in BOOLEAN /\ MaxLeft \in Nat

Calls == Strays \union {Ours}

VARIABLES
  file, closed,                    \* the journal: its entries, its descriptor
  left,                            \* history: the lines whose append threw all the same
  pc, outcome, shutdown, attempted, deadline, callId, heard, digests, \* the run
  hangup,                          \* the one hang-up
  phase, wire, reply,              \* Graph: its calls, requests under way, an answer to the POST
  posts, deletes                   \* how many requests were ever sent

journal == <<file, closed, left>>
canary == <<pc, outcome, shutdown, attempted, deadline, callId, heard, digests, hangup>>
graph == <<phase, wire, reply, posts, deletes>>

-----------------------------------------------------------------------------
\* The journal.  An append throws once the descriptor is closed, and may throw
\* when its write fails, or when its line is written and the flush fails.

Entry(p, s) == [phase |-> p, state |-> s, call |-> NoCall, rank |-> 0, body |-> 0]
CallbackEntry(k, r, b) ==
  [phase |-> "callback", state |-> "", call |-> k, rank |-> r, body |-> b]

Logged(e) == \E i \in 1..Len(file) : file[i] = e

Log(entries) == file' = file \o entries /\ UNCHANGED <<closed, left>>

Throws == closed \/ MayFail

LeavesLine == ~closed /\ MayFail /\ Cardinality(left) < MaxLeft

\* After the given entries the append of e throws, with or without its line on file.
LogThrows(entries, e) ==
  \/ Throws /\ Log(entries)
  \/ /\ LeavesLine /\ file' = file \o (entries \o <<e>>)
     /\ left' = left \union {Len(file')} /\ UNCHANGED closed

\* Faulty variant: the file is opened for appending, whoever created it.
OpenAny ==
  file' = Append(file, Entry("opened", "")) /\ closed' = FALSE /\ UNCHANGED left

\* The exclusive create of the file, and its first entry.
Open ==
  file = <<>> /\ file' = <<Entry("opened", "")>> /\ closed' = FALSE /\ UNCHANGED left

\* The file is there, and then opening it throws.
OpenThrows ==
  /\ file = <<>> /\ MayFail /\ MaxLeft > 0
  /\ file' = <<Entry("opened", "")>> /\ left' = {1} /\ UNCHANGED closed

-----------------------------------------------------------------------------
\* The run

\* The run's body returns, or throws and is caught, with this outcome.
Give(o) == pc' = "finishing" /\ outcome' = o

EndedOr(o) == IF heard = Over THEN "ended" ELSE o

\* Faulty variants: whatever is thrown, nothing was placed; no outcome is set.
CaughtRefused == "refused"
CaughtUnset == ""

Caught == IF attempted THEN "uncertain" ELSE "refused"

\* The outcome is logged; if that throws, the run rejects.
Complete ==
  /\ pc = "finishing"
  /\ \/ ~closed /\ Log(<<Entry("complete", outcome)>>) /\ pc' = "done"
     \/ LogThrows(<<>>, Entry("complete", outcome)) /\ pc' = "failed"
  /\ UNCHANGED <<outcome, shutdown, attempted, deadline, callId, heard, digests,
                 hangup, graph>>

HangupShared == hangup # "none"

\* Faulty variant: a hang-up is sent although it could not be logged.
HangUpUnlogged(k, entries) ==
  /\ \/ ~closed /\ Log(entries \o <<Entry("hangup-attempting", "")>>)
     \/ LogThrows(entries, Entry("hangup-attempting", ""))
  /\ hangup' = "deleting" /\ deletes' = deletes + 1
  /\ wire' = wire \union {<<"delete", k>>}

\* After the given entries the hang-up starts: it is logged, then sent.
HangUp(k, entries) ==
  \/ /\ ~closed /\ Log(entries \o <<Entry("hangup-attempting", "")>>)
     /\ hangup' = "deleting" /\ deletes' = deletes + 1
     /\ wire' = wire \union {<<"delete", k>>}
  \/ /\ LogThrows(entries, Entry("hangup-attempting", "")) /\ hangup' = "failed"
     /\ UNCHANGED <<deletes, wire>>

NoHangup(entries) == Log(entries) /\ UNCHANGED <<hangup, deletes, wire>>

\* The run waits for the hang-up, its own or one a callback started.
HangUpAndFinish(k, entries) ==
  /\ pc' = "hanging" /\ UNCHANGED outcome
  /\ \/ HangupShared /\ NoHangup(entries)
     \/ ~HangupShared /\ HangUp(k, entries)

\* The call is known, and the run has the given entries to log first.
Proceed(k, entries) ==
  \/ heard = Over /\ Give("ended") /\ NoHangup(entries)
  \/ heard # Over /\ shutdown /\ HangUpAndFinish(k, entries)
  \/ /\ heard # Over /\ ~shutdown /\ pc' = "ringing" /\ UNCHANGED outcome
     /\ NoHangup(entries)

\* The attempt is logged and the call request sent.
Attempt ==
  /\ \/ /\ ~closed /\ Log(<<Entry("attempting", "creating")>>)
        /\ attempted' = TRUE /\ pc' = "creating" /\ UNCHANGED outcome
        /\ wire' = wire \union {<<"post", Ours>>} /\ posts' = posts + 1
     \/ /\ LogThrows(<<>>, Entry("attempting", "creating")) /\ Give(Caught)
        /\ UNCHANGED <<attempted, wire, posts>>
  /\ UNCHANGED <<shutdown, deadline, callId, heard, digests, hangup, phase, reply, deletes>>

\* Faulty variant: a shutdown during token acquisition goes unnoticed.
TokenUnchecked == pc = "token" /\ Attempt

TokenArrives == pc = "token" /\ ~shutdown /\ Attempt

\* No token comes, or it comes after a shutdown.
TokenRefused ==
  /\ pc = "token" /\ Give("refused")
  /\ UNCHANGED <<journal, shutdown, attempted, deadline, callId, heard, digests,
                 hangup, graph>>

\* Faulty variant: an id that contradicts the callbacks replaces theirs.
BindsAny == TRUE

Binds == callId \in {NoCall, Ours}

CreateConfirmed ==
  /\ pc = "creating" /\ reply = "created" /\ reply' = "none"
  /\ callId' = IF Binds THEN Ours ELSE callId
  /\ \/ Binds /\ ~closed /\ Proceed(Ours, <<Entry("create-result", "active")>>)
     \/ ~Binds /\ Give(Caught) /\ NoHangup(<<>>)
     \/ /\ Binds /\ LogThrows(<<>>, Entry("create-result", "active")) /\ Give(Caught)
        /\ UNCHANGED <<hangup, deletes, wire>>
  /\ UNCHANGED <<shutdown, attempted, deadline, heard, digests, phase, posts>>

\* The answer is logged as what it means; a throw is caught.
CreateLogs(state, Then) ==
  /\ \/ ~closed /\ Log(<<Entry("create-result", state)>>) /\ Then
     \/ LogThrows(<<>>, Entry("create-result", state)) /\ Give(Caught)
  /\ reply' = "none"
  /\ UNCHANGED <<shutdown, attempted, deadline, callId, heard, digests, hangup,
                 phase, wire, posts, deletes>>

CreateRefused ==
  pc = "creating" /\ reply = "refused" /\ CreateLogs("refused", Give("refused"))

\* No answer in time, or one that leaves open whether the call was placed.
CreateUncertain ==
  pc = "creating" /\ CreateLogs("uncertain", pc' = "identifying" /\ UNCHANGED outcome)

\* The wait for a callback to tell the call's id ends.
Identify ==
  /\ pc = "identifying"
  /\ \/ callId # NoCall /\ Proceed(callId, <<>>)
     \/ callId = NoCall /\ deadline /\ Give("uncertain") /\ NoHangup(<<>>)
  /\ UNCHANGED <<shutdown, attempted, deadline, callId, heard, digests, phase, reply, posts>>

\* The wait for the call to end, the window to close or a shutdown ends.
Ring ==
  /\ pc = "ringing"
  /\ \/ heard = Over /\ Give("ended") /\ NoHangup(<<>>)
     \/ heard # Over /\ (deadline \/ shutdown) /\ HangUpAndFinish(callId, <<>>)
  /\ UNCHANGED <<shutdown, attempted, deadline, callId, heard, digests, phase, reply, posts>>

HangupReturns ==
  /\ pc = "hanging"
  /\ \/ hangup = "settled" /\ ~shutdown /\ pc' = "ending" /\ UNCHANGED outcome
     \/ hangup = "settled" /\ shutdown /\ Give(EndedOr("uncertain"))
     \/ hangup = "failed" /\ Give(Caught)
  /\ UNCHANGED <<journal, shutdown, attempted, deadline, callId, heard, digests,
                 hangup, graph>>

\* Faulty variant: the wait for the terminal callback has no limit.
EndUnbounded ==
  /\ pc = "ending" /\ heard = Over /\ Give("ended")
  /\ UNCHANGED <<journal, shutdown, attempted, deadline, callId, heard, digests,
                 hangup, graph>>

\* The wait for the terminal callback ends: it came, or its window closed.
End ==
  /\ pc = "ending" /\ Give(EndedOr("uncertain"))
  /\ UNCHANGED <<journal, shutdown, attempted, deadline, callId, heard, digests,
                 hangup, graph>>

WindowCloses ==
  /\ attempted /\ ~deadline /\ deadline' = TRUE
  /\ UNCHANGED <<journal, pc, outcome, shutdown, attempted, callId, heard, digests,
                 hangup, graph>>

-----------------------------------------------------------------------------
\* The hang-up, once sent.  An answer that leaves its effect open is followed
\* by one read of the call, whatever that says.

HangupLogs(state, next) ==
  /\ \/ ~closed /\ Log(<<Entry(state, "")>>) /\ hangup' = next
     \/ LogThrows(<<>>, Entry(state, "")) /\ hangup' = "failed"
  /\ UNCHANGED <<pc, outcome, shutdown, attempted, deadline, callId, heard, digests, graph>>

HangupAnswered ==
  /\ hangup = "deleting" /\ <<"delete", callId>> \notin wire
  /\ HangupLogs("hangup-result", "settled")

HangupUncertain ==
  hangup = "deleting" /\ HangupLogs("hangup-result", "observing")

HangupObserved ==
  hangup = "observing" /\ HangupLogs("hangup-observation", "settled")

-----------------------------------------------------------------------------
\* Callbacks

\* Faulty variant: a callback may be older than what was heard before.
AcceptsBackwards(k, r, b) ==
  attempted /\ <<k, r, b>> \notin digests /\ callId \in {NoCall, k}

Accepts(k, r, b) ==
  attempted /\ <<k, r, b>> \notin digests /\ callId \in {NoCall, k} /\ r >= heard

\* Faulty variant: nothing is hung up once the run is over.
LateUnlessDone(r) == r # Over /\ deadline /\ pc # "done"

Late(r) == r # Over /\ deadline

\* A notification, in envelope b, that call k reached state r.  It is accepted,
\* and so logged, before it is believed; any other changes nothing.
Callback(k, r, b) ==
  /\ r <= phase[k] /\ Accepts(k, r, b) /\ ~closed
  /\ digests' = digests \union {<<k, r, b>>}
  /\ callId' = k /\ heard' = r
  /\ \/ Late(r) /\ ~HangupShared /\ HangUp(k, <<CallbackEntry(k, r, b)>>)
     \/ (~Late(r) \/ HangupShared) /\ NoHangup(<<CallbackEntry(k, r, b)>>)
  /\ UNCHANGED <<pc, outcome, shutdown, attempted, deadline, phase, reply, posts>>

\* The append of an accepted callback throws: Graph is answered with an error, and
\* the canary has not heard of it, whatever the file says.
CallbackThrows(k, r, b) ==
  /\ r <= phase[k] /\ Accepts(k, r, b)
  /\ LogThrows(<<>>, CallbackEntry(k, r, b))
  /\ UNCHANGED <<canary, graph>>

-----------------------------------------------------------------------------
\* Graph, as the canary uses it.  Requests may take effect long after the
\* canary stopped waiting for them, and answers may be lost.

Places ==
  /\ <<"post", Ours>> \in wire /\ wire' = wire \ {<<"post", Ours>>}
  /\ phase' = [phase EXCEPT ![Ours] = IF @ = 0 THEN 1 ELSE @]
  /\ reply' \in IF pc = "creating" THEN {"none", "created"} ELSE {reply}
  /\ UNCHANGED <<journal, canary, posts, deletes>>

Declines ==
  /\ <<"post", Ours>> \in wire /\ wire' = wire \ {<<"post", Ours>>}
  /\ reply' \in IF pc = "creating" THEN {"none", "refused"} ELSE {reply}
  /\ UNCHANGED <<journal, canary, phase, posts, deletes>>

\* The callee, or Graph, moves a call on.
Advances(k) ==
  /\ phase[k] > 0
  /\ \E r \in Ranks : r > phase[k] /\ phase' = [phase EXCEPT ![k] = r]
  /\ UNCHANGED <<journal, canary, wire, reply, posts, deletes>>

\* A hang-up takes effect, or has none.
Deletes(k) ==
  /\ <<"delete", k>> \in wire /\ wire' = wire \ {<<"delete", k>>}
  /\ phase' \in {phase, [phase EXCEPT ![k] = IF @ = 0 THEN 0 ELSE Over]}
  /\ UNCHANGED <<journal, canary, reply, posts, deletes>>

-----------------------------------------------------------------------------
NewCanary ==
  /\ outcome' = "" /\ shutdown' = FALSE /\ attempted' = FALSE /\ deadline' = FALSE
  /\ callId' = NoCall /\ heard' = 0 /\ digests' = {} /\ hangup' = "none"

\* What the run does after its token came: every wait there has a timeout.
RunOn ==
  \/ CreateConfirmed \/ CreateRefused \/ CreateUncertain
  \/ Identify \/ Ring \/ HangupReturns \/ End \/ Complete

Run == TokenArrives \/ TokenRefused \/ RunOn

HangupStep == HangupAnswered \/ HangupUncertain \/ HangupObserved

Graph ==
  \/ Places \/ Declines
  \/ \E k \in Calls : Advances(k) \/ Deletes(k)
=============================================================================
