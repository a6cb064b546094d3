-------------------------- MODULE CallingBotProofs --------------------------
(* The inductive invariant of CallingBot and the theorems it gives. *)
EXTENDS CallingBot, TLAPS

-----------------------------------------------------------------------------
\* The inductive invariant

Active == Entry("create-result", "active")
Running == {"creating", "identifying", "ringing", "hanging", "ending"}
Over3 == {"finishing", "done", "failed"}

\* The call was not placed, and no request that could place it is under way.
Unplaced == phase[Ours] = 0 /\ <<"post", Ours>> \notin wire

\* How far the one run of a file got: requests come only after its first entry,
\* and a request is sent only from the state that precedes it.
RunOK ==
  /\ file = <<>> => posts = 0 /\ deletes = 0 /\ pc = "off"
  /\ pc = "off" => ~attempted
  /\ pc = "token" =>
       /\ file = <<Entry("opened", "")>> /\ posts = 0 /\ deletes = 0
       /\ ~attempted /\ hangup = "none" /\ callId = NoCall /\ heard = 0
  /\ pc \in Running => attempted
  /\ attempted /\ hangup = "none" => deletes = 0
  /\ hangup # "none" => attempted
  /\ reply # "none" => pc = "creating"
  /\ outcome # "" => pc \in Over3
  /\ pc = "finishing" => outcome # ""
  /\ pc \in {"ringing", "hanging", "ending"} => callId \in Calls

\* What the signal to stop has told the run.
StopOK == pc = "token" => stage = "up" \/ shutdown

RefusedOK ==
  /\ posts = 0 => Unplaced
  /\ <<"post", Ours>> \in wire => phase[Ours] = 0
  /\ reply = "refused" => Unplaced
  /\ outcome = "refused" => Unplaced
  /\ RefusedPlacedNothing

EndedOK ==
  /\ heard = Over => callId \in Calls /\ phase[callId] = Over
  /\ outcome = "ended" => heard = Over
  /\ Logged(Active) /\ pc # "off" => callId = Ours
  /\ pc \in Running \union {"finishing"} => ~Logged(Entry("complete", "ended"))
  /\ EndedIsOver

\* Every callback it accepted is on record as the canary remembers it.
Remembered(e) ==
  e.phase = "callback" =>
    e.call \in Calls /\ callId = e.call /\ e.rank <= heard /\ <<e.call, e.rank, e.body>> \in digests

RecordOK ==
  /\ pc # "off" => \A i \in 1..Len(file) : i \notin left => Remembered(file[i])
  /\ CallbacksTellOneCall

IInv ==
  TypeOK /\ RunOK /\ StopOK /\ OneCallOneHangup /\ AttemptsOnRecord
  /\ RefusedOK /\ EndedOK /\ RecordOK

-----------------------------------------------------------------------------
\* What an append does to the file

\* The file is typed, and holds what it held and the entries of E, of which
\* only the first can be a callback.
Adds(E) ==
  /\ file' \in Seq(Entries)
  /\ file' = <<>> => file = <<>> /\ E = {}
  /\ \A x : Logged(x)' <=> Logged(x) \/ x \in E
  /\ \A j \in 1..Len(file') : file'[j].phase = "callback" =>
       \/ j \in 1..Len(file) /\ file'[j] = file[j]
       \/ j = Len(file) + 1 /\ file'[j] \in E
  /\ left \subseteq left'
  /\ left \subseteq 1..Len(file) => left' \subseteq 1..Len(file')

\* Appends that return, and one after them that throws with its line on file.
Extends(es) ==
  file' = file \o es /\ left \subseteq left' /\ left' \subseteq left \union {Len(file')}

LEMMA LogExtends ==
  ASSUME NEW es, Log(es)
  PROVE  Extends(es) /\ closed' = closed
BY DEF Log, Extends

LEMMA ThrowExtends ==
  ASSUME NEW es, NEW e, LogThrows(es, e)
  PROVE  /\ Log(es) \/ Extends(es \o <<e>>)
         /\ closed' = closed
BY DEF LogThrows, Log, LeavesLine, Extends

\* The entries of a file, in a form that names no index of the file before it.
LEMMA LogAdds ==
  ASSUME file \in Seq(Entries), NEW es \in Seq(Entries), Extends(es)
  PROVE  /\ file' \in Seq(Entries)
         /\ Len(file') = Len(file) + Len(es)
         /\ \A i \in 1..Len(file) : file'[i] = file[i]
         /\ \A i \in 1..Len(es) : file'[Len(file) + i] = es[i]
         /\ \A j \in 1..Len(file') :
              j \in 1..Len(file) \/ \E i \in 1..Len(es) : j = Len(file) + i
<1>1. file' = file \o es
  BY DEF Extends
<1>2. Len(file) \in Nat /\ Len(es) \in Nat
  OBVIOUS
<1>3. file' \in Seq(Entries) /\ Len(file') = Len(file) + Len(es)
  BY <1>1
<1>4. \A i \in 1..Len(file) : file'[i] = file[i]
  BY <1>1
<1>5. \A i \in 1..Len(es) : file'[Len(file) + i] = es[i]
  BY <1>1, <1>2
<1>6. ASSUME NEW j \in 1..Len(file'), j \notin 1..Len(file)
      PROVE  \E i \in 1..Len(es) : j = Len(file) + i
  <2>1. j - Len(file) \in 1..Len(es) /\ j = Len(file) + (j - Len(file))
    BY <1>2, <1>3, <1>6
  <2> QED
    BY <2>1
<1> QED
  BY <1>3, <1>4, <1>5, <1>6

LEMMA AddsNone ==
  ASSUME file \in Seq(Entries), file' = file, left' = left
  PROVE  Adds({})
  BY DEF Adds, Logged

LEMMA LogNone ==
  ASSUME file \in Seq(Entries), Log(<<>>)
  PROVE  file' = file /\ left' = left
  BY DEF Log

\* What is on record afterwards was on record, or is one of the new entries.
LEMMA LogLogged ==
  ASSUME file \in Seq(Entries), NEW es \in Seq(Entries), Extends(es), es # <<>>
  PROVE  /\ file' \in Seq(Entries) /\ file' # <<>>
         /\ left \subseteq left'
         /\ left \subseteq 1..Len(file) => left' \subseteq 1..Len(file')
         /\ \A x : Logged(x)' <=> Logged(x) \/ \E i \in 1..Len(es) : es[i] = x
<1>1. /\ file' \in Seq(Entries)
      /\ Len(file') = Len(file) + Len(es)
      /\ \A i \in 1..Len(file) : file'[i] = file[i]
      /\ \A i \in 1..Len(es) : file'[Len(file) + i] = es[i]
      /\ \A j \in 1..Len(file') :
           j \in 1..Len(file) \/ \E i \in 1..Len(es) : j = Len(file) + i
  BY LogAdds
<1>2. Len(file) \in Nat /\ Len(es) \in Nat /\ Len(es) # 0
  OBVIOUS
<1>3. file' # <<>>
  <2>1. file' = file \o es
    BY DEF Extends
  <2> QED
    BY <1>1, <1>2, <2>1
<1>7. /\ left \subseteq left'
      /\ left \subseteq 1..Len(file) => left' \subseteq 1..Len(file')
  <2>1. Len(file') \in 1..Len(file') /\ 1..Len(file) \subseteq 1..Len(file')
    BY <1>1, <1>2
  <2> QED
    BY <2>1 DEF Extends
<1>4. ASSUME NEW x, Logged(x)'
      PROVE  Logged(x) \/ \E i \in 1..Len(es) : es[i] = x
  <2>1. PICK j \in 1..Len(file') : file'[j] = x
    BY <1>4 DEF Logged
  <2>2. CASE j \in 1..Len(file)
    BY <1>1, <2>1, <2>2 DEF Logged
  <2>3. CASE \E i \in 1..Len(es) : j = Len(file) + i
    BY <1>1, <2>1, <2>3
  <2> QED
    BY <1>1, <2>2, <2>3
<1>5. ASSUME NEW x, Logged(x)
      PROVE  Logged(x)'
  <2>1. PICK j \in 1..Len(file) : file[j] = x
    BY <1>5 DEF Logged
  <2>2. j \in 1..Len(file')
    BY <1>1, <1>2
  <2> QED
    BY <1>1, <2>1, <2>2 DEF Logged
<1>6. ASSUME NEW x, NEW i \in 1..Len(es), es[i] = x
      PROVE  Logged(x)'
  <2>1. Len(file) + i \in 1..Len(file')
    BY <1>1, <1>2
  <2> QED
    BY <1>1, <1>6, <2>1 DEF Logged
<1> QED
  BY <1>1, <1>3, <1>4, <1>5, <1>6, <1>7

LEMMA AddsOne ==
  ASSUME file \in Seq(Entries), NEW e \in Entries, Extends(<<e>>)
  PROVE  Adds({e})
<1> DEFINE es == <<e>>
<1>1. es \in Seq(Entries) /\ es # <<>> /\ Len(es) = 1 /\ es[1] = e
  OBVIOUS
<1>2. Extends(es)
  OBVIOUS
<1> HIDE DEF es
<1>3. \A x : (\E i \in 1..Len(es) : es[i] = x) <=> x = e
  BY <1>1
<1>4. /\ file' \in Seq(Entries) /\ file' # <<>>
      /\ left \subseteq left'
      /\ left \subseteq 1..Len(file) => left' \subseteq 1..Len(file')
      /\ \A x : Logged(x)' <=> Logged(x) \/ \E i \in 1..Len(es) : es[i] = x
  BY <1>1, <1>2, LogLogged
<1>5. ASSUME NEW j \in 1..Len(file')
      PROVE  \/ j \in 1..Len(file) /\ file'[j] = file[j]
             \/ j = Len(file) + 1 /\ file'[j] = e
  <2>1. j \in 1..Len(file) \/ \E i \in 1..Len(es) : j = Len(file) + i
    BY <1>1, <1>2, LogAdds
  <2>2. /\ \A i \in 1..Len(file) : file'[i] = file[i]
        /\ \A i \in 1..Len(es) : file'[Len(file) + i] = es[i]
    BY <1>1, <1>2, LogAdds
  <2> QED
    BY <1>1, <2>1, <2>2
<1> QED
  BY <1>3, <1>4, <1>5, Zenon DEF Adds

LEMMA AddsTwo ==
  ASSUME file \in Seq(Entries), NEW e \in Entries, NEW f \in Entries, Extends(<<e>> \o <<f>>),
         f.phase # "callback"
  PROVE  Adds({e, f})
<1> DEFINE es == <<e>> \o <<f>>
<1>1. es \in Seq(Entries) /\ es # <<>> /\ Len(es) = 2 /\ es[1] = e /\ es[2] = f
  OBVIOUS
<1>2. Extends(es)
  OBVIOUS
<1> HIDE DEF es
<1>3. \A x : (\E i \in 1..Len(es) : es[i] = x) <=> x = e \/ x = f
  <2>1. 1..Len(es) = {1, 2}
    BY <1>1
  <2> QED
    BY <1>1, <2>1
<1>4. /\ file' \in Seq(Entries) /\ file' # <<>>
      /\ left \subseteq left'
      /\ left \subseteq 1..Len(file) => left' \subseteq 1..Len(file')
      /\ \A x : Logged(x)' <=> Logged(x) \/ \E i \in 1..Len(es) : es[i] = x
  BY <1>1, <1>2, LogLogged
<1>5. ASSUME NEW j \in 1..Len(file'), file'[j].phase = "callback"
      PROVE  \/ j \in 1..Len(file) /\ file'[j] = file[j]
             \/ j = Len(file) + 1 /\ file'[j] = e
  <2>1. j \in 1..Len(file) \/ \E i \in 1..Len(es) : j = Len(file) + i
    BY <1>1, <1>2, LogAdds
  <2>2. /\ \A i \in 1..Len(file) : file'[i] = file[i]
        /\ \A i \in 1..Len(es) : file'[Len(file) + i] = es[i]
    BY <1>1, <1>2, LogAdds
  <2>3. ASSUME NEW i \in 1..Len(es), j = Len(file) + i
        PROVE  i = 1 \/ file'[j] = f
    BY <1>1, <2>2, <2>3
  <2> QED
    BY <1>1, <1>5, <2>1, <2>2, <2>3
<1> QED
  BY <1>3, <1>4, <1>5, Zenon DEF Adds

LEMMA AddsSecond ==
  ASSUME file \in Seq(Entries), NEW f \in Entries, Extends(<<>> \o <<f>>)
  PROVE  Adds({f})
<1>1. <<>> \o <<f>> = <<f>>
  OBVIOUS
<1> QED
  BY <1>1, AddsOne

\* What an append that throws may add.
LEMMA ThrowAdds ==
  ASSUME file \in Seq(Entries), NEW e \in Entries, LogThrows(<<>>, e)
  PROVE  Adds({}) \/ Adds({e})
<1>1. Log(<<>>) => Adds({})
  BY LogNone, AddsNone
<1>2. Extends(<<>> \o <<e>>) => Adds({e})
  BY AddsSecond
<1> QED
  BY <1>1, <1>2, ThrowExtends

LEMMA EntryTyped ==
  ASSUME NEW p \in Phases, NEW s \in EntryStates
  PROVE  Entry(p, s) \in Entries
<1>1. NoCall \in CallIds /\ 0 \in Heard /\ 0 \in Tags
  BY DEF CallIds, Heard, Tags
<1> QED
  BY <1>1 DEF Entry, Entries

LEMMA OpenedTyped == Entry("opened", "") \in Entries
  BY EntryTyped DEF Phases, EntryStates

LEMMA CallbackTyped ==
  ASSUME NEW k \in Calls, NEW r \in Ranks, NEW b \in Bodies
  PROVE  CallbackEntry(k, r, b) \in Entries
<1>1. k \in CallIds /\ r \in Heard /\ b \in Tags
  BY DEF CallIds, Heard, Tags
<1>2. "callback" \in Phases /\ "" \in EntryStates
  BY DEF Phases, EntryStates
<1> QED
  BY <1>1, <1>2 DEF CallbackEntry, Entries

\* Entries of the run and of the hang-up are told apart by what they say.
LEMMA EntryDiffers ==
  ASSUME NEW p, NEW s, NEW q, NEW t
  PROVE  Entry(p, s) = Entry(q, t) <=> p = q /\ s = t
  BY DEF Entry

LEMMA OnlyOpened ==
  ASSUME NEW e \in Entries, file = <<e>>
  PROVE  \A x : Logged(x) <=> x = e
<1>1. Len(file) = 1 /\ file[1] = e
  OBVIOUS
<1>2. 1..Len(file) = {1}
  BY <1>1
<1> QED
  BY <1>1, <1>2 DEF Logged

LEMMA CallbackDiffers ==
  ASSUME NEW p, NEW s, NEW k, NEW r, NEW b, p # "callback"
  PROVE  Entry(p, s) # CallbackEntry(k, r, b)
  BY DEF Entry, CallbackEntry

LEMMA EntryPhase ==
  ASSUME NEW p, NEW s
  PROVE  Entry(p, s).phase = p /\ Entry(p, s).state = s
  BY DEF Entry

LEMMA NotAdded ==
  ASSUME NEW p, NEW s, NEW E, Adds(E), \A e \in E : e.phase # p
  PROVE  Logged(Entry(p, s))' <=> Logged(Entry(p, s))
<1> DEFINE x == Entry(p, s)
<1>1. x.phase = p
  BY EntryPhase
<1> HIDE DEF x
<1>2. Logged(x)' <=> Logged(x)
  BY <1>1 DEF Adds
<1> QED
  BY <1>2 DEF x

\* The file stays typed, and a run on record keeps one of its outcomes.
LEMMA FileKept ==
  ASSUME IInv, NEW E, Adds(E), closed' \in BOOLEAN \/ closed' = closed,
         \A e \in E : e.phase = "complete" => e.state \in Outcomes
  PROVE  FileTyped'
<1>1. file' \in Seq(Entries) /\ closed' \in BOOLEAN /\ left' \subseteq 1..Len(file')
  BY DEF Adds, IInv, TypeOK, FileTyped
<1>2. ASSUME NEW i \in 1..Len(file'), file'[i].phase = "complete"
      PROVE  file'[i].state \in Outcomes
  <2>1. Logged(file'[i]) \/ file'[i] \in E
    <3> DEFINE x == file'[i]
    <3>1. \E n \in 1..Len(file') : file'[n] = x
      OBVIOUS
    <3> HIDE DEF x
    <3>2. Logged(x) \/ x \in E
      BY <3>1 DEF Adds, Logged
    <3> QED
      BY <3>2 DEF x
  <2> QED
    BY <1>2, <2>1 DEF IInv, TypeOK, FileTyped, Logged
<1> QED
  BY <1>1, <1>2 DEF FileTyped

\* The callbacks on record stay as they are remembered, while no callback is
\* added and what the canary remembers stays, or its process has ended.
LEMMA RecordKept ==
  ASSUME IInv, NEW E, Adds(E), \A e \in E : e.phase # "callback",
         \/ pc' = "off"
         \/ /\ pc # "off" /\ heard' = heard /\ digests' = digests
            /\ callId # NoCall => callId' = callId
  PROVE  RecordOK'
<1>1. /\ left \subseteq left'
      /\ \A j \in 1..Len(file') : file'[j].phase = "callback" =>
           j \in 1..Len(file) /\ file'[j] = file[j]
  BY DEF Adds
<1>2. CallbacksTellOneCall'
  <2> SUFFICES ASSUME NEW i \in 1..Len(file'), NEW j \in 1..Len(file'), i < j,
                      i \notin left', file'[i].phase = "callback", file'[j].phase = "callback"
               PROVE  /\ file'[i].call = file'[j].call /\ file'[i].rank <= file'[j].rank
                      /\ file'[i] # file'[j]
    BY DEF CallbacksTellOneCall
  <2>1. /\ i \in 1..Len(file) /\ file'[i] = file[i]
        /\ j \in 1..Len(file) /\ file'[j] = file[j]
        /\ i \notin left
    BY <1>1
  <2> QED
    BY <2>1 DEF IInv, RecordOK, CallbacksTellOneCall
<1>3. ASSUME pc' # "off", NEW j \in 1..Len(file'), j \notin left', file'[j].phase = "callback"
      PROVE  /\ file'[j].call \in Calls /\ callId' = file'[j].call
             /\ file'[j].rank <= heard'
             /\ <<file'[j].call, file'[j].rank, file'[j].body>> \in digests'
  <2>1. j \in 1..Len(file) /\ file'[j] = file[j] /\ j \notin left
    BY <1>1, <1>3
  <2>2. /\ file[j].call \in Calls /\ callId = file[j].call /\ file[j].rank <= heard
        /\ <<file[j].call, file[j].rank, file[j].body>> \in digests
    BY <1>3, <2>1 DEF IInv, RecordOK, Remembered
  <2>3. callId # NoCall
    BY <2>2, CanaryAssumption DEF Calls
  <2> QED
    BY <1>3, <2>1, <2>2, <2>3
<1> QED
  BY <1>2, <1>3 DEF RecordOK, Remembered

LEMMA JournalKept ==
  ASSUME IInv, file' = file, left' = left
  PROVE  Adds({})
  BY AddsNone DEF IInv, TypeOK, FileTyped

LEMMA EntryLogged ==
  ASSUME IInv, NEW p \in Phases, NEW s \in EntryStates, Log(<<Entry(p, s)>>)
  PROVE  Adds({Entry(p, s)}) /\ closed' = closed
<1>1. Entry(p, s) \in Entries
  BY EntryTyped
<1> QED
  BY <1>1, AddsOne, LogExtends DEF IInv, TypeOK, FileTyped

LEMMA EntryThrows ==
  ASSUME IInv, NEW p \in Phases, NEW s \in EntryStates, LogThrows(<<>>, Entry(p, s))
  PROVE  /\ Adds({}) \/ Adds({Entry(p, s)})
         /\ closed' = closed
<1>1. Entry(p, s) \in Entries
  BY EntryTyped
<1> QED
  BY <1>1, ThrowAdds, ThrowExtends DEF IInv, TypeOK, FileTyped

-----------------------------------------------------------------------------
\* Each step of the canary preserves the invariant

LEMMA CompleteStep ==
  ASSUME IInv, Complete, UNCHANGED bot
  PROVE  IInv'
<1> USE DEF IInv
<1>1. outcome \in Outcomes /\ file # <<>> /\ pc = "finishing"
  BY DEF TypeOK, CanaryTyped, RunOK, Complete, Outcomes
<1>2. PICK E : /\ Adds(E)
               /\ \/ E = {Entry("complete", outcome)} /\ pc' = "done"
                  \/ E \subseteq {Entry("complete", outcome)} /\ pc' = "failed"
               /\ closed' = closed
  <2>1. "complete" \in Phases /\ outcome \in EntryStates
    BY <1>1 DEF Phases, EntryStates, Outcomes
  <2>2. CASE Log(<<Entry("complete", outcome)>>) /\ pc' = "done"
    BY <2>1, <2>2, EntryLogged
  <2>3. CASE LogThrows(<<>>, Entry("complete", outcome)) /\ pc' = "failed"
    <3>1. (Adds({}) \/ Adds({Entry("complete", outcome)})) /\ closed' = closed
      BY <2>1, <2>3, EntryThrows
    <3> QED
      BY <2>3, <3>1
  <2> QED
    BY <2>2, <2>3 DEF Complete
<1>3. /\ UNCHANGED <<outcome, shutdown, attempted, deadline, callId, heard, digests, hangup>>
      /\ UNCHANGED graph /\ UNCHANGED bot
  BY DEF Complete
<1>4. TypeOK'
  <2>1. \A e \in E : e.phase = "complete" => e.state \in Outcomes
    BY <1>1, <1>2, EntryPhase
  <2>2. FileTyped'
    BY <1>2, <2>1, FileKept
  <2>3. CanaryTyped'
    BY <1>2, <1>3 DEF TypeOK, CanaryTyped
  <2> QED
    BY <1>3, <2>2, <2>3 DEF TypeOK, GraphTyped, BotTyped, graph, bot
<1>5. RunOK' /\ StopOK' /\ OneCallOneHangup'
  BY <1>1, <1>2, <1>3 DEF RunOK, Adds, Running, Over3, StopOK, OneCallOneHangup, graph, bot
<1>6. AttemptsOnRecord'
  BY <1>2, <1>3 DEF AttemptsOnRecord, Adds, graph
<1>7. RefusedOK'
  BY <1>2, <1>3, EntryDiffers DEF RefusedOK, RefusedPlacedNothing, Unplaced, Adds, graph
<1>8. EndedOK'
  BY <1>1, <1>2, <1>3, EntryDiffers
     DEF EndedOK, EndedIsOver, Active, Running, Adds, graph
<1>9. RecordOK'
  <2>1. \A e \in E : e.phase # "callback"
    BY <1>2, EntryPhase
  <2> QED
    BY <1>1, <1>2, <1>3, <2>1, RecordKept
<1> QED
  BY <1>4, <1>5, <1>6, <1>7, <1>8, <1>9

\* What the run's other steps do once its request is sent, or refused: its body
\* ends with an outcome it may have, or moves on, and a hang-up may start.
HangupEntry == Entry("hangup-attempting", "")

Ends ==
  /\ pc' = "finishing" /\ outcome' \in Outcomes
  /\ outcome' = "refused" => Unplaced
  /\ outcome' = "ended" => heard = Over

MovesOn ==
  /\ pc \in Running /\ pc' \in Running \ {"creating"} /\ outcome' = outcome
  /\ pc' # "identifying" => callId' \in Calls

StartsHangup(E) ==
  \/ UNCHANGED <<hangup, deletes, wire>>
  \/ /\ attempted /\ hangup = "none" /\ hangup' = "failed"
     /\ UNCHANGED <<deletes, wire>>
  \/ /\ attempted /\ hangup = "none" /\ hangup' = "deleting"
     /\ HangupEntry \in E /\ deletes' = deletes + 1 /\ callId' \in Calls
     /\ wire' = wire \union {<<"delete", callId'>>}

RunMoves(E) ==
  /\ Adds(E) /\ closed' = closed
  /\ \A e \in E : e.phase \notin {"complete", "callback"}
  /\ pc \in Running \union {"token"}
  /\ Ends \/ MovesOn
  /\ StartsHangup(E)
  /\ callId' = callId \/ (callId = NoCall /\ callId' = Ours /\ pc = "creating")
  /\ Active \in E => pc = "creating" /\ callId' = Ours
  /\ reply' = "none" \/ (reply' = reply /\ pc # "creating")
  /\ UNCHANGED <<shutdown, attempted, deadline, heard, digests, phase, posts>>
  /\ UNCHANGED bot

LEMMA RunStep ==
  ASSUME IInv, NEW E, RunMoves(E)
  PROVE  IInv'
<1> USE DEF IInv
<1>1. /\ Adds(E) /\ closed' = closed
      /\ \A e \in E : e.phase \notin {"complete", "callback"}
      /\ UNCHANGED <<shutdown, attempted, deadline, heard, digests, phase, posts>>
      /\ UNCHANGED bot
  BY DEF RunMoves
<1>2. file # <<>> /\ pc \notin {"off", "finishing", "done", "failed"} /\ pc' \notin {"off", "token"}
  BY DEF RunMoves, RunOK, Running, Ends, MovesOn
<1>3. TypeOK'
  <2>1. FileTyped'
    BY <1>1, FileKept
  <2>2. pc' \in Running \union {"finishing"} /\ outcome' \in {""} \union Outcomes
    BY DEF RunMoves, Ends, MovesOn, TypeOK, CanaryTyped
  <2>3. callId' \in CallIds
    BY DEF RunMoves, TypeOK, CanaryTyped, CallIds, Calls
  <2>4. CanaryTyped'
    BY <1>1, <2>2, <2>3 DEF RunMoves, StartsHangup, TypeOK, CanaryTyped, Running
  <2>5. deletes' \in Nat /\ wire' \subseteq {"post", "delete"} \X Calls
    BY DEF RunMoves, StartsHangup, TypeOK, GraphTyped
  <2>6. reply' \in {"none", "created", "refused"}
    BY DEF RunMoves, TypeOK, GraphTyped
  <2> QED
    BY <1>1, <2>1, <2>4, <2>5, <2>6 DEF TypeOK, GraphTyped, BotTyped, bot
<1>4. RunOK'
  <2>1. file' # <<>>
    BY <1>1, <1>2 DEF Adds
  <2>2. attempted \/ pc = "token"
    BY DEF RunMoves, RunOK
  <2>3. /\ attempted /\ hangup' = "none" => deletes' = 0
        /\ hangup' # "none" => attempted
    BY DEF RunMoves, StartsHangup, RunOK
  <2>4. reply' = "none"
    BY DEF RunMoves, RunOK
  <2>5. /\ pc' \in Running => attempted
        /\ outcome' # "" => pc' \in Over3
        /\ pc' = "finishing" => outcome' # ""
        /\ pc' \in {"ringing", "hanging", "ending"} => callId' \in Calls
    BY DEF RunMoves, RunOK, Ends, MovesOn, Running, Over3, Outcomes
  <2> QED
    BY <1>1, <1>2, <2>1, <2>3, <2>4, <2>5 DEF RunOK
<1>5. StopOK'
  BY <1>2 DEF StopOK
<1>6. OneCallOneHangup'
  <2>1. attempted /\ hangup = "none" => deletes = 0
    BY DEF RunOK
  <2>2. deletes' = deletes \/ (attempted /\ hangup = "none" /\ deletes' = deletes + 1)
    BY DEF RunMoves, StartsHangup
  <2> QED
    BY <1>1, <2>1, <2>2 DEF OneCallOneHangup
<1>7. AttemptsOnRecord'
  BY <1>1 DEF RunMoves, StartsHangup, HangupEntry, AttemptsOnRecord, Adds, TypeOK, GraphTyped
<1>8. RefusedOK'
  <2>1. /\ <<"post", Ours>> \in wire' <=> <<"post", Ours>> \in wire
        /\ phase' = phase
    BY <1>1 DEF RunMoves, StartsHangup
  <2>2. Unplaced' <=> Unplaced
    BY <2>1 DEF Unplaced
  <2>3. Logged(Entry("complete", "refused"))' => Logged(Entry("complete", "refused"))
    BY <1>1, EntryPhase DEF Adds
  <2> QED
    BY <1>1, <2>1, <2>2, <2>3
       DEF RunMoves, Ends, MovesOn, RefusedOK, RefusedPlacedNothing, Unplaced
<1>9. EndedOK'
  <2>1. Logged(Entry("complete", "ended"))' => Logged(Entry("complete", "ended"))
    BY <1>1, EntryPhase DEF Adds
  <2>2. Logged(Active)' => Logged(Active) \/ Active \in E
    BY <1>1 DEF Adds
  <2>3. ~Logged(Entry("complete", "ended"))
    <3>1. CASE pc = "token"
      <4>1. file = <<Entry("opened", "")>>
        BY <3>1 DEF RunOK
      <4>2. \A x : Logged(x) <=> x = Entry("opened", "")
        BY <4>1, OnlyOpened, OpenedTyped
      <4>3. Entry("complete", "ended") # Entry("opened", "")
        BY DEF Entry
      <4> QED
        BY <4>2, <4>3
    <3> QED
      BY <3>1 DEF RunMoves, EndedOK
  <2> QED
    BY <1>1, <1>2, <2>1, <2>2, <2>3, CanaryAssumption
       DEF RunMoves, Ends, MovesOn, EndedOK, EndedIsOver, Calls
<1>10. RecordOK'
  BY <1>1, <1>2, RecordKept DEF RunMoves
<1> QED
  BY <1>3, <1>4, <1>5, <1>6, <1>7, <1>8, <1>9, <1>10

\* Steps that log nothing: the body ends, or waits for the terminal callback.
LEMMA QuietStep ==
  ASSUME IInv, TokenRefused \/ HangupReturns \/ End, UNCHANGED bot
  PROVE  IInv'
<1> USE DEF IInv
<1>1. /\ UNCHANGED journal /\ UNCHANGED graph
      /\ UNCHANGED <<shutdown, attempted, deadline, callId, heard, digests, hangup>>
  BY DEF TokenRefused, HangupReturns, End
<1>2. Adds({}) /\ closed' = closed
  BY <1>1, JournalKept DEF journal
<1>3. pc \in {"token", "hanging", "ending"} /\ (pc = "token" \/ attempted)
  BY DEF TokenRefused, HangupReturns, End, RunOK, Running
<1>4. Ends \/ MovesOn
  <2>1. CASE TokenRefused
    BY <2>1 DEF TokenRefused, Give, Ends, Outcomes, RunOK, RefusedOK
  <2>2. CASE HangupReturns
    BY <1>1, <1>3, <2>2
       DEF HangupReturns, Give, EndedOr, Caught, Ends, MovesOn, Running, Outcomes, RunOK
  <2>3. CASE End
    BY <2>3 DEF End, Give, EndedOr, Ends, Outcomes
  <2> QED
    BY <2>1, <2>2, <2>3
<1>5. RunMoves({})
  BY <1>1, <1>2, <1>3, <1>4 DEF RunMoves, StartsHangup, Running, graph
<1> QED
  BY <1>5, RunStep

\* Graph's answer to the call request, other than its confirmation, is logged.
LEMMA AnswerStep ==
  ASSUME IInv, CreateRefused \/ CreateUncertain, UNCHANGED bot
  PROVE  IInv'
<1> USE DEF IInv
<1>1. /\ pc = "creating" /\ attempted /\ reply' = "none"
      /\ UNCHANGED <<shutdown, attempted, deadline, callId, heard, digests, hangup,
                     phase, wire, posts, deletes>>
  BY DEF CreateRefused, CreateUncertain, CreateLogs, RunOK, Running
<1>3. ASSUME NEW s \in {"refused", "uncertain"},
             \/ Log(<<Entry("create-result", s)>>)
             \/ LogThrows(<<>>, Entry("create-result", s)),
             Ends \/ MovesOn
      PROVE  IInv'
  <2>1. PICK E \in {{}, {Entry("create-result", s)}} : Adds(E) /\ closed' = closed
    <3>1. "create-result" \in Phases /\ s \in EntryStates
      BY <1>3 DEF Phases, EntryStates
    <3> QED
      BY <1>3, <3>1, EntryLogged, EntryThrows
  <2>2. Active # Entry("create-result", s)
    BY <1>3 DEF Active, Entry
  <2>3. Entry("create-result", s).phase = "create-result"
    BY EntryPhase
  <2>4. RunMoves(E)
    BY <1>1, <1>3, <2>1, <2>2, <2>3 DEF RunMoves, StartsHangup, Running
  <2> QED
    BY <2>4, RunStep
<1>2. ASSUME NEW s \in {"refused", "uncertain"},
             LogThrows(<<>>, Entry("create-result", s)), Give(Caught)
      PROVE  IInv'
  <2>1. Ends
    BY <1>1, <1>2 DEF Give, Caught, Ends, Outcomes
  <2> QED
    BY <1>2, <1>3, <2>1
<1>4. CASE Log(<<Entry("create-result", "refused")>>) /\ Give("refused") /\ reply = "refused"
  <2>1. Ends
    BY <1>4 DEF Give, Ends, Outcomes, RefusedOK
  <2> QED
    BY <1>3, <1>4, <2>1
<1>5. CASE /\ Log(<<Entry("create-result", "uncertain")>>)
           /\ pc' = "identifying" /\ UNCHANGED outcome
  <2>1. MovesOn
    BY <1>1, <1>5 DEF MovesOn, Running
  <2> QED
    BY <1>3, <1>5, <2>1
<1> QED
  BY <1>2, <1>4, <1>5 DEF CreateRefused, CreateUncertain, CreateLogs

\* The hang-up of call k, after the entries es, adds their set E and may add
\* the entry of its own.
LEMMA HangUpStarts ==
  ASSUME NEW k \in Calls, NEW es, NEW E,
         Log(es) => Adds(E), Extends(es \o <<HangupEntry>>) => Adds(E \union {HangupEntry}),
         attempted, callId' = k, ~HangupShared, HangUp(k, es)
  PROVE  \E F \in {E, E \union {HangupEntry}} : Adds(F) /\ StartsHangup(F) /\ closed' = closed
<1>1. CASE /\ Log(es \o <<HangupEntry>>) /\ hangup' = "deleting" /\ deletes' = deletes + 1
           /\ wire' = wire \union {<<"delete", k>>}
  <2> DEFINE F == E \union {HangupEntry}
  <2>1. Adds(F) /\ closed' = closed /\ HangupEntry \in F
    BY <1>1, LogExtends
  <2> HIDE DEF F
  <2>2. StartsHangup(F)
    BY <1>1, <2>1 DEF StartsHangup, HangupShared
  <2> QED
    BY <2>1, <2>2 DEF F
<1>2. CASE /\ LogThrows(es, HangupEntry) /\ hangup' = "failed"
           /\ UNCHANGED <<deletes, wire>>
  <2>1. \A F : StartsHangup(F)
    BY <1>2 DEF StartsHangup, HangupShared
  <2> QED
    BY <1>2, <2>1, ThrowExtends
<1> QED
  BY <1>1, <1>2 DEF HangUp, HangupEntry

LEMMA HangUpMoves ==
  ASSUME NEW k \in Calls, NEW es, NEW E,
         Log(es) => Adds(E), Extends(es \o <<HangupEntry>>) => Adds(E \union {HangupEntry}),
         attempted, pc \in Running, callId' = k, HangUpAndFinish(k, es)
  PROVE  /\ \E F \in {E, E \union {HangupEntry}} :
              Adds(F) /\ StartsHangup(F) /\ closed' = closed
         /\ MovesOn
<1>1. MovesOn
  BY DEF HangUpAndFinish, MovesOn, Running
<1>2. CASE HangupShared /\ NoHangup(es)
  <2>1. Adds(E) /\ closed' = closed /\ StartsHangup(E)
    BY <1>2 DEF NoHangup, Log, StartsHangup
  <2> QED
    BY <1>1, <2>1
<1>3. CASE ~HangupShared /\ HangUp(k, es)
  BY <1>1, <1>3, HangUpStarts
<1> QED
  BY <1>2, <1>3 DEF HangUpAndFinish

LEMMA ProceedMoves ==
  ASSUME NEW k \in Calls, NEW es, NEW E,
         Log(es) => Adds(E), Extends(es \o <<HangupEntry>>) => Adds(E \union {HangupEntry}),
         attempted, pc \in Running, callId' = k, Proceed(k, es)
  PROVE  /\ \E F \in {E, E \union {HangupEntry}} :
              Adds(F) /\ StartsHangup(F) /\ closed' = closed
         /\ Ends \/ MovesOn
<1>1. CASE NoHangup(es)
  <2>1. Adds(E) /\ closed' = closed /\ StartsHangup(E)
    BY <1>1 DEF NoHangup, Log, StartsHangup
  <2>2. Ends \/ MovesOn \/ HangUpAndFinish(k, es)
    BY DEF Proceed, Give, Ends, MovesOn, Running, Outcomes
  <2> QED
    BY <2>1, <2>2, HangUpMoves
<1>2. CASE HangUpAndFinish(k, es)
  BY <1>2, HangUpMoves
<1> QED
  BY <1>1, <1>2 DEF Proceed

LEMMA HangupEntryTyped ==
  /\ HangupEntry \in Entries /\ HangupEntry # Active
  /\ HangupEntry.phase = "hangup-attempting"
  BY EntryTyped DEF HangupEntry, Active, Entry, Phases, EntryStates

LEMMA LogsNothing ==
  ASSUME IInv
  PROVE  /\ Log(<<>>) => Adds({})
         /\ Extends(<<>> \o <<HangupEntry>>) => Adds({} \union {HangupEntry})
  BY LogNone, AddsNone, AddsSecond, HangupEntryTyped DEF IInv, TypeOK, FileTyped

\* What the run does once it knows the call.
LEMMA KnownStep ==
  ASSUME IInv, Identify \/ Ring, UNCHANGED bot
  PROVE  IInv'
<1> USE DEF IInv
<1>1. /\ pc \in {"identifying", "ringing"} /\ attempted
      /\ UNCHANGED <<shutdown, attempted, deadline, callId, heard, digests, phase,
                     reply, posts>>
  BY DEF Identify, Ring, RunOK, Running
<1>2. /\ Log(<<>>) => Adds({})
      /\ Extends(<<>> \o <<HangupEntry>>) => Adds({} \union {HangupEntry})
  BY LogsNothing
<1>3. /\ \E F \in {{}, {} \union {HangupEntry}} :
           Adds(F) /\ StartsHangup(F) /\ closed' = closed
      /\ Ends \/ MovesOn
  <2>1. CASE callId \in Calls /\ Proceed(callId, <<>>)
    BY <1>1, <1>2, <2>1, ProceedMoves DEF Running
  <2>2. CASE callId \in Calls /\ HangUpAndFinish(callId, <<>>)
    BY <1>1, <1>2, <2>2, HangUpMoves DEF Running
  <2>3. CASE /\ Give("uncertain") \/ (heard = Over /\ Give("ended"))
             /\ NoHangup(<<>>)
    <3>1. Adds({}) /\ StartsHangup({}) /\ closed' = closed
      BY <1>2, <2>3 DEF NoHangup, Log, StartsHangup
    <3> QED
      BY <2>3, <3>1 DEF Give, Ends, Outcomes
  <2>4. callId = NoCall \/ callId \in Calls
    BY DEF TypeOK, CanaryTyped, CallIds
  <2> QED
    BY <2>1, <2>2, <2>3, <2>4 DEF Identify, Ring, RunOK
<1>4. PICK F \in {{}, {HangupEntry}} : Adds(F) /\ StartsHangup(F) /\ closed' = closed
  BY <1>3
<1>5. /\ Active \notin F
      /\ \A e \in F : e.phase \notin {"complete", "callback"}
  BY <1>4, HangupEntryTyped
<1>6. RunMoves(F)
  BY <1>1, <1>3, <1>4, <1>5 DEF RunMoves, Running
<1> QED
  BY <1>6, RunStep

\* Graph confirms the call, and the run knows it by its id.
LEMMA ConfirmedStep ==
  ASSUME IInv, CreateConfirmed, UNCHANGED bot
  PROVE  IInv'
<1> USE DEF IInv
<1>1. /\ pc = "creating" /\ attempted /\ reply' = "none"
      /\ UNCHANGED <<shutdown, attempted, deadline, heard, digests, phase, posts>>
  BY DEF CreateConfirmed, RunOK, Running
<1>2. callId' = callId \/ (callId = NoCall /\ callId' = Ours)
  BY DEF CreateConfirmed, Binds
<1>3. CASE Give(Caught) /\ NoHangup(<<>>)
  <2>1. Adds({}) /\ closed' = closed /\ StartsHangup({})
    BY <1>3, LogsNothing DEF NoHangup, Log, StartsHangup
  <2>2. Ends
    BY <1>1, <1>3 DEF Give, Caught, Ends, Outcomes
  <2>3. RunMoves({})
    BY <1>1, <1>2, <2>1, <2>2 DEF RunMoves, Running
  <2> QED
    BY <2>3, RunStep
<1>5. CASE /\ Binds /\ LogThrows(<<>>, Active) /\ Give(Caught)
           /\ UNCHANGED <<hangup, deletes, wire>>
  <2>1. callId' = Ours
    BY <1>5 DEF CreateConfirmed
  <2>2. PICK E \in {{}, {Active}} : Adds(E) /\ closed' = closed
    <3>1. "create-result" \in Phases /\ "active" \in EntryStates
      BY DEF Phases, EntryStates
    <3> QED
      BY <1>5, <3>1, EntryThrows DEF Active
  <2>3. Ends
    BY <1>1, <1>5 DEF Give, Caught, Ends, Outcomes
  <2>4. \A e \in E : e.phase \notin {"complete", "callback"}
    BY <2>2, EntryPhase DEF Active
  <2>5. RunMoves(E)
    BY <1>1, <1>2, <1>5, <2>1, <2>2, <2>3, <2>4 DEF RunMoves, StartsHangup, Running
  <2> QED
    BY <2>5, RunStep
<1>4. CASE Binds /\ Proceed(Ours, <<Active>>)
  <2>1. callId' = Ours /\ Ours \in Calls
    BY <1>4 DEF CreateConfirmed, Calls
  <2>2. Active \in Entries /\ Active.phase = "create-result"
    BY EntryTyped DEF Active, Entry, Phases, EntryStates
  <2>3. /\ Log(<<Active>>) => Adds({Active})
        /\ Extends(<<Active>> \o <<HangupEntry>>) => Adds({Active} \union {HangupEntry})
    <3>1. {Active} \union {HangupEntry} = {Active, HangupEntry}
      OBVIOUS
    <3> QED
      BY <2>2, <3>1, AddsOne, AddsTwo, LogExtends, HangupEntryTyped DEF TypeOK, FileTyped
  <2>4. /\ \E F \in {{Active}, {Active} \union {HangupEntry}} :
             Adds(F) /\ StartsHangup(F) /\ closed' = closed
        /\ Ends \/ MovesOn
    BY <1>1, <1>4, <2>1, <2>3, ProceedMoves DEF Running
  <2>5. PICK F \in {{Active}, {Active} \union {HangupEntry}} :
          Adds(F) /\ StartsHangup(F) /\ closed' = closed
    BY <2>4
  <2>6. \A e \in F : e.phase \notin {"complete", "callback"}
    BY <2>2, <2>5, HangupEntryTyped
  <2>7. RunMoves(F)
    BY <1>1, <1>2, <2>1, <2>4, <2>5, <2>6 DEF RunMoves, Running
  <2> QED
    BY <2>7, RunStep
<1> QED
  BY <1>3, <1>4, <1>5 DEF CreateConfirmed, Active

\* The call request is logged and sent, or could not be logged.
LEMMA AttemptStep ==
  ASSUME IInv, TokenArrives, UNCHANGED bot
  PROVE  IInv'
<1> USE DEF IInv
<1>1. /\ pc = "token" /\ ~shutdown /\ ~attempted /\ posts = 0 /\ deletes = 0
      /\ hangup = "none" /\ outcome = "" /\ reply = "none" /\ callId = NoCall /\ heard = 0
      /\ file = <<Entry("opened", "")>>
      /\ UNCHANGED <<shutdown, deadline, callId, heard, digests, hangup, phase, reply, deletes>>
  BY DEF TokenArrives, Attempt, RunOK, Over3
<1>2. CASE /\ LogThrows(<<>>, Entry("attempting", "creating")) /\ Give(Caught)
           /\ UNCHANGED <<attempted, wire, posts>>
  <2>1. PICK E \in {{}, {Entry("attempting", "creating")}} : Adds(E) /\ closed' = closed
    <3>1. "attempting" \in Phases /\ "creating" \in EntryStates
      BY DEF Phases, EntryStates
    <3> QED
      BY <1>2, <3>1, EntryThrows
  <2>2. Ends
    BY <1>1, <1>2 DEF Give, Caught, Ends, Outcomes, RefusedOK
  <2>3. /\ Active \notin E
        /\ \A e \in E : e.phase \notin {"complete", "callback"}
    <3>1. Entry("attempting", "creating").phase = "attempting" /\ Active.phase = "create-result"
      BY EntryPhase DEF Active
    <3> QED
      BY <2>1, <3>1
  <2>4. RunMoves(E)
    BY <1>1, <1>2, <2>1, <2>2, <2>3 DEF RunMoves, StartsHangup
  <2> QED
    BY <2>4, RunStep
<1>3. CASE /\ Log(<<Entry("attempting", "creating")>>)
           /\ attempted' = TRUE /\ pc' = "creating" /\ UNCHANGED outcome
           /\ wire' = wire \union {<<"post", Ours>>} /\ posts' = posts + 1
  <2> DEFINE e == Entry("attempting", "creating")
  <2>1. Adds({e}) /\ closed' = closed
    BY <1>3, EntryLogged DEF Phases, EntryStates
  <2>2. /\ e.phase = "attempting" /\ e # Entry("complete", "ended")
        /\ e # Entry("complete", "refused") /\ e # Active
        /\ Entry("opened", "") # Entry("complete", "ended")
        /\ Entry("opened", "") # Entry("complete", "refused")
        /\ Entry("opened", "") # Active
    BY DEF Entry, Active
  <2>3. \A x : Logged(x) <=> x = Entry("opened", "")
    BY <1>1, OnlyOpened, OpenedTyped
  <2>4. /\ Logged(e)'
        /\ ~Logged(Entry("complete", "ended"))' /\ ~Logged(Entry("complete", "refused"))'
        /\ ~Logged(Active)'
    BY <2>1, <2>2, <2>3 DEF Adds
  <2>5. file' # <<>> /\ posts' = 1 /\ deletes' = 0
    <3>1. file # <<>>
      BY <1>1
    <3>2. file' # <<>>
      BY <2>1, <3>1 DEF Adds
    <3>3. posts = 0 /\ posts' = posts + 1 /\ deletes' = 0
      BY <1>1, <1>3, Zenon
    <3> QED
      BY <3>2, <3>3
  <2>6. TypeOK'
    <3>1. FileTyped'
      BY <2>1, <2>2, FileKept
    <3>2. CanaryTyped'
      BY <1>1, <1>3 DEF TypeOK, CanaryTyped
    <3>3. wire' \subseteq {"post", "delete"} \X Calls
      BY <1>3 DEF TypeOK, GraphTyped, Calls
    <3> QED
      BY <1>1, <2>5, <3>1, <3>2, <3>3 DEF TypeOK, GraphTyped, BotTyped, bot
  <2>7. RunOK'
    <3>1. pc' = "creating" /\ outcome' = "" /\ attempted'
      BY <1>1, <1>3
    <3> QED
      BY <2>5, <3>1 DEF RunOK
  <2>8. StopOK' /\ OneCallOneHangup' /\ AttemptsOnRecord'
    <3>1. StopOK' /\ OneCallOneHangup'
      BY <1>3, <2>5 DEF StopOK, OneCallOneHangup
    <3>2. ~(deletes' > 0)
      BY <2>5
    <3> QED
      BY <2>4, <3>1, <3>2 DEF AttemptsOnRecord
  <2>9. RefusedOK'
    <3>1. phase'[Ours] = 0
      BY <1>1 DEF RefusedOK, Unplaced
    <3>2. reply' = "none" /\ outcome' = ""
      BY <1>1, <1>3, Zenon
    <3>3. posts' # 0
      BY <2>5
    <3> QED
      BY <2>4, <3>1, <3>2, <3>3 DEF RefusedOK, RefusedPlacedNothing
  <2>10. EndedOK'
    BY <1>1, <1>3, <2>4 DEF EndedOK, EndedIsOver, Over
  <2>11. RecordOK'
    BY <1>1, <1>3, <2>1, <2>2, RecordKept
  <2> QED
    BY <2>6, <2>7, <2>8, <2>9, <2>10, <2>11
<1> QED
  BY <1>2, <1>3 DEF TokenArrives, Attempt

\* The window closes: only the run's timer changes.
LEMMA WindowStep ==
  ASSUME IInv, WindowCloses, UNCHANGED bot
  PROVE  IInv'
<1> USE DEF IInv
<1>1. /\ UNCHANGED <<pc, outcome, shutdown, attempted, callId, heard, digests, hangup>>
      /\ UNCHANGED journal /\ UNCHANGED graph /\ deadline' = TRUE /\ attempted
  BY DEF WindowCloses
<1>2. Adds({})
  BY <1>1, JournalKept DEF journal
<1>3. TypeOK'
  <2>1. FileTyped' /\ GraphTyped' /\ BotTyped'
    BY <1>1, <1>2, FileKept DEF TypeOK, GraphTyped, BotTyped, journal, graph, bot
  <2>2. CanaryTyped'
    BY <1>1 DEF TypeOK, CanaryTyped
  <2> QED
    BY <2>1, <2>2 DEF TypeOK
<1>4. RunOK' /\ StopOK' /\ OneCallOneHangup'
  BY <1>1 DEF RunOK, StopOK, OneCallOneHangup, journal, graph, bot
<1>5. AttemptsOnRecord' /\ RefusedOK' /\ EndedOK'
  BY <1>1, <1>2 DEF AttemptsOnRecord, RefusedOK, RefusedPlacedNothing, Unplaced,
                    EndedOK, EndedIsOver, Adds, graph
<1>6. RecordOK'
  BY <1>1, <1>2, RecordKept DEF RunOK
<1> QED
  BY <1>3, <1>4, <1>5, <1>6

\* The hang-up's answer, or what was read of the call, is logged.
LEMMA HangupLogStep ==
  ASSUME IInv, HangupStep, UNCHANGED bot
  PROVE  IInv'
<1> USE DEF IInv
<1>1. /\ UNCHANGED <<pc, outcome, shutdown, attempted, deadline, callId, heard, digests>>
      /\ UNCHANGED graph /\ attempted
      /\ hangup \in {"deleting", "observing"} /\ hangup' \in {"settled", "observing", "failed"}
  BY DEF HangupStep, HangupAnswered, HangupUncertain, HangupObserved, HangupLogs, RunOK
<1>2. PICK p \in {"hangup-result", "hangup-observation"} :
        Log(<<Entry(p, "")>>) \/ LogThrows(<<>>, Entry(p, ""))
  BY DEF HangupStep, HangupAnswered, HangupUncertain, HangupObserved, HangupLogs
<1>3. PICK E \in {{Entry(p, "")}, {}} : Adds(E) /\ closed' = closed
  <2>1. CASE Log(<<Entry(p, "")>>)
    BY <1>2, <2>1, EntryLogged DEF Phases, EntryStates
  <2>2. CASE LogThrows(<<>>, Entry(p, ""))
    BY <1>2, <2>2, EntryThrows DEF Phases, EntryStates
  <2> QED
    BY <1>2, <2>1, <2>2
<1>4. \A e \in E : e.phase \notin {"complete", "callback", "create-result"}
  <2>1. Entry(p, "").phase = p
    BY EntryPhase
  <2> QED
    BY <1>2, <1>3, <2>1
<1>5. file # <<>> /\ pc \notin {"off", "token"} /\ file' # <<>>
  BY <1>1, <1>3 DEF RunOK, Adds
<1>6. TypeOK'
  <2>1. FileTyped' /\ GraphTyped' /\ BotTyped'
    BY <1>1, <1>3, <1>4, FileKept DEF TypeOK, GraphTyped, BotTyped, graph, bot
  <2>2. CanaryTyped'
    BY <1>1 DEF TypeOK, CanaryTyped
  <2> QED
    BY <2>1, <2>2 DEF TypeOK
<1>7. RunOK' /\ StopOK' /\ OneCallOneHangup'
  BY <1>1, <1>5 DEF RunOK, StopOK, OneCallOneHangup, graph, bot
<1>8. AttemptsOnRecord' /\ RefusedOK' /\ EndedOK'
  <2>1. Adds(E)
    BY <1>3
  <2>2. AttemptsOnRecord'
    BY <1>1, <1>3 DEF AttemptsOnRecord, Adds, graph
  <2>3. RefusedOK'
    <3>1. Logged(Entry("complete", "refused"))' => Logged(Entry("complete", "refused"))
      BY <1>4, <2>1, NotAdded
    <3> QED
      BY <1>1, <3>1 DEF RefusedOK, RefusedPlacedNothing, Unplaced, graph
  <2>4. EndedOK'
    <3>1. Logged(Entry("complete", "ended"))' => Logged(Entry("complete", "ended"))
      BY <1>4, <2>1, NotAdded
    <3>2. Logged(Active)' => Logged(Active)
      BY <1>4, <2>1, NotAdded DEF Active
    <3>3. pc \in Running \union {"finishing"} => ~Logged(Entry("complete", "ended"))'
      BY <3>1 DEF EndedOK
    <3>4. UNCHANGED <<pc, outcome, callId, heard, phase>>
      BY <1>1 DEF graph
    <3> QED
      BY <3>1, <3>2, <3>3, <3>4 DEF EndedOK, EndedIsOver, Active
  <2> QED
    BY <2>2, <2>3, <2>4
<1>9. RecordOK'
  BY <1>1, <1>3, <1>4, <1>5, RecordKept
<1> QED
  BY <1>6, <1>7, <1>8, <1>9

\* What Graph does on its own leaves the canary and its file alone.
LEMMA GraphKeeps ==
  ASSUME IInv, UNCHANGED journal, UNCHANGED canary, UNCHANGED bot, UNCHANGED <<posts, deletes>>,
         GraphTyped', reply' # "none" => pc = "creating", RefusedOK',
         \A k \in Calls : phase[k] = Over => phase'[k] = Over
  PROVE  IInv'
<1> USE DEF IInv
<1>1. /\ UNCHANGED <<pc, outcome, shutdown, attempted, deadline, callId, heard, digests, hangup>>
      /\ UNCHANGED <<stage, gate, starts>> /\ UNCHANGED <<file, closed, left>>
  BY DEF canary, bot, journal
<1>2. Adds({})
  BY <1>1, JournalKept
<1>3. TypeOK'
  <2>1. FileTyped'
    BY <1>1, <1>2, FileKept
  <2>2. CanaryTyped'
    BY <1>1 DEF TypeOK, CanaryTyped
  <2>3. BotTyped'
    BY <1>1 DEF TypeOK, BotTyped
  <2> QED
    BY <2>1, <2>2, <2>3 DEF TypeOK
<1>4. RunOK' /\ StopOK' /\ OneCallOneHangup'
  BY <1>1 DEF RunOK, StopOK, OneCallOneHangup
<1>5. AttemptsOnRecord'
  BY <1>1, <1>2 DEF AttemptsOnRecord, Adds
<1>6. EndedOK'
  BY <1>1, <1>2 DEF EndedOK, EndedIsOver, Active, Adds, Calls
<1>7. RecordOK'
  BY <1>1, <1>2, RecordKept DEF RecordOK, CallbacksTellOneCall, Remembered
<1> QED
  BY <1>3, <1>4, <1>5, <1>6, <1>7

LEMMA GraphStep ==
  ASSUME IInv, Graph, UNCHANGED bot
  PROVE  IInv'
<1> USE DEF IInv
<1>1. /\ UNCHANGED journal /\ UNCHANGED canary /\ UNCHANGED <<posts, deletes>>
      /\ phase \in [Calls -> Heard] /\ Ours \in Calls /\ 1 \in Heard /\ Over \in Heard /\ Over # 0
  <2>1. UNCHANGED journal /\ UNCHANGED canary /\ UNCHANGED <<posts, deletes>>
    BY DEF Graph, Places, Declines, Advances, Deletes
  <2>2. phase \in [Calls -> Heard] /\ Ours \in Calls
    BY DEF TypeOK, GraphTyped, Calls
  <2>3. 1 \in Heard /\ Over \in Heard /\ Over # 0
    BY CanaryAssumption DEF Heard, Over
  <2> QED
    BY <2>1, <2>2, <2>3
<1>2. Logged(Entry("complete", "refused"))' <=> Logged(Entry("complete", "refused"))
  BY <1>1 DEF journal, Logged
<1>3. CASE Places
  <2>1. /\ wire' = wire \ {<<"post", Ours>>} /\ <<"post", Ours>> \in wire /\ phase[Ours] = 0
        /\ phase' = [phase EXCEPT ![Ours] = 1]
        /\ reply' = reply \/ (pc = "creating" /\ reply' \in {"none", "created"})
    BY <1>3 DEF Places, RefusedOK
  <2>2. GraphTyped'
    BY <1>1, <2>1 DEF TypeOK, GraphTyped
  <2>3. RefusedOK'
    BY <1>1, <1>2, <2>1 DEF RefusedOK, RefusedPlacedNothing, Unplaced, canary
  <2>4. \A k \in Calls : phase[k] = Over => phase'[k] = Over
    BY <1>1, <2>1
  <2> QED
    BY <1>1, <2>1, <2>2, <2>3, <2>4, GraphKeeps DEF RunOK
<1>4. CASE Declines
  <2>1. /\ wire' = wire \ {<<"post", Ours>>} /\ <<"post", Ours>> \in wire /\ phase' = phase
        /\ reply' = reply \/ (pc = "creating" /\ reply' \in {"none", "refused"})
    BY <1>4 DEF Declines
  <2>2. GraphTyped'
    BY <2>1, <1>1 DEF TypeOK, GraphTyped
  <2>3. RefusedOK'
    BY <1>1, <1>2, <2>1 DEF RefusedOK, RefusedPlacedNothing, Unplaced, canary
  <2> QED
    BY <1>1, <2>1, <2>2, <2>3, GraphKeeps DEF RunOK
<1>5. ASSUME NEW k \in Calls, Advances(k)
      PROVE  IInv'
  <2>1. PICK r \in Ranks : r > phase[k] /\ phase' = [phase EXCEPT ![k] = r]
    BY <1>5 DEF Advances
  <2>2. phase[k] > 0 /\ wire' = wire /\ reply' = reply
    BY <1>5 DEF Advances
  <2>3. r \in Heard /\ r <= Over
    BY CanaryAssumption DEF Heard, Over
  <2>4. GraphTyped'
    BY <1>1, <2>1, <2>2, <2>3 DEF TypeOK, GraphTyped
  <2>5. /\ phase[Ours] = 0 => phase'[Ours] = 0
        /\ \A c \in Calls : phase[c] = Over => phase'[c] = Over
    BY <1>1, <2>1, <2>2, <2>3, CanaryAssumption DEF Over, Heard
  <2>6. RefusedOK'
    BY <1>1, <1>2, <2>2, <2>5 DEF RefusedOK, RefusedPlacedNothing, Unplaced, canary
  <2> QED
    BY <1>1, <2>2, <2>4, <2>5, <2>6, GraphKeeps DEF RunOK
<1>6. ASSUME NEW k \in Calls, Deletes(k)
      PROVE  IInv'
  <2>1. /\ wire' = wire \ {<<"delete", k>>} /\ reply' = reply
        /\ phase' = phase \/ phase' = [phase EXCEPT ![k] = IF @ = 0 THEN 0 ELSE Over]
    BY <1>6 DEF Deletes
  <2>2. GraphTyped'
    BY <1>1, <2>1, CanaryAssumption DEF TypeOK, GraphTyped, Heard
  <2>3. /\ phase[Ours] = 0 => phase'[Ours] = 0
        /\ \A c \in Calls : phase[c] = Over => phase'[c] = Over
    BY <1>1, <2>1
  <2>4. RefusedOK'
    BY <1>1, <1>2, <2>1, <2>3 DEF RefusedOK, RefusedPlacedNothing, Unplaced, canary
  <2> QED
    BY <1>1, <2>1, <2>2, <2>3, <2>4, GraphKeeps DEF RunOK
<1> QED
  BY <1>3, <1>4, <1>5, <1>6 DEF Graph

\* A callback is recorded and believed, and may start the hang-up.
LEMMA CallbackStep ==
  ASSUME IInv, NEW k \in Calls, NEW r \in Ranks, NEW b \in Bodies,
         Callback(k, r, b), UNCHANGED bot
  PROVE  IInv'
<1> USE DEF IInv
<1> DEFINE C == CallbackEntry(k, r, b)
<1>1. /\ attempted /\ <<k, r, b>> \notin digests /\ callId \in {NoCall, k}
      /\ r >= heard /\ r <= phase[k]
      /\ digests' = digests \union {<<k, r, b>>} /\ callId' = k /\ heard' = r
      /\ UNCHANGED <<pc, outcome, shutdown, attempted, deadline, phase, reply, posts>>
  BY DEF Callback, Accepts
<1>2. /\ C \in Entries /\ C.phase = "callback" /\ C.call = k /\ C.rank = r /\ C.body = b
      /\ \A p, s : p # "callback" => C # Entry(p, s)
  <2>1. C \in Entries
    BY CallbackTyped
  <2> QED
    BY <2>1 DEF CallbackEntry, Entry
<1>3. PICK F \in {{C}, {C} \union {HangupEntry}} :
        Adds(F) /\ StartsHangup(F) /\ closed' = closed
  <2>1. /\ Log(<<C>>) => Adds({C})
        /\ Extends(<<C>> \o <<HangupEntry>>) => Adds({C} \union {HangupEntry})
    <3>1. {C} \union {HangupEntry} = {C, HangupEntry}
      OBVIOUS
    <3>2. HangupEntry.phase # "callback"
      BY HangupEntryTyped
    <3> QED
      BY <1>2, <3>1, <3>2, AddsOne, AddsTwo, LogExtends, HangupEntryTyped DEF TypeOK, FileTyped
  <2>2. CASE ~HangupShared /\ HangUp(k, <<C>>)
    BY <1>1, <2>1, <2>2, HangUpStarts
  <2>3. CASE NoHangup(<<C>>)
    <3>1. Adds({C}) /\ closed' = closed /\ StartsHangup({C})
      BY <2>1, <2>3 DEF NoHangup, Log, StartsHangup
    <3> QED
      BY <3>1
  <2> QED
    BY <2>2, <2>3 DEF Callback
<1> HIDE DEF C
<1>4. /\ \A e \in F : e.phase \in {"callback", "hangup-attempting"}
      /\ \A e \in F : e.phase = "callback" => e = C
  BY <1>2, <1>3, HangupEntryTyped
<1>5. pc \notin {"off", "token"} /\ file # <<>> /\ file' # <<>>
  BY <1>1, <1>3 DEF RunOK, Adds
<1>6. r \in 1..Over /\ r \in Heard /\ k \in CallIds /\ k # NoCall /\ phase[k] \in 0..Over
  BY CanaryAssumption DEF Heard, CallIds, Calls, Over, TypeOK, GraphTyped
<1>7. TypeOK'
  <2>1. FileTyped'
    BY <1>3, <1>4, FileKept
  <2>2. digests' \subseteq Calls \X Ranks \X Bodies
    <3>1. <<k, r, b>> \in Calls \X Ranks \X Bodies
      OBVIOUS
    <3>2. digests \subseteq Calls \X Ranks \X Bodies
      BY DEF TypeOK, CanaryTyped
    <3> QED
      BY <1>1, <3>1, <3>2, Zenon
  <2>3. hangup' \in {"none", "deleting", "observing", "settled", "failed"}
    BY <1>3 DEF StartsHangup, TypeOK, CanaryTyped
  <2>4. CanaryTyped'
    BY <1>1, <1>6, <2>2, <2>3 DEF TypeOK, CanaryTyped
  <2>5. deletes' \in Nat /\ wire' \subseteq {"post", "delete"} \X Calls
    BY <1>1, <1>3 DEF StartsHangup, TypeOK, GraphTyped
  <2>6. GraphTyped' /\ BotTyped'
    BY <1>1, <2>5 DEF TypeOK, GraphTyped, BotTyped, bot
  <2> QED
    BY <2>1, <2>4, <2>6 DEF TypeOK
<1>8. RunOK'
  <2>1. /\ attempted /\ hangup' = "none" => deletes' = 0
        /\ hangup' # "none" => attempted
    BY <1>3 DEF StartsHangup, RunOK
  <2> QED
    BY <1>1, <1>5, <2>1 DEF RunOK
<1>9. StopOK' /\ OneCallOneHangup'
  <2>1. attempted /\ hangup = "none" => deletes = 0
    BY DEF RunOK
  <2>2. deletes' = deletes \/ (attempted /\ hangup = "none" /\ deletes' = deletes + 1)
    BY <1>3 DEF StartsHangup
  <2> QED
    BY <1>1, <1>5, <2>1, <2>2 DEF OneCallOneHangup, StopOK
<1>10. AttemptsOnRecord'
  BY <1>1, <1>3 DEF StartsHangup, HangupEntry, AttemptsOnRecord, Adds
<1>11. RefusedOK'
  <2>1. /\ <<"post", Ours>> \in wire' <=> <<"post", Ours>> \in wire
        /\ phase' = phase
    BY <1>1, <1>3 DEF StartsHangup
  <2>2. Logged(Entry("complete", "refused"))' <=> Logged(Entry("complete", "refused"))
    BY <1>3, <1>4, NotAdded
  <2> QED
    BY <1>1, <2>1, <2>2 DEF RefusedOK, RefusedPlacedNothing, Unplaced
<1>12. EndedOK'
  <2>1. Logged(Entry("complete", "ended"))' <=> Logged(Entry("complete", "ended"))
    BY <1>3, <1>4, NotAdded
  <2>2. Logged(Active)' <=> Logged(Active)
    BY <1>3, <1>4, NotAdded DEF Active
  <2>3. heard' = Over => phase[k] = Over
    BY <1>1, <1>6 DEF Over
  <2>4. outcome = "ended" => heard' = Over
    BY <1>1, <1>6 DEF Over, EndedOK
  <2>5. callId = Ours => k = Ours
    BY <1>1, CanaryAssumption
  <2>6. (pc \in Running \union {"finishing"} => ~Logged(Entry("complete", "ended")))'
    BY <1>1, <2>1 DEF EndedOK
  <2>7. EndedIsOver'
    BY <1>1, <2>1, <2>2 DEF EndedOK, EndedIsOver, Active
  <2> QED
    BY <1>1, <1>5, <2>2, <2>3, <2>4, <2>5, <2>6, <2>7 DEF EndedOK
<1>13. RecordOK'
  <2>1. /\ left \subseteq left'
        /\ \A j \in 1..Len(file') : file'[j].phase = "callback" =>
             \/ j \in 1..Len(file) /\ file'[j] = file[j]
             \/ j = Len(file) + 1 /\ file'[j] = C
    BY <1>3, <1>4 DEF Adds
  <2>2. ASSUME NEW i \in 1..Len(file), i \notin left, file[i].phase = "callback"
        PROVE  /\ file[i].call = k /\ file[i].rank <= heard /\ file[i].rank \in Nat
               /\ <<file[i].call, file[i].rank, file[i].body>> \in digests
               /\ file[i].rank <= r /\ file[i] # C
    <3>1. /\ file[i].call \in Calls /\ callId = file[i].call /\ file[i].rank <= heard
          /\ <<file[i].call, file[i].rank, file[i].body>> \in digests
      BY <1>5, <2>2 DEF RecordOK, Remembered
    <3>2. file[i].rank \in Ranks /\ heard \in Heard
      BY <3>1 DEF TypeOK, CanaryTyped
    <3>3. file[i].rank \in Nat /\ heard \in Nat
      <4>1. \A n \in Heard : n \in Nat
        BY CanaryAssumption DEF Heard, Over
      <4> QED
        BY <3>2, <4>1 DEF Heard
    <3>4. file[i].call = k
      BY <1>1, <3>1, CanaryAssumption DEF Calls
    <3> QED
      BY <1>1, <1>2, <1>6, <3>1, <3>3, <3>4
  <2>3. ASSUME NEW i \in 1..Len(file'), NEW j \in 1..Len(file'), i < j, i \notin left',
               file'[i].phase = "callback", file'[j].phase = "callback"
        PROVE  /\ file'[i].call = file'[j].call /\ file'[i].rank <= file'[j].rank
               /\ file'[i] # file'[j]
    <3>1. i \in 1..Len(file) /\ file'[i] = file[i] /\ i \notin left
      BY <2>1, <2>3
    <3>2. CASE j \in 1..Len(file) /\ file'[j] = file[j]
      BY <2>3, <3>1, <3>2 DEF RecordOK, CallbacksTellOneCall
    <3>3. CASE file'[j] = C
      BY <1>2, <2>2, <2>3, <3>1, <3>3
    <3> QED
      BY <2>1, <2>3, <3>2, <3>3
  <2>4. ASSUME NEW j \in 1..Len(file'), j \notin left', file'[j].phase = "callback"
        PROVE  /\ file'[j].call \in Calls /\ callId' = file'[j].call
               /\ file'[j].rank <= heard'
               /\ <<file'[j].call, file'[j].rank, file'[j].body>> \in digests'
    BY <1>1, <1>2, <1>6, <2>1, <2>2, <2>4
  <2> QED
    BY <2>3, <2>4 DEF RecordOK, CallbacksTellOneCall, Remembered
<1> QED
  BY <1>7, <1>8, <1>9, <1>10, <1>11, <1>12, <1>13

\* An append throws, and nothing but the file changes, if that.
LEMMA CallbackThrowStep ==
  ASSUME IInv, NEW k \in Calls, NEW r \in Ranks, NEW b \in Bodies,
         CallbackThrows(k, r, b), UNCHANGED bot
  PROVE  IInv'
<1> USE DEF IInv
<1> DEFINE C == CallbackEntry(k, r, b)
<1>1. /\ attempted /\ <<k, r, b>> \notin digests /\ callId \in {NoCall, k} /\ r >= heard
      /\ UNCHANGED <<pc, outcome, shutdown, attempted, deadline, callId, heard, digests, hangup>>
      /\ UNCHANGED <<phase, wire, reply, posts, deletes>> /\ UNCHANGED <<stage, gate, starts>>
  BY DEF CallbackThrows, Accepts, canary, graph, bot
<1>2. C \in Entries /\ C.phase = "callback" /\ C.call = k /\ C.rank = r /\ C.body = b
  BY CallbackTyped DEF CallbackEntry
<1>3. PICK E \in {{}, {C}} : Adds(E) /\ closed' = closed
  <2>1. LogThrows(<<>>, C) /\ file \in Seq(Entries)
    BY DEF CallbackThrows, TypeOK, FileTyped
  <2> HIDE DEF C
  <2> QED
    BY <1>2, <2>1, ThrowAdds, ThrowExtends
<1>31. \/ left' = left /\ file' = file
       \/ Len(file) + 1 \in left'
  <2>1. CASE Log(<<>>)
    BY <2>1, LogNone DEF TypeOK, FileTyped
  <2>2. CASE file' = file \o (<<>> \o <<C>>) /\ left' = left \union {Len(file')}
    <3>1. Len(file') = Len(file) + 1
      <4> HIDE DEF C
      <4> QED
        BY <1>2, <2>2 DEF TypeOK, FileTyped
    <3> QED
      BY <2>2, <3>1
  <2> QED
    BY <2>1, <2>2 DEF CallbackThrows, LogThrows
<1> HIDE DEF C
<1>4. \A e \in E : e.phase = "callback" /\ e = C
  BY <1>2, <1>3
<1>5. pc \notin {"off", "token"} /\ file # <<>> /\ file' # <<>>
  BY <1>1, <1>3 DEF RunOK, Adds
<1>6. TypeOK'
  <2>1. FileTyped'
    BY <1>3, <1>4, FileKept
  <2>2. CanaryTyped'
    BY <1>1 DEF TypeOK, CanaryTyped
  <2>3. GraphTyped' /\ BotTyped'
    BY <1>1 DEF TypeOK, GraphTyped, BotTyped
  <2> QED
    BY <2>1, <2>2, <2>3 DEF TypeOK
<1>7. RunOK' /\ StopOK' /\ OneCallOneHangup'
  BY <1>1, <1>5 DEF RunOK, StopOK, OneCallOneHangup
<1>8. AttemptsOnRecord'
  BY <1>1, <1>3 DEF AttemptsOnRecord, Adds
<1>9. /\ Logged(Entry("complete", "refused"))' <=> Logged(Entry("complete", "refused"))
      /\ Logged(Entry("complete", "ended"))' <=> Logged(Entry("complete", "ended"))
      /\ Logged(Active)' <=> Logged(Active)
  BY <1>3, <1>4, NotAdded DEF Active
<1>10. RefusedOK'
  BY <1>1, <1>9 DEF RefusedOK, RefusedPlacedNothing, Unplaced
<1>11. EndedOK'
  BY <1>1, <1>9 DEF EndedOK, EndedIsOver, Active
<1>12. RecordOK'
  <2>1. /\ left \subseteq left'
        /\ \A j \in 1..Len(file') : file'[j].phase = "callback" =>
             \/ j \in 1..Len(file) /\ file'[j] = file[j]
             \/ j = Len(file) + 1 /\ file'[j] = C
    BY <1>3, <1>4 DEF Adds
  <2>2. ASSUME NEW i \in 1..Len(file), i \notin left, file[i].phase = "callback"
        PROVE  file[i].call = k /\ file[i].rank <= r /\ file[i] # C
    <3>1. /\ file[i].call \in Calls /\ callId = file[i].call /\ file[i].rank <= heard
          /\ <<file[i].call, file[i].rank, file[i].body>> \in digests
      BY <1>5, <2>2 DEF RecordOK, Remembered
    <3>2. file[i].rank \in Nat /\ heard \in Nat /\ r \in Nat
      <4>1. \A n \in Heard : n \in Nat
        BY CanaryAssumption DEF Heard, Over
      <4>2. file[i].rank \in Heard /\ heard \in Heard /\ r \in Heard
        BY <3>1 DEF TypeOK, CanaryTyped, Heard
      <4> QED
        BY <4>1, <4>2
    <3>3. file[i].call = k
      BY <1>1, <3>1, CanaryAssumption DEF Calls
    <3> QED
      BY <1>1, <1>2, <3>1, <3>2, <3>3
  <2>3. ASSUME NEW i \in 1..Len(file'), NEW j \in 1..Len(file'), i < j, i \notin left',
               file'[i].phase = "callback", file'[j].phase = "callback"
        PROVE  /\ file'[i].call = file'[j].call /\ file'[i].rank <= file'[j].rank
               /\ file'[i] # file'[j]
    <3>1. i \in 1..Len(file) /\ file'[i] = file[i] /\ i \notin left
      BY <1>31, <2>1, <2>3
    <3>2. CASE j \in 1..Len(file) /\ file'[j] = file[j]
      BY <2>3, <3>1, <3>2 DEF RecordOK, CallbacksTellOneCall
    <3>3. CASE file'[j] = C
      BY <1>2, <2>2, <2>3, <3>1, <3>3
    <3> QED
      BY <2>1, <2>3, <3>2, <3>3
  <2>4. ASSUME NEW j \in 1..Len(file'), j \notin left', file'[j].phase = "callback"
        PROVE  /\ file'[j].call \in Calls /\ callId' = file'[j].call
               /\ file'[j].rank <= heard'
               /\ <<file'[j].call, file'[j].rank, file'[j].body>> \in digests'
    <3>1. j \in 1..Len(file) /\ file'[j] = file[j] /\ j \notin left
      BY <1>31, <2>1, <2>4
    <3> QED
      BY <1>1, <1>5, <2>4, <3>1 DEF RecordOK, Remembered
  <2> QED
    BY <2>3, <2>4 DEF RecordOK, CallbacksTellOneCall, Remembered
<1> QED
  BY <1>6, <1>7, <1>8, <1>10, <1>11, <1>12

-----------------------------------------------------------------------------
\* Each step of the process around the canary preserves the invariant

\* Steps that leave the canary's memory, its file and Graph as they are.
HostMoves == Start \/ GateRetries \/ GateCloses \/ Stop \/ Drain \/ Exit

LEMMA HostStep ==
  ASSUME IInv, HostMoves
  PROVE  IInv'
<1> USE DEF IInv
<1>1. UNCHANGED <<file, left, pc, outcome, attempted, deadline, callId, heard, digests, hangup>>
  BY DEF HostMoves, Start, GateRetries, GateCloses, Stop, Drain, Exit, canary, journal
<1>2. UNCHANGED <<phase, wire, reply, posts, deletes>>
  BY DEF HostMoves, Start, GateRetries, GateCloses, Stop, Drain, Exit, graph
<1>3. closed' = closed \/ closed' \in BOOLEAN
  BY DEF HostMoves, Start, GateRetries, GateCloses, Stop, Drain, Exit, journal
<1>4. shutdown' = shutdown \/ shutdown' = (pc # "off")
  BY DEF HostMoves, Start, GateRetries, GateCloses, Stop, Drain, Exit, canary
<1>5. BotTyped'
  <2>1. MaxStarts \in Nat
    BY BotAssumption
  <2> QED
    BY <2>1 DEF HostMoves, Start, GateRetries, GateCloses, Stop, Drain, Exit, TypeOK, BotTyped
<1>6. Adds({})
  BY <1>1, JournalKept
<1>7. TypeOK'
  <2>1. FileTyped'
    BY <1>3, <1>6, FileKept
  <2>2. shutdown' \in BOOLEAN
    BY <1>4 DEF TypeOK, CanaryTyped
  <2>3. CanaryTyped'
    BY <1>1, <2>2 DEF TypeOK, CanaryTyped
  <2>4. GraphTyped'
    BY <1>2 DEF TypeOK, GraphTyped
  <2> QED
    BY <1>5, <2>1, <2>3, <2>4 DEF TypeOK
<1>8. RunOK' /\ OneCallOneHangup'
  BY <1>1, <1>2 DEF RunOK, OneCallOneHangup
<1>9. StopOK'
  <2>1. CASE Start \/ GateRetries \/ GateCloses \/ Exit
    BY <1>1, <2>1 DEF StopOK, Start, GateRetries, GateCloses, Exit, canary
  <2>2. CASE Stop
    BY <1>1, <2>2 DEF StopOK, Stop
  <2>3. CASE Drain
    BY <1>1, <2>3 DEF StopOK, Drain
  <2> QED
    BY <2>1, <2>2, <2>3 DEF HostMoves
<1>10. AttemptsOnRecord' /\ RefusedOK' /\ EndedOK'
  BY <1>1, <1>2, <1>6 DEF AttemptsOnRecord, RefusedOK, RefusedPlacedNothing, Unplaced,
                          EndedOK, EndedIsOver, Active, Adds
<1>11. RecordOK'
  BY <1>1, <1>6, RecordKept DEF RecordOK, CallbacksTellOneCall, Remembered
<1> QED
  BY <1>7, <1>8, <1>9, <1>10, <1>11

LEMMA OverNotZero == Over # 0 /\ 0 <= 1 /\ ~(0 > 0)
  BY DEF Over

LEMMA NewCanaryTyped ==
  ASSUME NewCanary, pc' \in {"off", "token"}
  PROVE  CanaryTyped'
<1>1. NoCall \in CallIds /\ 0 \in Heard
  BY DEF CallIds, Heard
<1>2. {} \subseteq Calls \X Ranks \X Bodies
  OBVIOUS
<1> QED
  BY <1>1, <1>2 DEF NewCanary, CanaryTyped

\* The process ends: what it remembered is gone, the file stays.
LEMMA DiesStep ==
  ASSUME IInv, Dies
  PROVE  IInv'
<1> USE DEF IInv
<1>1. /\ pc' = "off" /\ outcome' = "" /\ ~attempted' /\ callId' = NoCall /\ heard' = 0
      /\ hangup' = "none" /\ reply' = "none"
      /\ UNCHANGED <<file, closed, left>> /\ UNCHANGED <<phase, wire, posts, deletes>>
  BY DEF Dies, NewCanary, journal
<1>2. Adds({})
  BY <1>1, JournalKept
<1>3. TypeOK'
  <2>1. FileTyped'
    BY <1>1, <1>2, FileKept
  <2>2. CanaryTyped'
    BY <1>1, NewCanaryTyped DEF Dies
  <2>3. GraphTyped' /\ BotTyped'
    BY <1>1 DEF Dies, TypeOK, GraphTyped, BotTyped
  <2> QED
    BY <2>1, <2>2, <2>3 DEF TypeOK
<1>4. RunOK' /\ StopOK' /\ OneCallOneHangup'
  BY <1>1 DEF RunOK, StopOK, OneCallOneHangup, Running
<1>5. AttemptsOnRecord'
  BY <1>1, <1>2 DEF AttemptsOnRecord, Adds
<1>6. RefusedOK'
  BY <1>1, <1>2 DEF RefusedOK, RefusedPlacedNothing, Unplaced, Adds
<1>7. EndedOK'
  <2>1. heard' # Over
    BY <1>1, OverNotZero, Zenon
  <2>2. EndedIsOver'
    BY <1>1, <1>2 DEF EndedOK, EndedIsOver, Adds
  <2> QED
    BY <1>1, <2>1, <2>2 DEF EndedOK, Running
<1>8. RecordOK'
  BY <1>1, <1>2, RecordKept
<1> QED
  BY <1>3, <1>4, <1>5, <1>6, <1>7, <1>8

\* A canary is made on a fresh file: nothing was ever sent before.
LEMMA DispatchStep ==
  ASSUME IInv, Dispatch
  PROVE  IInv'
<1> USE DEF IInv
<1> DEFINE e == Entry("opened", "")
<1>1. /\ pc' = "token" /\ outcome' = "" /\ ~attempted' /\ callId' = NoCall /\ heard' = 0
      /\ hangup' = "none" /\ file = <<>> /\ file' = <<e>> /\ closed' = FALSE /\ left' = left
      /\ stage' = "up" /\ UNCHANGED <<phase, wire, reply, posts, deletes>>
  BY DEF Dispatch, Open, NewCanary, graph
<1>2. posts = 0 /\ deletes = 0 /\ reply = "none"
  BY <1>1 DEF RunOK
<1>3. e \in Entries /\ e.phase = "opened"
  BY OpenedTyped, EntryPhase
<1>4. Len(file') = 1 /\ file'[1] = e /\ file' \in Seq(Entries)
  <2>1. Len(<<e>>) = 1 /\ <<e>>[1] = e /\ <<e>> \in Seq(Entries)
    <3> HIDE DEF e
    <3> QED
      BY <1>3
  <2> QED
    BY <1>1, <2>1, Zenon
<1>5. 1..Len(file') = {1}
  <2>1. Len(file') = 1
    BY <1>4
  <2> QED
    BY <2>1
<1>6. \A i \in 1..Len(file') : file'[i] = e
  BY <1>4, <1>5
<1>7. TypeOK'
  <2>1. FileTyped'
    <3>1. left = {} /\ left' = left
      <4>1. left \subseteq 1..Len(file)
        BY DEF TypeOK, FileTyped
      <4>2. Len(file) = 0
        BY <1>1
      <4>3. 1..0 = {}
        OBVIOUS
      <4> QED
        BY <1>1, <4>1, <4>2, <4>3
    <3> HIDE DEF e
    <3> QED
      BY <1>1, <1>3, <1>4, <1>6, <3>1 DEF TypeOK, FileTyped
  <2>2. CanaryTyped'
    BY <1>1, NewCanaryTyped DEF Dispatch
  <2>3. GraphTyped' /\ BotTyped'
    BY <1>1 DEF Dispatch, TypeOK, GraphTyped, BotTyped
  <2> QED
    BY <2>1, <2>2, <2>3 DEF TypeOK
<1>8. ~Logged(Entry("complete", "ended"))' /\ ~Logged(Entry("complete", "refused"))'
      /\ ~Logged(Active)'
  <2>1. /\ e # Entry("complete", "ended") /\ e # Entry("complete", "refused")
        /\ e # Active
    BY DEF Entry, Active
  <2> HIDE DEF e
  <2> QED
    BY <1>6, <2>1 DEF Logged
<1>9. RunOK'
  <2>1. file' # <<>> /\ reply' = "none" /\ posts' = 0 /\ deletes' = 0
    BY <1>1, <1>2, <1>4
  <2>2. pc' = "token" /\ outcome' = "" /\ file' = <<e>> /\ callId' = NoCall /\ heard' = 0
    BY <1>1, Zenon
  <2> HIDE DEF e
  <2> QED
    BY <1>1, <2>1, <2>2 DEF RunOK, Running, e
<1>10. StopOK' /\ OneCallOneHangup' /\ AttemptsOnRecord'
  BY <1>1, <1>2, OverNotZero, Zenon DEF StopOK, OneCallOneHangup, AttemptsOnRecord
<1>11. RefusedOK'
  <2>1. UNCHANGED <<phase, wire, reply, posts>> /\ outcome' # "refused"
    BY <1>1
  <2> QED
    BY <1>8, <2>1 DEF RefusedOK, RefusedPlacedNothing, Unplaced
<1>12. EndedOK'
  <2>1. heard' # Over /\ outcome' # "ended"
    <3>1. outcome' # "ended"
      BY <1>1
    <3> QED
      BY <1>1, <3>1, OverNotZero, Zenon
  <2> QED
    BY <1>8, <2>1 DEF EndedOK, EndedIsOver
<1>13. RecordOK'
  <2>1. \A i \in 1..Len(file') : file'[i].phase # "callback"
    BY <1>3, <1>6
  <2> QED
    BY <2>1 DEF RecordOK, CallbacksTellOneCall, Remembered
<1> QED
  BY <1>7, <1>9, <1>10, <1>11, <1>12, <1>13

\* The file is left behind by a dispatch that threw: nothing was ever sent.
LEMMA DispatchThrowStep ==
  ASSUME IInv, DispatchThrows
  PROVE  IInv'
<1> USE DEF IInv
<1> DEFINE e == Entry("opened", "")
<1>1. /\ UNCHANGED <<pc, outcome, shutdown, attempted, deadline, callId, heard, digests, hangup>>
      /\ UNCHANGED <<phase, wire, reply, posts, deletes>> /\ UNCHANGED <<stage, gate, starts>>
      /\ file = <<>> /\ file' = <<e>> /\ left' = {1} /\ closed' = closed
  BY DEF DispatchThrows, OpenThrows, canary, graph, bot
<1>2. posts = 0 /\ deletes = 0 /\ pc = "off"
  BY <1>1 DEF RunOK
<1>3. e \in Entries /\ e.phase = "opened"
  BY OpenedTyped, EntryPhase
<1>4. Len(file') = 1 /\ file'[1] = e /\ file' \in Seq(Entries) /\ file' # <<>>
  <2> HIDE DEF e
  <2> QED
    BY <1>1, <1>3
<1>5. 1..Len(file') = {1}
  <2>1. Len(file') = 1
    BY <1>4
  <2> QED
    BY <2>1
<1>6. \A i \in 1..Len(file') : file'[i] = e
  BY <1>4, <1>5
<1>7. TypeOK'
  <2>1. FileTyped'
    <3> HIDE DEF e
    <3> QED
      BY <1>1, <1>3, <1>4, <1>5, <1>6 DEF TypeOK, FileTyped
  <2>2. CanaryTyped'
    BY <1>1 DEF TypeOK, CanaryTyped
  <2>3. GraphTyped' /\ BotTyped'
    BY <1>1 DEF TypeOK, GraphTyped, BotTyped
  <2> QED
    BY <2>1, <2>2, <2>3 DEF TypeOK
<1>8. ~Logged(Entry("complete", "ended"))' /\ ~Logged(Entry("complete", "refused"))'
      /\ ~Logged(Active)'
  <2>1. /\ e # Entry("complete", "ended") /\ e # Entry("complete", "refused")
        /\ e # Active
    BY DEF Entry, Active
  <2> HIDE DEF e
  <2> QED
    BY <1>6, <2>1 DEF Logged
<1>9. RunOK' /\ StopOK' /\ OneCallOneHangup'
  BY <1>1, <1>2, <1>4 DEF RunOK, StopOK, OneCallOneHangup
<1>10. AttemptsOnRecord'
  BY <1>1, <1>2, OverNotZero, Zenon DEF AttemptsOnRecord
<1>11. RefusedOK' /\ EndedOK'
  BY <1>1, <1>2, <1>8 DEF RefusedOK, RefusedPlacedNothing, Unplaced, EndedOK, EndedIsOver,
                         Running
<1>12. RecordOK'
  <2>1. \A i \in 1..Len(file') : file'[i].phase # "callback"
    BY <1>3, <1>6
  <2> QED
    BY <2>1 DEF RecordOK, CallbacksTellOneCall, Remembered
<1> QED
  BY <1>7, <1>9, <1>10, <1>11, <1>12

-----------------------------------------------------------------------------
\* The theorems

LEMMA InitIInv == Init => IInv
<1> SUFFICES ASSUME Init
             PROVE  IInv
  OBVIOUS
<1>1. FileTyped /\ Len(file) = 0
  <2>1. file = <<>> /\ closed = FALSE /\ left = {}
    BY DEF Init
  <2>2. file \in Seq(Entries) /\ Len(file) = 0 /\ 1..Len(file) = {}
    BY <2>1
  <2> QED
    BY <2>1, <2>2 DEF FileTyped
<1>2. CanaryTyped
  <2>1. NoCall \in CallIds /\ 0 \in Heard
    BY DEF CallIds, Heard
  <2> QED
    BY <2>1 DEF Init, CanaryTyped
<1>3. GraphTyped
  <2>1. 0 \in Heard /\ 1 \in Heard
    BY CanaryAssumption DEF Heard
  <2> QED
    BY <2>1 DEF Init, GraphTyped
<1>4. BotTyped
  <2>1. 0 \in 0..MaxStarts
    BY BotAssumption
  <2> QED
    BY <2>1, Zenon DEF Init, BotTyped
<1>5. \A x : ~Logged(x)
  BY <1>1 DEF Logged
<1>6. RunOK /\ StopOK /\ OneCallOneHangup /\ AttemptsOnRecord
  <2>1. /\ file = <<>> /\ pc = "off" /\ ~attempted /\ posts = 0 /\ deletes = 0
        /\ hangup = "none" /\ reply = "none" /\ outcome = ""
    BY DEF Init
  <2>2. RunOK
    BY <2>1 DEF RunOK, Running
  <2>3. StopOK
    BY <2>1 DEF StopOK
  <2> QED
    BY <2>1, <2>2, <2>3, OverNotZero, Zenon DEF OneCallOneHangup, AttemptsOnRecord
<1>7. RefusedOK
  <2>1. phase[Ours] = 0 /\ wire = {} /\ reply = "none" /\ outcome = ""
    BY DEF Init, Calls
  <2> QED
    BY <1>5, <2>1 DEF RefusedOK, RefusedPlacedNothing, Unplaced
<1>8. EndedOK
  <2>1. heard # Over
    BY OverNotZero, Zenon DEF Init
  <2>2. outcome # "ended"
    BY DEF Init
  <2> QED
    BY <1>5, <2>1, <2>2 DEF EndedOK, EndedIsOver
<1>9. RecordOK
  <2>1. pc = "off"
    BY DEF Init
  <2> QED
    BY <1>1, <2>1 DEF RecordOK, CallbacksTellOneCall
<1> QED
  BY <1>1, <1>2, <1>3, <1>4, <1>6, <1>7, <1>8, <1>9 DEF IInv, TypeOK

LEMMA NextIInv == IInv /\ [Next]_vars => IInv'
<1> SUFFICES ASSUME IInv, [Next]_vars
             PROVE  IInv'
  OBVIOUS
<1>1. CASE CanaryStep /\ UNCHANGED bot
  <2>1. CASE Run
    BY <1>1, <2>1, AttemptStep, QuietStep, ConfirmedStep, AnswerStep, KnownStep, CompleteStep
       DEF Run, RunOn
  <2>2. CASE HangupStep
    BY <1>1, <2>2, HangupLogStep
  <2>3. CASE WindowCloses
    BY <1>1, <2>3, WindowStep
  <2> QED
    BY <1>1, <2>1, <2>2, <2>3 DEF CanaryStep
<1>2. CASE Graph /\ UNCHANGED bot
  BY <1>2, GraphStep
<1>3. ASSUME NEW k \in Calls, NEW r \in Ranks, NEW b \in Bodies, Deliver(k, r, b)
      PROVE  IInv'
  BY <1>3, CallbackStep, CallbackThrowStep DEF Deliver
<1>4. CASE Start \/ GateRetries \/ GateCloses \/ Stop \/ Drain \/ Exit
  BY <1>4, HostStep DEF HostMoves
<1>5. CASE Dispatch
  BY <1>5, DispatchStep
<1>8. CASE DispatchThrows
  BY <1>8, DispatchThrowStep
<1>6. CASE DrainFails \/ Crash
  BY <1>6, DiesStep DEF DrainFails, Crash
<1>7. CASE UNCHANGED vars
  <2>1. /\ UNCHANGED <<file, closed, left>> /\ UNCHANGED <<stage, gate, starts>>
        /\ UNCHANGED <<pc, outcome, shutdown, attempted, deadline, callId, heard, digests, hangup>>
        /\ UNCHANGED <<phase, wire, reply, posts, deletes>>
    BY <1>7 DEF vars, journal, canary, graph, bot
  <2>2. GraphTyped' /\ RefusedOK' /\ (reply' # "none" => pc = "creating")
    BY <1>7, <2>1 DEF IInv, TypeOK, GraphTyped, RefusedOK, RefusedPlacedNothing, Unplaced,
                      Logged, RunOK
  <2> QED
    BY <1>7, <2>1, <2>2, GraphKeeps DEF vars, graph
<1> QED
  BY <1>1, <1>2, <1>3, <1>4, <1>5, <1>6, <1>7, <1>8 DEF Next, Draining

\* Only a run that holds its token sends a call request.
LEMMA PostSent ==
  ASSUME IInv, [Next]_vars, posts' > posts
  PROVE  stage = "up"
<1>1. posts \in Nat /\ posts' # posts
  BY DEF IInv, TypeOK, GraphTyped
<1>2. ~Graph /\ ~UNCHANGED vars
  BY <1>1 DEF Graph, Places, Declines, Advances, Deletes, vars, graph
<1>3. ~HostMoves /\ ~Dispatch /\ ~DispatchThrows /\ ~Dies
  BY <1>1 DEF HostMoves, Start, GateRetries, GateCloses, Stop, Drain, Exit, Dispatch,
              DispatchThrows, Dies, graph
<1>4. \A k \in Calls, r \in Ranks, b \in Bodies : ~Deliver(k, r, b)
  BY <1>1 DEF Deliver, Callback, CallbackThrows, graph
<1>5. ~HangupStep /\ ~WindowCloses
  BY <1>1 DEF HangupStep, HangupAnswered, HangupUncertain, HangupObserved, HangupLogs,
              WindowCloses, graph
<1>6. Run
  BY <1>2, <1>3, <1>4, <1>5
     DEF Next, CanaryStep, Draining, HostMoves, DrainFails, Crash
<1>7. TokenArrives
  BY <1>1, <1>6
     DEF Run, RunOn, TokenRefused, CreateConfirmed, CreateRefused, CreateUncertain, CreateLogs,
         Identify, Ring, HangupReturns, End, Complete, graph
<1> QED
  BY <1>7 DEF TokenArrives, IInv, StopOK

\* The strengthening holds of every behaviour of the bot.
THEOREM BotInvariant == Spec => []IInv
<1>1. Init => IInv
  BY InitIInv
<1>2. IInv /\ [Next]_vars => IInv'
  BY NextIInv
<1> QED
  BY <1>1, <1>2, PTL DEF Spec

\* The bot's variables have their types, whatever it goes through.
THEOREM BotTypesHold == Spec => []TypeOK
<1>1. IInv => TypeOK
  BY DEF IInv
<1> QED
  BY <1>1, BotInvariant, PTL

\* However often the process is started beside one file (index.ts, journal.ts),
\* one call request and one hang-up are sent.
THEOREM OneCallHolds == Spec => []OneCallOneHangup
<1>1. IInv => OneCallOneHangup
  BY DEF IInv
<1> QED
  BY <1>1, BotInvariant, PTL

\* Every request sent is on record (call-canary.ts logs before it sends).
THEOREM OnRecordHolds == Spec => []AttemptsOnRecord
<1>1. IInv => AttemptsOnRecord
  BY DEF IInv
<1> QED
  BY <1>1, BotInvariant, PTL

\* A run recorded as refused (call-canary.ts) placed no call and never will.
THEOREM RefusedHolds == Spec => []RefusedPlacedNothing
<1>1. IInv => RefusedPlacedNothing
  BY DEF IInv, RefusedOK
<1> QED
  BY <1>1, BotInvariant, PTL

\* A confirmed call whose run is recorded as ended (call-canary.ts) is over.
THEOREM EndedHolds == Spec => []EndedIsOver
<1>1. IInv => EndedIsOver
  BY DEF IInv, EndedOK
<1> QED
  BY <1>1, BotInvariant, PTL

\* Of the callbacks on record (call-canary.ts, handleNotificationEnvelope) none
\* contradicts or repeats an earlier one whose append returned.  Lines left by an
\* append that threw are themselves promised nothing.
THEOREM CallbacksHold == Spec => []CallbacksTellOneCall
<1>1. IInv => CallbacksTellOneCall
  BY DEF IInv, RecordOK
<1> QED
  BY <1>1, BotInvariant, PTL

\* Once told to stop (index.ts, stop) the process places no call.
THEOREM StopHolds == Spec => NoCallAfterStop
<1>1. IInv /\ [Next]_vars => [posts' > posts => stage = "up"]_vars
  BY PostSent
<1> QED
  BY <1>1, BotInvariant, PTL DEF Spec, NoCallAfterStop
=============================================================================
