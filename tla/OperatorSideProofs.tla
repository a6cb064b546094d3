--------------------------- MODULE OperatorSideProofs ---------------------------
(***************************************************************************)
(* Proofs about OperatorSide: the page and the operator's commands.  Each  *)
(* part has an inductive invariant of its own; the theorems join them.     *)
(***************************************************************************)
EXTENDS OperatorSide, FiniteSetTheorems, SequenceTheorems, TLAPS

\* Whatever happens is a step of each part, or leaves it alone.
LEMMA EachSteps ==
  ASSUME [Next]_operatorVars
  PROVE  /\ Page!Next \/ UNCHANGED pageVars
         /\ Lab!Next \/ UNCHANGED labVars
         /\ Exercise!Next \/ UNCHANGED exerciseVars
         /\ Cycle!Next \/ UNCHANGED cycleVars
         /\ Baselines!Next \/ UNCHANGED baselineVars
         /\ Sso!Next \/ UNCHANGED ssoVars
         /\ Probe!Next \/ UNCHANGED probeVars
         /\ Passkey!Next \/ UNCHANGED passkeyVars
         /\ UNCHANGED part
<1>1. CASE UNCHANGED operatorVars
  BY <1>1 DEF operatorVars
<1>2. CASE Next
  BY <1>2 DEF Next, Only
<1> QED  BY <1>1, <1>2

-----------------------------------------------------------------------------
\* The page.

\* The stages from which an operation, other than the internal mail, creates.
Begins(o) ==
  CASE o = "help-desk" -> {"idle", "server-shutting-down"}
    [] o = "onedrive" -> {"not-started", "removed"}
    [] OTHER -> {"not-started"}

\* The stages that a request, sent or answered, leaves an operation in.
Begun == {"uncertain", "removal-uncertain", "configured", "success", "error", "cancelled"}

Answers == {"done", "error", "invite-failed", "server-shutting-down", "token refused"}

Runs == [op : Operations \union {"none"}, action : {"none", "create", "remove"},
         step : {"none", "starting", "token", "popup", "sent", "gone"} \union Answers,
         previous : Page!Stages \union {"none"}, number : Nat]

PageTyped ==
  /\ Page!TypeOK /\ run \in Runs /\ clicks \in Nat
  /\ owed \subseteq [account : Accounts, op : Operations]
  /\ wire \subseteq [op : Operations, action : {"create", "remove"}, number : Nat]
  /\ run.step \notin {"none", "starting"} =>
       run.op \in Operations /\ run.action \in {"create", "remove"} /\ run.previous \in Page!Stages

\* A session is one account's, and a run that asks for a token has lost it with the session.
SessionInv ==
  /\ view = "signed-in" => account \in Accounts
  /\ view = "processing" => account = "none"
  /\ run.step \in {"token", "popup"} /\ view # "signed-in" => active = "none"

\* The request of the run has left, or the page no longer hears of it.
Beyond == {"sent", "done", "error", "invite-failed", "server-shutting-down", "gone"}

\* A create that may have happened keeps its operation from being begun again: in the
\* storage, in the page's memory, and in the run that is already asking for a token.
OwedInv ==
  /\ account = "none" => \A d \in owed : d.op \notin Page!Sends
  /\ \A d \in owed : d.op \in Page!Stored =>
       Page!Restored(d.op, kept[d.account][d.op]) \notin Begins(d.op)
  /\ \A d \in owed : d.account = account /\ d.op # "email" =>
       stages[d.op] \notin Begins(d.op) \/ (run.op = d.op /\ run.step \in Beyond)
  /\ run.step \in {"token", "popup"} /\ run.action = "create" /\ run.op # "email" =>
       [account |-> account, op |-> run.op] \notin owed

PageInv == PageTyped /\ SessionInv /\ OwedInv

LEMMA OperationIs == \A o \in Operations :
  o \in {"onedrive", "calendar", "contact", "fixed", "email", "help-desk"}
BY OperatorSideAssumption DEF Page!Stored, Page!Sends

LEMMA AllowedIs ==
  ASSUME NEW o \in Operations, o # "email", NEW s, Page!Allowed(o, "create", s)
  PROVE  s \in Begins(o)
<1> USE DEF Page!Allowed, Page!HelpDeskAllowed, Page!OneDriveAllowed, Page!CalendarAllowed,
            Page!ContactAllowed, Page!FixedAllowed, Begins
<1>1. CASE o = "onedrive"
  BY <1>1, Zenon
<1>2. CASE o = "calendar"
  BY <1>2, Zenon
<1>3. CASE o = "contact"
  BY <1>3, Zenon
<1>4. CASE o = "fixed"
  BY <1>4, Zenon
<1>5. CASE o = "help-desk"
  BY <1>5, Zenon
<1> QED  BY <1>1, <1>2, <1>3, <1>4, <1>5, OperationIs

\* No begun stage begins anything, in memory or restored from the storage.
LEMMA BegunIs ==
  ASSUME NEW o \in Operations, o # "email", NEW s \in Begun
  PROVE  s \notin Begins(o)
BY OperationIs DEF Begins, Begun

LEMMA RestoredIs ==
  ASSUME NEW o \in Page!Stored, NEW s
  PROVE  /\ s \in {"configured", "uncertain"} => Page!Restored(o, s) = s
         /\ o \in {"calendar", "fixed"} /\ s = "removal-uncertain" => Page!Restored(o, s) = s
         /\ Page!Restored(o, s) \in {s, "not-started"}
<1> USE DEF Page!Restored, Page!OneDriveReads, Page!CalendarReads, Page!ContactReads, Page!FixedReads
<1>1. CASE o = "onedrive"
  BY <1>1, Zenon
<1>2. CASE o = "calendar"
  BY <1>2, Zenon
<1>3. CASE o = "contact"
  BY <1>3, Zenon
<1>4. CASE o = "fixed"
  BY <1>4, Zenon
<1> QED  BY <1>1, <1>2, <1>3, <1>4 DEF Page!Stored

LEMMA AttemptedIs ==
  ASSUME NEW o \in Page!Stored, NEW action \in {"create", "remove"}
  PROVE  /\ Page!Attempted(o, action) \in {"uncertain", "removal-uncertain"}
         /\ o \in {"onedrive", "contact"} => Page!Attempted(o, action) = "uncertain"
<1> USE DEF Page!Attempted, Page!OneDriveAttempted, Page!CalendarAttempted, Page!ContactAttempted,
            Page!FixedAttempted
<1>1. CASE o = "onedrive"
  BY <1>1, Zenon
<1>2. CASE o = "calendar"
  BY <1>2, Zenon
<1>3. CASE o = "contact"
  BY <1>3, Zenon
<1>4. CASE o = "fixed"
  BY <1>4, Zenon
<1> QED  BY <1>1, <1>2, <1>3, <1>4 DEF Page!Stored

\* What a stored operation shows after its run: the stage before it if the API refused
\* at shutdown, the end it reached, or that it is uncertain.
LEMMA StoredAfter ==
  ASSUME run.op \in Page!Stored, run.action \in {"create", "remove"}, run.step \in Answers
  PROVE  /\ run.step = "server-shutting-down" => Page!AfterAnswer = run.previous
         /\ run.step = "done" => Page!AfterAnswer = IF run.action = "create" THEN "configured" ELSE "removed"
         /\ run.step \in {"error", "invite-failed", "token refused"} =>
              Page!AfterAnswer = Page!Attempted(run.op, run.action)
<1> USE DEF Page!AfterAnswer, Page!Reached, Page!OneDriveAfter, Page!CalendarAfter, Page!ContactAfter, Page!FixedAfter,
            Page!Attempted, Page!OneDriveAttempted, Page!ContactAttempted
<1>1. CASE run.op = "onedrive"
  BY <1>1, Zenon
<1>2. CASE run.op = "calendar"
  BY <1>2, Zenon
<1>3. CASE run.op = "contact"
  BY <1>3, Zenon
<1>4. CASE run.op = "fixed"
  BY <1>4, Zenon
<1> QED  BY <1>1, <1>2, <1>3, <1>4 DEF Page!Stored

LEMMA SentAfter ==
  ASSUME run.op \in Page!Sends, run.step \in Answers
  PROVE  /\ Page!AfterAnswer \in {"success", "error", "server-shutting-down"}
         /\ run.step # "server-shutting-down" => Page!AfterAnswer \in {"success", "error"}
<1> USE DEF Page!AfterAnswer, Page!EmailAfter, Page!HelpDeskAfter
<1>1. CASE run.op = "email"
  BY <1>1, Zenon
<1>2. CASE run.op = "help-desk"
  BY <1>2, Zenon
<1> QED  BY <1>1, <1>2 DEF Page!Sends

\* The run, once its step is another.
LEMMA RunStep ==
  ASSUME run \in Runs, NEW s \in {"none", "starting", "token", "popup", "sent", "gone"} \union Answers
  PROVE  /\ [run EXCEPT !.step = s] \in Runs
         /\ [run EXCEPT !.step = s].step = s /\ [run EXCEPT !.step = s].op = run.op
         /\ [run EXCEPT !.step = s].action = run.action /\ [run EXCEPT !.step = s].previous = run.previous
         /\ [run EXCEPT !.step = s].number = run.number
BY DEF Runs

\* The run, taken one step on.
LEMMA RunGoes ==
  ASSUME run \in Runs,
         \E s \in {"token", "popup", "sent", "gone"} \union Answers : run' = [run EXCEPT !.step = s]
  PROVE  /\ run' \in Runs /\ run'.step \in {"token", "popup", "sent", "gone"} \union Answers
         /\ run'.op = run.op /\ run'.action = run.action /\ run'.previous = run.previous
         /\ run'.number = run.number
<1>1. PICK s \in {"token", "popup", "sent", "gone"} \union Answers : run' = [run EXCEPT !.step = s]
  OBVIOUS
<1>2. /\ [run EXCEPT !.step = s] \in Runs
      /\ [run EXCEPT !.step = s].step = s /\ [run EXCEPT !.step = s].op = run.op
      /\ [run EXCEPT !.step = s].action = run.action /\ [run EXCEPT !.step = s].previous = run.previous
      /\ [run EXCEPT !.step = s].number = run.number
  BY RunStep
<1> QED  BY <1>1, <1>2

LEMMA NoRunIs ==
  /\ Page!NoRun \in Runs /\ Page!NoRun.step = "none" /\ Page!NoRun.op = "none" /\ Page!NoRun.action = "none"
  /\ [Page!NoRun EXCEPT !.step = "starting"] \in Runs /\ [Page!NoRun EXCEPT !.step = "starting"].step = "starting"
BY DEF Page!NoRun, Runs

\* What one more stage does to the storage.
LEMMA KeptIs ==
  ASSUME kept \in [Accounts -> [Operations -> Page!Stages]], account \in Accounts, NEW o \in Operations,
         NEW s \in Page!Stages, kept' = [kept EXCEPT ![account][o] = s]
  PROVE  /\ kept' \in [Accounts -> [Operations -> Page!Stages]] /\ kept'[account][o] = s
         /\ \A a \in Accounts, p \in Operations : a # account \/ p # o => kept'[a][p] = kept[a][p]
<1> DEFINE row == [kept[account] EXCEPT ![o] = s]
<1>1. kept' = [kept EXCEPT ![account] = row]
  OBVIOUS
<1>2. row \in [Operations -> Page!Stages] /\ row[o] = s
      /\ \A p \in Operations : p # o => row[p] = kept[account][p]
  OBVIOUS
<1> HIDE DEF row
<1> QED  BY <1>1, <1>2

\* How a token ends the wait for it.
LEMMA TokenArrivesIs ==
  ASSUME Page!TokenArrives
  PROVE  /\ run.step \in {"token", "popup"}
         /\ UNCHANGED <<view, account, connected, active, cached, redirect, made, clicks, loads>>
         /\ \/ /\ run' = [run EXCEPT !.step = "token refused"] \/ run' = [run EXCEPT !.step = "gone"]
               /\ UNCHANGED <<stages, kept, wire, owed>>
            \/ /\ account = active /\ active # "none" /\ (view = "signed-in" \/ run.op \in Page!Sends)
               /\ \/ run.op \in Page!Sends /\ UNCHANGED <<stages, kept>>
                  \/ /\ run.op \notin Page!Sends
                     /\ stages' = [stages EXCEPT ![run.op] = Page!Attempted(run.op, run.action)]
                     /\ kept' = [kept EXCEPT ![account][run.op] = Page!Attempted(run.op, run.action)]
               /\ run' = [run EXCEPT !.step = "sent"]
               /\ wire' = wire \union {[op |-> run.op, action |-> run.action, number |-> run.number]}
               /\ \/ run.action = "create" /\ owed' = owed \union {[account |-> account, op |-> run.op]}
                  \/ run.action # "create" /\ owed' = owed
<1> USE DEF Page!TokenArrives, Page!session, Page!SessionHolds, Page!Current
<1>1. /\ run.step \in {"token", "popup"}
      /\ UNCHANGED <<view, account, connected, active, cached, redirect, made, clicks, loads>>
  OBVIOUS
<1>2. CASE ~Page!SessionHolds
  <2>1. run' = [run EXCEPT !.step = "token refused"] /\ UNCHANGED <<stages, kept, wire, owed>>
    BY <1>2, Zenon
  <2> QED  BY <1>1, <2>1
<1>3. CASE Page!SessionHolds /\ ~Page!Current /\ run.op \notin Page!Sends
  <2>1. run' = [run EXCEPT !.step = "gone"] /\ UNCHANGED <<stages, kept, wire, owed>>
    BY <1>3, Zenon
  <2> QED  BY <1>1, <2>1
<1>4. CASE Page!SessionHolds /\ (Page!Current \/ run.op \in Page!Sends)
  <2>1. /\ IF run.op \in Page!Sends THEN UNCHANGED stages ELSE Page!Shows(run.op, Page!Attempted(run.op, run.action))
        /\ Page!Persisted(run.op, run.action)
        /\ run' = [run EXCEPT !.step = "sent"]
        /\ wire' = wire \union {[op |-> run.op, action |-> run.action, number |-> run.number]}
        /\ owed' = IF run.action = "create" THEN owed \union {[account |-> account, op |-> run.op]} ELSE owed
    BY <1>4, Zenon
  <2>2. account = active /\ active # "none" /\ (view = "signed-in" \/ run.op \in Page!Sends)
    BY <1>4
  <2>3. \/ run.op \in Page!Sends /\ UNCHANGED <<stages, kept>>
        \/ /\ run.op \notin Page!Sends
           /\ stages' = [stages EXCEPT ![run.op] = Page!Attempted(run.op, run.action)]
           /\ kept' = [kept EXCEPT ![account][run.op] = Page!Attempted(run.op, run.action)]
    BY <2>1, Zenon DEF Page!Shows, Page!Persisted, Page!Persists
  <2>4. \/ run.action = "create" /\ owed' = owed \union {[account |-> account, op |-> run.op]}
        \/ run.action # "create" /\ owed' = owed
    BY <2>1, Zenon
  <2> QED  BY <1>1, <2>1, <2>2, <2>3, <2>4
<1> QED  BY <1>2, <1>3, <1>4

\* What the end of a run shows and stores.
LEMMA FinishIs ==
  ASSUME Page!Finish
  PROVE  /\ run.step \in Answers
         /\ UNCHANGED <<view, account, connected, active, cached, redirect, wire, made, clicks, loads>>
         /\ owed' \subseteq owed
         /\ Page!Settled("any") => \A d \in owed' : ~(d.op = run.op /\ d.account = account)
         /\ \/ /\ view = "signed-in" /\ run' = Page!NoRun
               /\ stages' = [stages EXCEPT ![run.op] = Page!AfterAnswer]
               /\ \/ kept' = kept /\ (run.op \in Page!Sends \/ run.step \in {"error", "token refused"})
                  \/ run.op \notin Page!Sends /\ kept' = [kept EXCEPT ![account][run.op] = Page!AfterAnswer]
            \/ view # "signed-in" /\ run' = [run EXCEPT !.step = "gone"] /\ UNCHANGED <<stages, kept>>
<1> USE DEF Page!Finish, Page!session, Page!api, Page!Current, Answers
<1>1. /\ run.step \in Answers
      /\ UNCHANGED <<view, account, connected, active, cached, redirect, wire, made, clicks, loads>>
  OBVIOUS
<1>2. /\ owed' \subseteq owed
      /\ Page!Settled("any") => \A d \in owed' : ~(d.op = run.op /\ d.account = account)
  BY DEF Page!Settled
<1>3. CASE Page!Current
  <2>1. /\ run' = Page!NoRun /\ Page!Shows(run.op, Page!AfterAnswer)
        /\ IF run.op = "onedrive" /\ run.step \in {"error", "token refused"}
           THEN UNCHANGED kept ELSE Page!Persists(run.op, Page!AfterAnswer)
    BY <1>3, Zenon
  <2>2. \/ kept' = kept /\ (run.op \in Page!Sends \/ run.step \in {"error", "token refused"})
        \/ run.op \notin Page!Sends /\ kept' = [kept EXCEPT ![account][run.op] = Page!AfterAnswer]
    <3>1. CASE run.op = "onedrive" /\ run.step \in {"error", "token refused"}
      BY <2>1, <3>1, Zenon
    <3>2. CASE ~(run.op = "onedrive" /\ run.step \in {"error", "token refused"})
      <4>1. kept' = IF run.op \in Page!Sends THEN kept ELSE [kept EXCEPT ![account][run.op] = Page!AfterAnswer]
        BY <2>1, <3>2, Zenon DEF Page!Persists
      <4> QED  BY <4>1, Zenon
    <3> QED  BY <3>1, <3>2
  <2> QED  BY <1>1, <1>2, <1>3, <2>1, <2>2 DEF Page!Shows
<1>4. CASE ~Page!Current
  <2>1. run' = [run EXCEPT !.step = "gone"] /\ UNCHANGED <<stages, kept>>
    BY <1>4, Zenon
  <2> QED  BY <1>1, <1>2, <1>4, <2>1
<1> QED  BY <1>3, <1>4

\* What an answer makes of the run that waits for it.
LEMMA AnsweredIs ==
  ASSUME run \in Runs, NEW r, NEW reply, Page!Answered(r, reply)
  PROVE  \/ run' = run
         \/ /\ run.step = "sent"
            /\ \E s \in Answers \ {"token refused"} : run' = [run EXCEPT !.step = s]
<1>1. Page!Classified(r, reply) \in {"done", "server-shutting-down", "invite-failed", "error"}
  BY Zenon DEF Page!Classified
<1>2. \/ run' = run
      \/ run.step = "sent" /\ run' = [run EXCEPT !.step = Page!Classified(r, reply)]
  BY Zenon DEF Page!Answered
<1> QED  BY <1>1, <1>2 DEF Answers

\* A load of the page leaves the storage, and of what is owed what the storage tells of.
Loaded ==
  /\ view' = "processing" /\ account' = "none" /\ connected' = FALSE
  /\ run' = [Page!NoRun EXCEPT !.step = "starting"]
  /\ stages' = [o \in Operations |-> Page!Fresh(o)]
  /\ owed' = {d \in owed : d.op \notin Page!Sends}
  /\ UNCHANGED <<active, kept, wire, made, clicks>>
  /\ cached' = cached \/ \E a \in Accounts : cached' = cached \union {a}
  /\ redirect' \in Accounts \union {"none", redirect}

LEMMA LoadedIs ==
  /\ Page!FirstLoad => Loaded
  /\ Page!Reload => Loaded
  /\ Page!SignIn => \/ Loaded
                    \/ /\ view \in {"signed-out", "cancelled", "error"} /\ view' \in {"cancelled", "error"}
                       /\ UNCHANGED <<account, connected, stages, run, active, cached, redirect, kept,
                                      wire, made, owed, clicks, loads>>
BY DEF Page!FirstLoad, Page!Reload, Page!SignIn, Page!Load, Page!api, Loaded

\* What a page that starts finds.
LEMMA StartIs ==
  ASSUME PageTyped, Page!Start
  PROVE  /\ view = "processing" /\ run.step = "starting" /\ run' = Page!NoRun
         /\ UNCHANGED <<cached, redirect, kept, wire, made, owed, clicks>>
         /\ \/ view' \in {"error", "signed-out"} /\ active' \in {active, "none"} /\ UNCHANGED <<account, connected, stages>>
            \/ /\ view' = "signed-in" /\ account' \in Accounts /\ active' = account' /\ connected' \in BOOLEAN
               /\ stages' = [o \in Operations |->
                               IF o \in Page!Sends THEN "idle" ELSE Page!Restored(o, kept[account'][o])]
<1>1. Page!FindAccount # "none" => Page!FindAccount \in Accounts
  <2>1. redirect \in Accounts \union {"none"} /\ active \in Accounts \union {"none"} /\ cached \subseteq Accounts
    BY DEF PageTyped, Page!TypeOK
  <2>2. Page!Cardinality(cached) = 1 => \E a \in cached : TRUE
    <3>1. Page!Cardinality(cached) = Cardinality(cached)
      BY DEF Page!Cardinality, Cardinality
    <3>2. Cardinality({}) = 0
      BY FS_EmptySet
    <3>3. cached = {} => Cardinality(cached) # 1
      BY <3>2
    <3> QED  BY <3>1, <3>3
  <2>3. Page!Cardinality(cached) = 1 => (CHOOSE a \in cached : TRUE) \in cached
    BY <2>2
  <2> QED  BY <2>1, <2>3, Zenon DEF Page!FindAccount
<1> QED  BY <1>1 DEF Page!Start, Page!api

\* The types, part by part.
LEMMA PageTypes ==
  ASSUME PageTyped
  PROVE  /\ view \in {"closed", "processing", "signed-in", "signed-out", "leaving", "error", "cancelled"}
         /\ account \in Accounts \union {"none"} /\ active \in Accounts \union {"none"}
         /\ redirect \in Accounts \union {"none"} /\ cached \subseteq Accounts
         /\ stages \in [Operations -> Page!Stages] /\ kept \in [Accounts -> [Operations -> Page!Stages]]
         /\ connected \in BOOLEAN /\ made \subseteq Operations
         /\ run \in Runs /\ clicks \in Nat
         /\ owed \subseteq [account : Accounts, op : Operations]
         /\ wire \subseteq [op : Operations, action : {"create", "remove"}, number : Nat]
         /\ run.step \notin {"none", "starting"} =>
              run.op \in Operations /\ run.action \in {"create", "remove"} /\ run.previous \in Page!Stages
BY DEF PageTyped, Page!TypeOK

LEMMA PageTypesNow ==
  ASSUME view' \in {"closed", "processing", "signed-in", "signed-out", "leaving", "error", "cancelled"},
         account' \in Accounts \union {"none"}, active' \in Accounts \union {"none"},
         redirect' \in Accounts \union {"none"}, cached' \subseteq Accounts,
         stages' \in [Operations -> Page!Stages], kept' \in [Accounts -> [Operations -> Page!Stages]],
         connected' \in BOOLEAN, made' \subseteq Operations,
         run' \in Runs, clicks' \in Nat,
         owed' \subseteq [account : Accounts, op : Operations],
         wire' \subseteq [op : Operations, action : {"create", "remove"}, number : Nat],
         run'.step \notin {"none", "starting"} =>
           run'.op \in Operations /\ run'.action \in {"create", "remove"} /\ run'.previous \in Page!Stages
  PROVE  PageTyped'
BY DEF PageTyped, Page!TypeOK

\* What a run shows is a stage.
LEMMA AfterIs ==
  ASSUME run.op \in Operations, run.action \in {"create", "remove"}, run.previous \in Page!Stages,
         run.step \in Answers
  PROVE  Page!AfterAnswer \in Page!Stages
<1>1. CASE run.op \in Page!Sends
  BY <1>1, SentAfter DEF Page!Stages
<1>2. CASE run.op \in Page!Stored
  BY <1>2, StoredAfter, AttemptedIs DEF Page!Stages, Answers
<1> QED  BY <1>1, <1>2, OperatorSideAssumption

LEMMA PageTypedNext ==
  ASSUME PageTyped, SessionInv, Page!Next \/ UNCHANGED pageVars
  PROVE  PageTyped'
<1>1. ASSUME Loaded
      PROVE  PageTyped'
  <2>1. stages' \in [Operations -> Page!Stages]
    <3>1. \A o \in Operations : Page!Fresh(o) \in Page!Stages
      BY Zenon DEF Page!Fresh, Page!Stages
    <3> QED  BY <1>1, <3>1 DEF Loaded
  <2>2. run' \in Runs /\ run'.step = "starting"
    BY <1>1, NoRunIs DEF Loaded
  <2>3. cached' \subseteq Accounts /\ redirect' \in Accounts \union {"none"}
    BY <1>1, PageTypes DEF Loaded
  <2>4. owed' \subseteq [account : Accounts, op : Operations]
    BY <1>1, PageTypes DEF Loaded
  <2> QED  BY <1>1, <2>1, <2>2, <2>3, <2>4, PageTypes, PageTypesNow DEF Loaded
<1>2. CASE Page!FirstLoad \/ Page!Reload
  BY <1>1, <1>2, LoadedIs
<1>3. CASE Page!Start
  <2>1. run' \in Runs /\ run'.step = "none"
    BY <1>3, NoRunIs, StartIs
  <2>2. CASE /\ view' = "signed-in" /\ account' \in Accounts /\ active' = account' /\ connected' \in BOOLEAN
             /\ stages' = [o \in Operations |->
                             IF o \in Page!Sends THEN "idle" ELSE Page!Restored(o, kept[account'][o])]
    <3>1. ASSUME NEW o \in Operations
          PROVE  (IF o \in Page!Sends THEN "idle" ELSE Page!Restored(o, kept[account'][o])) \in Page!Stages
      <4>1. kept[account'][o] \in Page!Stages
        BY <2>2, PageTypes
      <4>2. o \notin Page!Sends => Page!Restored(o, kept[account'][o]) \in {kept[account'][o], "not-started"}
        BY OperatorSideAssumption, RestoredIs
      <4> QED  BY <4>1, <4>2 DEF Page!Stages
    <3>2. stages' \in [Operations -> Page!Stages]
      BY <2>2, <3>1
    <3> QED  BY <1>3, <2>1, <2>2, <3>2, StartIs, PageTypes, PageTypesNow
  <2>3. CASE view' \in {"error", "signed-out"} /\ active' \in {active, "none"} /\ UNCHANGED <<account, connected, stages>>
    BY <1>3, <2>1, <2>3, StartIs, PageTypes, PageTypesNow
  <2> QED  BY <1>3, <2>2, <2>3, StartIs
<1>4. CASE Page!SignIn
  BY <1>1, <1>4, LoadedIs, PageTypes, PageTypesNow
<1>5. CASE Page!SignOut
  BY <1>5, PageTypes, PageTypesNow DEF Page!SignOut, Page!api
<1>6. CASE Page!SignOutReturns
  <2>1. cached' \subseteq Accounts
    BY <1>6, PageTypes DEF Page!SignOutReturns
  <2> QED  BY <1>6, <2>1, PageTypes, PageTypesNow DEF Page!SignOutReturns, Page!api
<1>7. CASE Page!Click
  <2>1. PICK o \in Operations, action \in {"create", "remove"} :
          run' = [op |-> o, action |-> action, step |-> "token", previous |-> stages[o], number |-> clicks + 1]
    BY <1>7, Zenon DEF Page!Click, Page!Actions
  <2>2. clicks' \in Nat /\ clicks + 1 \in Nat /\ stages[o] \in Page!Stages
    BY <1>7, PageTypes DEF Page!Click
  <2>3. /\ run' \in Runs /\ run'.op \in Operations /\ run'.action \in {"create", "remove"}
        /\ run'.previous \in Page!Stages
    BY <2>1, <2>2 DEF Runs
  <2> QED  BY <1>7, <2>2, <2>3, PageTypes, PageTypesNow DEF Page!Click, Page!session, Page!api
<1>8. CASE Page!NeedsPopup \/ Page!TokenRefused
  <2>1. /\ run.step \in {"token", "popup"}
        /\ run' = [run EXCEPT !.step = "popup"] \/ run' = [run EXCEPT !.step = "token refused"]
        /\ UNCHANGED <<view, account, connected, active, cached, redirect, stages, kept, wire, made, owed, clicks>>
    BY <1>8, Zenon DEF Page!NeedsPopup, Page!TokenRefused, Page!session, Page!api
  <2>2. \E s \in {"token", "popup", "sent", "gone"} \union Answers : run' = [run EXCEPT !.step = s]
    BY <2>1, Zenon DEF Answers
  <2>3. run' \in Runs /\ run'.op = run.op /\ run'.action = run.action /\ run'.previous = run.previous
    BY <2>2, RunGoes, PageTypes
  <2> QED  BY <2>1, <2>3, PageTypes, PageTypesNow
<1>9. CASE Page!TokenCancelled
  <2>1. /\ run.step \in {"token", "popup"}
        /\ run' = Page!NoRun \/ run' = [run EXCEPT !.step = "gone"]
        /\ stages' = [stages EXCEPT ![run.op] = "cancelled"] \/ stages' = stages
        /\ UNCHANGED <<view, account, connected, active, cached, redirect, kept, wire, made, owed, clicks>>
    BY <1>9, Zenon DEF Page!TokenCancelled, Page!session, Page!api, Page!Shows
  <2>2. /\ run' \in Runs
        /\ run'.step = "none" \/ (run'.op = run.op /\ run'.action = run.action /\ run'.previous = run.previous)
    <3>1. CASE run' = [run EXCEPT !.step = "gone"]
      BY <3>1, RunStep, PageTypes
    <3>2. CASE run' = Page!NoRun
      BY <3>2, NoRunIs
    <3> QED  BY <2>1, <3>1, <3>2
  <2>3. stages' \in [Operations -> Page!Stages]
    BY <2>1, PageTypes DEF Page!Stages
  <2> QED  BY <2>1, <2>2, <2>3, PageTypes, PageTypesNow
<1>10. CASE Page!TokenArrives
  <2>1. /\ run.step \in {"token", "popup"} /\ run.op \in Operations /\ run.action \in {"create", "remove"}
        /\ run.number \in Nat
        /\ UNCHANGED <<view, account, connected, active, cached, redirect, made, clicks>>
    BY <1>10, TokenArrivesIs, PageTypes DEF Runs
  <2>2. /\ run' \in Runs /\ run'.op = run.op /\ run'.action = run.action /\ run'.previous = run.previous
    <3>1. \E s \in {"token", "popup", "sent", "gone"} \union Answers : run' = [run EXCEPT !.step = s]
      BY <1>10, TokenArrivesIs, Zenon DEF Answers
    <3> QED  BY <3>1, RunGoes, PageTypes
  <2>3. CASE UNCHANGED <<stages, kept, wire, owed>>
    BY <2>1, <2>2, <2>3, PageTypes, PageTypesNow
  <2>4. CASE /\ account = active /\ active # "none"
             /\ \/ run.op \in Page!Sends /\ UNCHANGED <<stages, kept>>
                \/ /\ run.op \notin Page!Sends
                   /\ stages' = [stages EXCEPT ![run.op] = Page!Attempted(run.op, run.action)]
                   /\ kept' = [kept EXCEPT ![account][run.op] = Page!Attempted(run.op, run.action)]
             /\ wire' = wire \union {[op |-> run.op, action |-> run.action, number |-> run.number]}
             /\ \/ run.action = "create" /\ owed' = owed \union {[account |-> account, op |-> run.op]}
                \/ run.action # "create" /\ owed' = owed
    <3>1. account \in Accounts
      BY <2>4, PageTypes
    <3>2. stages' \in [Operations -> Page!Stages] /\ kept' \in [Accounts -> [Operations -> Page!Stages]]
      <4>1. CASE UNCHANGED <<stages, kept>>
        BY <4>1, PageTypes
      <4>2. CASE /\ run.op \notin Page!Sends
                 /\ stages' = [stages EXCEPT ![run.op] = Page!Attempted(run.op, run.action)]
                 /\ kept' = [kept EXCEPT ![account][run.op] = Page!Attempted(run.op, run.action)]
        <5>1. Page!Attempted(run.op, run.action) \in Page!Stages
          BY <2>1, <4>2, OperatorSideAssumption, AttemptedIs DEF Page!Stages
        <5>2. stages' \in [Operations -> Page!Stages]
          BY <4>2, <5>1, PageTypes
        <5> QED  BY <2>1, <3>1, <4>2, <5>1, <5>2, KeptIs, PageTypes
      <4> QED  BY <2>4, <4>1, <4>2
    <3>3. owed' \subseteq [account : Accounts, op : Operations]
      BY <2>1, <2>4, <3>1, PageTypes
    <3>4. wire' \subseteq [op : Operations, action : {"create", "remove"}, number : Nat]
      BY <2>1, <2>4, PageTypes
    <3> QED  BY <2>1, <2>2, <3>2, <3>3, <3>4, PageTypes, PageTypesNow
  <2> QED  BY <1>10, <2>3, <2>4, TokenArrivesIs
<1>11. CASE Page!Handle
  <2>1. PICK r \in wire :
          /\ wire' = wire \ {r} /\ (made' = made \/ made' = made \union {r.op} \/ made' = made \ {r.op})
          /\ \E reply : Page!Answered(r, reply)
          /\ UNCHANGED <<view, account, connected, active, cached, redirect, stages, kept, owed, clicks>>
    BY <1>11, Zenon DEF Page!Handle, Page!session
  <2>2. \/ run' = run
        \/ /\ run.step = "sent"
           /\ \E s \in Answers \ {"token refused"} : run' = [run EXCEPT !.step = s]
    BY <2>1, AnsweredIs, PageTypes
  <2>3. /\ run' \in Runs
        /\ run' = run \/ (run.step = "sent" /\ run'.op = run.op /\ run'.action = run.action /\ run'.previous = run.previous)
    <3>1. CASE run' = run
      BY <3>1, PageTypes
    <3>2. CASE run.step = "sent" /\ \E s \in Answers \ {"token refused"} : run' = [run EXCEPT !.step = s]
      <4>1. \E s \in {"token", "popup", "sent", "gone"} \union Answers : run' = [run EXCEPT !.step = s]
        BY <3>2
      <4> QED  BY <3>2, <4>1, RunGoes, PageTypes
    <3> QED  BY <2>2, <3>1, <3>2
  <2>4. wire' \subseteq [op : Operations, action : {"create", "remove"}, number : Nat] /\ made' \subseteq Operations
    BY <2>1, PageTypes
  <2> QED  BY <2>1, <2>3, <2>4, PageTypes, PageTypesNow
<1>12. CASE Page!ConnectionLost
  <2>1. /\ run.step = "sent" /\ run' = [run EXCEPT !.step = "error"]
        /\ UNCHANGED <<view, account, connected, active, cached, redirect, stages, kept, wire, made, owed, clicks>>
    BY <1>12 DEF Page!ConnectionLost, Page!session, Page!api
  <2>2. run' \in Runs /\ run'.op = run.op /\ run'.action = run.action /\ run'.previous = run.previous
    BY <2>1, RunStep, PageTypes DEF Answers
  <2> QED  BY <2>1, <2>2, PageTypes, PageTypesNow
<1>13. CASE Page!Finish
  <2>1. /\ run.op \in Operations /\ run.action \in {"create", "remove"} /\ run.previous \in Page!Stages
        /\ run.step \in Answers /\ Page!AfterAnswer \in Page!Stages
    BY <1>13, FinishIs, AfterIs, PageTypes DEF Answers
  <2>2. owed' \subseteq [account : Accounts, op : Operations]
        /\ UNCHANGED <<view, account, connected, active, cached, redirect, wire, made, clicks>>
    BY <1>13, FinishIs, PageTypes
  <2>3. CASE /\ view = "signed-in" /\ run' = Page!NoRun
             /\ stages' = [stages EXCEPT ![run.op] = Page!AfterAnswer]
             /\ \/ kept' = kept
                \/ kept' = [kept EXCEPT ![account][run.op] = Page!AfterAnswer]
    <3>1. kept' \in [Accounts -> [Operations -> Page!Stages]]
      BY <2>1, <2>3, KeptIs, PageTypes DEF SessionInv
    <3>2. stages' \in [Operations -> Page!Stages] /\ run' \in Runs /\ run'.step = "none"
      BY <2>1, <2>3, PageTypes, NoRunIs
    <3> QED  BY <2>2, <3>1, <3>2, PageTypes, PageTypesNow
  <2>4. CASE run' = [run EXCEPT !.step = "gone"] /\ UNCHANGED <<stages, kept>>
    <3>1. run' \in Runs /\ run'.op = run.op /\ run'.action = run.action /\ run'.previous = run.previous
      BY <2>4, RunStep, PageTypes
    <3> QED  BY <2>1, <2>2, <2>4, <3>1, PageTypes, PageTypesNow
  <2> QED  BY <1>13, <2>3, <2>4, FinishIs
<1>14. CASE UNCHANGED pageVars
  BY <1>14, PageTypes, PageTypesNow DEF pageVars
<1> QED  BY <1>2, <1>3, <1>4, <1>5, <1>6, <1>7, <1>8, <1>9, <1>10, <1>11, <1>12, <1>13, <1>14 DEF Page!Next

\* How a run goes on: it asks for a token only if it did before or an operator clicks,
\* and each step leaves the session alone.
RunOn ==
  /\ UNCHANGED <<view, account, active>>
  /\ run'.step \in {"token", "popup"} =>
       run.step \in {"token", "popup"} /\ run'.op = run.op /\ run'.action = run.action

LEMMA RunOnIs ==
  ASSUME PageTyped,
         Page!NeedsPopup \/ Page!TokenRefused \/ Page!TokenCancelled \/ Page!TokenArrives \/ Page!Handle
           \/ Page!ConnectionLost \/ Page!Finish
  PROVE  RunOn
<1>1. run' = Page!NoRun => run'.step \notin {"token", "popup"}
  BY NoRunIs
<1>2. ASSUME NEW s \in {"sent", "gone"} \union Answers, run' = [run EXCEPT !.step = s]
      PROVE  run'.step \notin {"token", "popup"}
  BY <1>2, RunStep, PageTypes DEF Answers
<1>3. CASE Page!NeedsPopup
  <2>1. run.step = "token" /\ UNCHANGED <<view, account, active>>
        /\ \E s \in {"popup", "token refused"} : run' = [run EXCEPT !.step = s]
    BY <1>3, Zenon DEF Page!NeedsPopup, Page!session
  <2>2. \E s \in {"token", "popup", "sent", "gone"} \union Answers : run' = [run EXCEPT !.step = s]
    BY <2>1 DEF Answers
  <2> QED  BY <2>1, <2>2, RunGoes, PageTypes DEF RunOn
<1>4. CASE Page!TokenRefused
  <2>1. run' = [run EXCEPT !.step = "token refused"] /\ UNCHANGED <<view, account, active>>
    BY <1>4 DEF Page!TokenRefused, Page!session
  <2> QED  BY <1>2, <2>1 DEF RunOn, Answers
<1>5. CASE Page!TokenCancelled
  <2>1. UNCHANGED <<view, account, active>> /\ (run' = Page!NoRun \/ run' = [run EXCEPT !.step = "gone"])
    BY <1>5, Zenon DEF Page!TokenCancelled, Page!session
  <2>2. CASE run' = [run EXCEPT !.step = "gone"]
    BY <1>2, <2>1, <2>2 DEF RunOn
  <2>3. CASE run' = Page!NoRun
    BY <1>1, <2>1, <2>3 DEF RunOn
  <2> QED  BY <2>1, <2>2, <2>3
<1>6. CASE Page!TokenArrives
  <2>1. /\ UNCHANGED <<view, account, active>>
        /\ \E s \in {"sent", "gone"} \union Answers : run' = [run EXCEPT !.step = s]
    BY <1>6, TokenArrivesIs, Zenon DEF Answers
  <2>2. PICK s \in {"sent", "gone"} \union Answers : run' = [run EXCEPT !.step = s]
    BY <2>1
  <2>3. run'.step \notin {"token", "popup"}
    BY <1>2, <2>2
  <2> QED  BY <2>1, <2>3 DEF RunOn
<1>7. CASE Page!Handle
  <2>1. PICK r \in wire : UNCHANGED <<view, account, active>> /\ \E reply : Page!Answered(r, reply)
    BY <1>7, Zenon DEF Page!Handle, Page!session
  <2>2. CASE run' = run
    BY <2>1, <2>2 DEF RunOn
  <2>3. CASE \E s \in Answers \ {"token refused"} : run' = [run EXCEPT !.step = s]
    <3>1. PICK s \in {"sent", "gone"} \union Answers : run' = [run EXCEPT !.step = s]
      BY <2>3
    <3>2. run'.step \notin {"token", "popup"}
      BY <1>2, <3>1
    <3> QED  BY <2>1, <3>2 DEF RunOn
  <2> QED  BY <2>1, <2>2, <2>3, AnsweredIs, PageTypes
<1>8. CASE Page!ConnectionLost
  <2>1. run' = [run EXCEPT !.step = "error"] /\ UNCHANGED <<view, account, active>>
    BY <1>8 DEF Page!ConnectionLost, Page!session
  <2> QED  BY <1>2, <2>1 DEF RunOn, Answers
<1>9. CASE Page!Finish
  <2>1. UNCHANGED <<view, account, active>> /\ (run' = Page!NoRun \/ run' = [run EXCEPT !.step = "gone"])
    BY <1>9, FinishIs, Zenon
  <2>2. CASE run' = [run EXCEPT !.step = "gone"]
    BY <1>2, <2>1, <2>2 DEF RunOn
  <2>3. CASE run' = Page!NoRun
    BY <1>1, <2>1, <2>3 DEF RunOn
  <2> QED  BY <2>1, <2>2, <2>3
<1> QED  BY <1>3, <1>4, <1>5, <1>6, <1>7, <1>8, <1>9

LEMMA SessionNext ==
  ASSUME PageTyped, SessionInv, Page!Next \/ UNCHANGED pageVars
  PROVE  SessionInv'
<1> USE DEF SessionInv
<1>1. CASE Page!FirstLoad \/ Page!Reload \/ Page!SignIn
  <2>1. CASE Loaded
    BY <2>1, NoRunIs DEF Loaded
  <2> QED  BY <1>1, <2>1, LoadedIs
<1>2. CASE Page!Start
  BY <1>2, StartIs, NoRunIs
<1>3. CASE Page!SignOut \/ Page!SignOutReturns
  BY <1>3 DEF Page!SignOut, Page!SignOutReturns
<1>4. CASE Page!Click
  BY <1>4 DEF Page!Click, Page!session, Page!Current
<1>5. CASE Page!NeedsPopup \/ Page!TokenRefused \/ Page!TokenCancelled \/ Page!TokenArrives \/ Page!Handle
             \/ Page!ConnectionLost \/ Page!Finish
  BY <1>5, RunOnIs DEF RunOn
<1>6. CASE UNCHANGED pageVars
  BY <1>6 DEF pageVars
<1> QED  BY <1>1, <1>2, <1>3, <1>4, <1>5, <1>6 DEF Page!Next

\* A stage that tells of an attempt tells of it after a reload too.
LEMMA ToldIs ==
  ASSUME NEW o \in Page!Stored, o \in Operations, NEW s, NEW action \in {"create", "remove"},
         s \in {"configured", "uncertain"} \/ s = Page!Attempted(o, action)
  PROVE  Page!Restored(o, s) \notin Begins(o) /\ s \notin Begins(o)
<1>1. o \in {"onedrive", "calendar", "contact", "fixed"} /\ o # "email"
  BY DEF Page!Stored
<1>2. s \in Begun /\ (s = "removal-uncertain" => o \in {"calendar", "fixed"})
  BY <1>1, AttemptedIs DEF Begun
<1>3. s \in {"configured", "uncertain", "removal-uncertain"}
  BY AttemptedIs
<1>4. Page!Restored(o, s) = s
  BY <1>2, <1>3, RestoredIs
<1> QED  BY <1>1, <1>2, <1>4, BegunIs

\* An answer that does not take the attempt back leaves it to be seen.
LEMMA UnsettledIs ==
  ASSUME run.op \in Operations, run.action \in {"create", "remove"}, run.step \in Answers,
         ~Page!Settled("any"), run.op # "email"
  PROVE  /\ Page!AfterAnswer \notin Begins(run.op)
         /\ run.op \in Page!Stored => Page!Restored(run.op, Page!AfterAnswer) \notin Begins(run.op)
<1>1. run.step # "server-shutting-down" /\ (run.step = "done" => run.action = "create")
  BY DEF Page!Settled
<1>2. CASE run.op \in Page!Sends
  <2>1. Page!AfterAnswer \in Begun
    BY <1>1, <1>2, SentAfter DEF Begun
  <2>2. run.op \notin Page!Stored
    BY <1>2 DEF Page!Stored, Page!Sends
  <2> QED  BY <2>1, <2>2, BegunIs
<1>3. CASE run.op \in Page!Stored
  <2>1. Page!AfterAnswer = "configured" \/ Page!AfterAnswer = Page!Attempted(run.op, run.action)
    BY <1>1, <1>3, StoredAfter DEF Answers
  <2> QED  BY <1>3, <2>1, ToldIs
<1> QED  BY <1>2, <1>3, OperatorSideAssumption

\* What is owed, part by part.
LEMMA OwedTypes ==
  ASSUME PageTyped, NEW d \in owed
  PROVE  /\ d.account \in Accounts /\ d.op \in Operations /\ d.account # "none"
         /\ d.op \in Page!Stored <=> d.op \notin Page!Sends
<1>1. d.account \in Accounts /\ d.op \in Operations
  BY PageTypes
<1>2. d.op \in Page!Stored <=> d.op \notin Page!Sends
  BY <1>1, OperatorSideAssumption DEF Page!Stored, Page!Sends
<1> QED  BY <1>1, <1>2, OperatorSideAssumption

\* A step that leaves all that is owed, stored and shown, and only takes the run on.
LEMMA RunOnOwed ==
  ASSUME OwedInv, UNCHANGED <<account, kept, stages, owed>>,
         \/ run' = run
         \/ run.step \notin Beyond /\ run'.step \in {"token", "popup"} =>
              run.step \in {"token", "popup"} /\ run'.op = run.op /\ run'.action = run.action,
         run.step \in Beyond => run' = run \/ (run'.op = run.op /\ run'.step \in Beyond)
  PROVE  OwedInv'
BY DEF OwedInv, Beyond

LEMMA OwedStart ==
  ASSUME PageInv, Page!Start
  PROVE  OwedInv'
<1> USE DEF PageInv
<1>1. run' = Page!NoRun /\ UNCHANGED <<kept, owed>> /\ account = "none" /\ run'.step = "none"
  BY StartIs, NoRunIs DEF SessionInv
<1>2. \A d \in owed : d.op \notin Page!Sends /\ d.op \in Page!Stored
  BY <1>1, OwedTypes DEF OwedInv
<1>3. CASE UNCHANGED <<account, connected, stages>>
  <2>1. \A d \in owed : d.account # account
    BY <1>1, OwedTypes
  <2> QED  BY <1>1, <1>2, <1>3, <2>1 DEF OwedInv
<1>4. CASE /\ account' \in Accounts
           /\ stages' = [o \in Operations |->
                           IF o \in Page!Sends THEN "idle" ELSE Page!Restored(o, kept[account'][o])]
  <2>1. ASSUME NEW d \in owed, d.account = account'
        PROVE  stages'[d.op] \notin Begins(d.op)
    <3>1. d.op \in Operations /\ d.op \in Page!Stored /\ d.op \notin Page!Sends
      BY <1>2, OwedTypes
    <3>2. stages'[d.op] = Page!Restored(d.op, kept[d.account][d.op])
      BY <1>4, <2>1, <3>1
    <3> QED  BY <3>1, <3>2 DEF OwedInv
  <2> QED  BY <1>1, <1>2, <2>1 DEF OwedInv
<1> QED  BY <1>3, <1>4, StartIs

LEMMA OwedClick ==
  ASSUME PageInv, Page!Click
  PROVE  OwedInv'
<1> USE DEF PageInv
<1>1. PICK o \in Operations, action \in {"create", "remove"} :
        /\ Page!Allowed(o, action, stages[o])
        /\ run' = [op |-> o, action |-> action, step |-> "token", previous |-> stages[o], number |-> clicks + 1]
  BY Zenon DEF Page!Click, Page!Actions
<1>2. run = Page!NoRun /\ UNCHANGED <<account, stages, kept, owed>>
  BY DEF Page!Click, Page!session
<1>3. run.step \notin Beyond
  BY <1>2, NoRunIs DEF Beyond
<1>4. \A d \in owed : d.account = account /\ d.op # "email" => stages[d.op] \notin Begins(d.op)
  BY <1>3 DEF OwedInv
<1>5. run'.op = o /\ run'.action = action
  BY <1>1
<1>6. action = "create" /\ o # "email" => stages[o] \in Begins(o)
  BY <1>1, AllowedIs
<1>7. action = "create" /\ o # "email" => [account |-> account, op |-> o] \notin owed
  <2>1. [account |-> account, op |-> o].account = account /\ [account |-> account, op |-> o].op = o
    OBVIOUS
  <2> QED  BY <1>4, <1>6, <2>1
<1> QED  BY <1>2, <1>4, <1>5, <1>7 DEF OwedInv

LEMMA OwedCancelled ==
  ASSUME PageInv, Page!TokenCancelled
  PROVE  OwedInv'
<1> USE DEF PageInv
<1>1. /\ run.step \in {"token", "popup"} /\ UNCHANGED <<account, kept, owed>>
      /\ run' = Page!NoRun \/ run' = [run EXCEPT !.step = "gone"]
      /\ stages' = [stages EXCEPT ![run.op] = "cancelled"] \/ stages' = stages
  BY Zenon DEF Page!TokenCancelled, Page!session, Page!Shows
<1>2. run'.step \notin {"token", "popup"}
  <2>1. CASE run' = Page!NoRun
    BY <2>1, NoRunIs
  <2>2. CASE run' = [run EXCEPT !.step = "gone"]
    BY <2>2, RunStep, PageTypes
  <2> QED  BY <1>1, <2>1, <2>2
<1>3. ASSUME NEW d \in owed, d.account = account, d.op # "email"
      PROVE  stages'[d.op] \notin Begins(d.op)
  <2>1. stages[d.op] \notin Begins(d.op) /\ d.op \in Operations
    BY <1>1, <1>3, OwedTypes DEF OwedInv, Beyond
  <2>2. "cancelled" \notin Begins(d.op)
    BY <1>3, <2>1, BegunIs DEF Begun
  <2>3. stages'[d.op] \in {stages[d.op], "cancelled"}
    BY <1>1, <2>1, PageTypes
  <2> QED  BY <2>1, <2>2, <2>3
<1> QED  BY <1>1, <1>2, <1>3 DEF OwedInv

\* The stage under which a request leaves is stored before it does.
LEMMA OwedSent ==
  ASSUME PageInv, run.step \in {"token", "popup"}, account \in Accounts, account' = account,
         run' = [run EXCEPT !.step = "sent"],
         \/ run.op \in Page!Sends /\ UNCHANGED <<stages, kept>>
         \/ /\ run.op \notin Page!Sends
            /\ stages' = [stages EXCEPT ![run.op] = Page!Attempted(run.op, run.action)]
            /\ kept' = [kept EXCEPT ![account][run.op] = Page!Attempted(run.op, run.action)],
         \/ run.action = "create" /\ owed' = owed \union {[account |-> account, op |-> run.op]}
         \/ run.action # "create" /\ owed' = owed
  PROVE  OwedInv'
<1> USE DEF PageInv
<1>1. run'.step = "sent" /\ run'.op = run.op /\ run.op \in Operations /\ run.action \in {"create", "remove"}
  BY RunStep, PageTypes
<1>2. account # "none"
  BY OperatorSideAssumption
<1>3. \A d \in owed' : d \in owed \/ (d.account = account /\ d.op = run.op)
  OBVIOUS
<1>4. \A d \in owed' : d.account \in Accounts /\ d.op \in Operations
  BY <1>1, <1>3, OwedTypes
<1>5. CASE run.op \in Page!Sends /\ UNCHANGED <<stages, kept>>
  <2>1. run.op \notin Page!Stored
    BY <1>5 DEF Page!Stored, Page!Sends
  <2>2. \A d \in owed : d.account = account /\ d.op # "email" => stages[d.op] \notin Begins(d.op)
    BY DEF OwedInv, Beyond
  <2> QED  BY <1>1, <1>2, <1>3, <1>5, <2>1, <2>2 DEF OwedInv, Beyond
<1>6. CASE /\ run.op \notin Page!Sends
           /\ stages' = [stages EXCEPT ![run.op] = Page!Attempted(run.op, run.action)]
           /\ kept' = [kept EXCEPT ![account][run.op] = Page!Attempted(run.op, run.action)]
  <2>1. run.op \in Page!Stored
    BY <1>1, <1>6, OperatorSideAssumption
  <2>2. Page!Restored(run.op, Page!Attempted(run.op, run.action)) \notin Begins(run.op)
    BY <1>1, <2>1, ToldIs
  <2>3. Page!Attempted(run.op, run.action) \in Page!Stages
    BY <1>1, <2>1, AttemptedIs DEF Page!Stages
  <2>4. /\ kept'[account][run.op] = Page!Attempted(run.op, run.action)
        /\ \A a \in Accounts, p \in Operations : a # account \/ p # run.op => kept'[a][p] = kept[a][p]
    BY <1>1, <1>6, <2>3, KeptIs, PageTypes
  <2>5. ASSUME NEW d \in owed', d.op \in Page!Stored
        PROVE  Page!Restored(d.op, kept'[d.account][d.op]) \notin Begins(d.op)
    <3>1. CASE d.account = account /\ d.op = run.op
      BY <2>2, <2>4, <3>1
    <3>2. CASE ~(d.account = account /\ d.op = run.op)
      <4>1. d \in owed /\ kept'[d.account][d.op] = kept[d.account][d.op]
        BY <1>3, <1>4, <2>4, <3>2
      <4> QED  BY <2>5, <4>1 DEF OwedInv
    <3> QED  BY <3>1, <3>2
  <2>6. ASSUME NEW d \in owed', d.account = account, d.op # "email", d.op # run.op
        PROVE  stages'[d.op] \notin Begins(d.op)
    <3>1. d \in owed /\ d.op \in Operations
      BY <1>3, <1>4, <2>6
    <3>2. stages[d.op] \notin Begins(d.op)
      BY <2>6, <3>1 DEF OwedInv, Beyond
    <3>3. stages'[d.op] = stages[d.op]
      BY <1>6, <2>6, <3>1, PageTypes
    <3> QED  BY <3>2, <3>3
  <2> QED  BY <1>1, <1>2, <2>5, <2>6 DEF OwedInv, Beyond
<1> QED  BY <1>5, <1>6

LEMMA OwedFinish ==
  ASSUME PageInv, Page!Finish
  PROVE  OwedInv'
<1> USE DEF PageInv
<1>1. /\ run.op \in Operations /\ run.action \in {"create", "remove"} /\ run.previous \in Page!Stages
      /\ run.step \in Answers /\ Page!AfterAnswer \in Page!Stages
  BY FinishIs, AfterIs, PageTypes DEF Answers
<1>2. owed' \subseteq owed /\ account' = account /\ \A d \in owed' : d.account \in Accounts /\ d.op \in Operations
  BY FinishIs, OwedTypes
<1>3. \A d \in owed' : d.account = account /\ d.op = run.op => ~Page!Settled("any")
  BY FinishIs
<1>4. CASE view # "signed-in" /\ run' = [run EXCEPT !.step = "gone"] /\ UNCHANGED <<stages, kept>>
  <2>1. run'.step = "gone" /\ run'.op = run.op
    BY <1>4, RunStep, PageTypes
  <2> QED  BY <1>2, <1>4, <2>1 DEF OwedInv, Beyond
<1>5. CASE /\ view = "signed-in" /\ run' = Page!NoRun
           /\ stages' = [stages EXCEPT ![run.op] = Page!AfterAnswer]
           /\ \/ kept' = kept /\ (run.op \in Page!Sends \/ run.step \in {"error", "token refused"})
              \/ run.op \notin Page!Sends /\ kept' = [kept EXCEPT ![account][run.op] = Page!AfterAnswer]
  <2>1. account \in Accounts /\ run'.step = "none"
    BY <1>5, NoRunIs DEF SessionInv
  <2>2. ASSUME NEW d \in owed', d.account = account, d.op # "email"
        PROVE  stages'[d.op] \notin Begins(d.op)
    <3>1. CASE d.op = run.op
      <4>1. stages'[d.op] = Page!AfterAnswer
        BY <1>1, <1>5, <3>1, PageTypes
      <4> QED  BY <1>1, <1>3, <2>2, <3>1, <4>1, UnsettledIs
    <3>2. CASE d.op # run.op
      <4>1. stages'[d.op] = stages[d.op]
        BY <1>2, <1>5, <3>2, PageTypes
      <4> QED  BY <1>2, <2>2, <3>2, <4>1 DEF OwedInv
    <3> QED  BY <3>1, <3>2
  <2>3. ASSUME NEW d \in owed', d.op \in Page!Stored
        PROVE  Page!Restored(d.op, kept'[d.account][d.op]) \notin Begins(d.op)
    <3>1. CASE kept' = kept
      BY <1>2, <2>3, <3>1 DEF OwedInv
    <3>2. CASE kept' = [kept EXCEPT ![account][run.op] = Page!AfterAnswer]
      <4>1. /\ kept'[account][run.op] = Page!AfterAnswer
            /\ \A a \in Accounts, p \in Operations : a # account \/ p # run.op => kept'[a][p] = kept[a][p]
        BY <1>1, <2>1, <3>2, KeptIs, PageTypes
      <4>2. CASE d.account = account /\ d.op = run.op
        <5>1. run.op # "email"
          BY <2>3, <4>2 DEF Page!Stored
        <5> QED  BY <1>1, <1>3, <2>3, <4>1, <4>2, <5>1, UnsettledIs
      <4>3. CASE ~(d.account = account /\ d.op = run.op)
        <5>1. d \in owed /\ kept'[d.account][d.op] = kept[d.account][d.op]
          BY <1>2, <4>1, <4>3
        <5> QED  BY <2>3, <5>1 DEF OwedInv
      <4> QED  BY <4>2, <4>3
    <3> QED  BY <1>5, <3>1, <3>2
  <2> QED  BY <1>2, <2>1, <2>2, <2>3 DEF OwedInv
<1> QED  BY <1>4, <1>5, FinishIs

LEMMA OwedNext ==
  ASSUME PageInv, Page!Next \/ UNCHANGED pageVars
  PROVE  OwedInv'
<1> USE DEF PageInv
<1>1. ASSUME Loaded
      PROVE  OwedInv'
  <2>1. account' = "none" /\ kept' = kept /\ run'.step = "starting" /\ owed' \subseteq owed
        /\ \A d \in owed' : d.op \notin Page!Sends
    BY <1>1, NoRunIs DEF Loaded
  <2>2. \A d \in owed' : d.account # account'
    BY <2>1, OwedTypes
  <2> QED  BY <2>1, <2>2 DEF OwedInv
<1>2. CASE Page!FirstLoad \/ Page!Reload \/ Page!SignIn
  <2>1. CASE UNCHANGED <<account, kept, stages, owed, run>>
    BY <2>1, RunOnOwed
  <2> QED  BY <1>1, <1>2, <2>1, LoadedIs
<1>3. CASE Page!Start
  BY <1>3, OwedStart
<1>4. CASE Page!SignOut \/ Page!SignOutReturns
  BY <1>4, RunOnOwed DEF Page!SignOut, Page!SignOutReturns
<1>5. CASE Page!Click
  BY <1>5, OwedClick
<1>6. CASE Page!NeedsPopup \/ Page!TokenRefused
  <2>1. run.step \in {"token", "popup"} /\ UNCHANGED <<account, kept, stages, owed>>
    BY <1>6 DEF Page!NeedsPopup, Page!TokenRefused, Page!session
  <2>2. RunOn
    BY <1>6, RunOnIs
  <2> QED  BY <2>1, <2>2, RunOnOwed DEF RunOn, Beyond
<1>7. CASE Page!TokenCancelled
  BY <1>7, OwedCancelled
<1>8. CASE Page!TokenArrives
  <2>1. run.step \in {"token", "popup"} /\ account' = account
    BY <1>8, TokenArrivesIs
  <2>2. CASE UNCHANGED <<stages, kept, wire, owed>>
    <3>1. RunOn
      BY <1>8, RunOnIs
    <3> QED  BY <2>1, <2>2, <3>1, RunOnOwed DEF RunOn, Beyond
  <2>3. CASE account = active /\ active # "none"
    <3>1. account \in Accounts
      BY <2>3, PageTypes
    <3> QED  BY <1>8, <2>1, <2>2, <3>1, TokenArrivesIs, OwedSent
  <2> QED  BY <1>8, <2>2, <2>3, TokenArrivesIs
<1>9. CASE Page!Handle \/ Page!ConnectionLost
  <2>1. UNCHANGED <<account, kept, stages, owed>>
    BY <1>9, Zenon DEF Page!Handle, Page!ConnectionLost, Page!session
  <2>2. run' = run \/ (run.step = "sent" /\ run'.op = run.op /\ run'.step \in Beyond)
    <3>1. \/ run' = run
          \/ run.step = "sent" /\ \E s \in Answers \ {"token refused"} : run' = [run EXCEPT !.step = s]
      <4>1. CASE Page!Handle
        <5>1. PICK r \in wire : \E reply : Page!Answered(r, reply)
          BY <4>1, Zenon DEF Page!Handle
        <5> QED  BY <5>1, AnsweredIs, PageTypes
      <4>2. CASE Page!ConnectionLost
        <5>1. run.step = "sent" /\ run' = [run EXCEPT !.step = "error"]
          BY <4>2 DEF Page!ConnectionLost
        <5> QED  BY <5>1, Zenon DEF Answers
      <4> QED  BY <1>9, <4>1, <4>2
    <3>2. ASSUME NEW s \in Answers \ {"token refused"}, run' = [run EXCEPT !.step = s]
          PROVE  run'.op = run.op /\ run'.step \in Beyond
      BY <3>2, RunStep, PageTypes DEF Answers, Beyond
    <3> QED  BY <3>1, <3>2
  <2> QED  BY <2>1, <2>2, RunOnOwed DEF Beyond
<1>10. CASE Page!Finish
  BY <1>10, OwedFinish
<1>11. CASE UNCHANGED pageVars
  BY <1>11, RunOnOwed DEF pageVars
<1> QED  BY <1>2, <1>3, <1>4, <1>5, <1>6, <1>7, <1>8, <1>9, <1>10, <1>11 DEF Page!Next

LEMMA PageNext ==
  ASSUME PageInv, [Next]_operatorVars
  PROVE  PageInv'
BY EachSteps, PageTypedNext, SessionNext, OwedNext DEF PageInv

LEMMA PageStart ==
  ASSUME Init
  PROVE  PageInv
<1>1. Page!Init
  BY DEF Init
<1>2. \A o \in Operations : Page!Fresh(o) \in Page!Stages
  BY Zenon DEF Page!Fresh, Page!Stages
<1>3. run \in Runs /\ run.step = "none"
  BY <1>1, NoRunIs DEF Page!Init
<1>4. PageTyped
  BY <1>1, <1>2, <1>3 DEF Page!Init, PageTyped, Page!TypeOK
<1>5. SessionInv /\ OwedInv
  BY <1>1, <1>3 DEF Page!Init, SessionInv, OwedInv
<1> QED  BY <1>4, <1>5 DEF PageInv

\* What goes out is what the account may send: a step of the page sends only as the
\* token arrives.
LEMMA SendsIs ==
  ASSUME PageInv, Page!Next \/ UNCHANGED pageVars
  PROVE  \/ wire' \subseteq wire
         \/ /\ run.step \in {"token", "popup"} /\ account = active /\ active # "none"
            /\ wire' = wire \union {[op |-> run.op, action |-> run.action, number |-> run.number]}
            /\ run.op \in Page!Sends => kept' = kept
<1> USE DEF PageInv
<1>1. CASE Page!FirstLoad \/ Page!Reload \/ Page!SignIn
  BY <1>1, LoadedIs DEF Loaded
<1>2. CASE Page!Start \/ Page!Finish
  BY <1>2, StartIs, FinishIs
<1>3. CASE Page!SignOut \/ Page!SignOutReturns \/ Page!Click \/ Page!NeedsPopup \/ Page!TokenRefused
             \/ Page!TokenCancelled \/ Page!ConnectionLost
  BY <1>3, Zenon DEF Page!SignOut, Page!SignOutReturns, Page!Click, Page!NeedsPopup, Page!TokenRefused,
                     Page!TokenCancelled, Page!ConnectionLost, Page!api
<1>4. CASE Page!Handle
  BY <1>4 DEF Page!Handle
<1>5. CASE Page!TokenArrives
  BY <1>5, TokenArrivesIs
<1>6. CASE UNCHANGED pageVars
  BY <1>6 DEF pageVars
<1> QED  BY <1>1, <1>2, <1>3, <1>4, <1>5, <1>6 DEF Page!Next

LEMMA PageRepeatsNothing ==
  ASSUME PageInv, Page!Next \/ UNCHANGED pageVars, NEW r \in wire' \ wire,
         r.action = "create", r.op # "email"
  PROVE  [account |-> account, op |-> r.op] \notin owed
<1>1. run.step \in {"token", "popup"} /\ r.op = run.op /\ r.action = run.action
  BY SendsIs
<1> QED  BY <1>1 DEF PageInv, OwedInv

\* Without a session there is nothing that a token could still be for.
LEMMA PageFallsSilent ==
  ASSUME PageInv, Page!Next \/ UNCHANGED pageVars, view # "signed-in"
  PROVE  wire' \subseteq wire /\ kept' = kept
<1> USE DEF PageInv
<1>1. wire' \subseteq wire
  BY SendsIs DEF SessionInv
<1>2. kept' = kept
  <2>1. CASE Page!FirstLoad \/ Page!Reload \/ Page!SignIn
    BY <2>1, LoadedIs DEF Loaded
  <2>2. CASE Page!Start \/ Page!Finish
    BY <2>2, StartIs, FinishIs
  <2>3. CASE Page!SignOut \/ Page!SignOutReturns \/ Page!Click \/ Page!NeedsPopup \/ Page!TokenRefused
               \/ Page!TokenCancelled \/ Page!ConnectionLost \/ Page!Handle
    BY <2>3, Zenon DEF Page!SignOut, Page!SignOutReturns, Page!Click, Page!NeedsPopup, Page!TokenRefused,
                       Page!TokenCancelled, Page!ConnectionLost, Page!Handle
  <2>4. CASE Page!TokenArrives
    BY <2>4, TokenArrivesIs DEF SessionInv
  <2>5. CASE UNCHANGED pageVars
    BY <2>5 DEF pageVars
  <2> QED  BY <2>1, <2>2, <2>3, <2>4, <2>5 DEF Page!Next
<1> QED  BY <1>1, <1>2

LEMMA PageAlways == Spec => []PageInv
<1>1. Init => PageInv
  BY PageStart
<1>2. PageInv /\ [Next]_operatorVars => PageInv'
  BY PageNext
<1> QED  BY <1>1, <1>2, PTL DEF Spec

\* Whatever token or answer still arrives: once the operator has begun to sign out, the
\* page sends nothing and stores nothing.
THEOREM FallsSilent == Spec => SilentAfterSignOut
<1>1. PageInv /\ [Next]_operatorVars =>
        [~Page!Current => wire' \subseteq wire /\ kept' = kept]_(Page!pageVars)
  BY EachSteps, PageFallsSilent DEF Page!Current
<1> QED  BY <1>1, PageAlways, PTL DEF Spec, SilentAfterSignOut, Page!SilentAfterSignOut

-----------------------------------------------------------------------------
\* The inbox-rule exercise.

\* Where a run is on its way to a send.
Sending == {"create", "confirm", "send gate", "send"}

\* The message of a rule was sent while the rule stands; a run gets beyond its gate only
\* where no rule stands, and sends none of an earlier rule.
ExerciseInv ==
  /\ Exercise!TypeOK /\ mailed \in Nat
  /\ guarded \in BOOLEAN /\ (guarded => rule # "none")
  /\ pc \in Sending => ~guarded
  /\ outcome = "clean" => pc = "none" /\ cmd = "none" /\ rule = "none" /\ Exercise!AllMail = {}

LEMMA CountIs == rule \in {"none", "exact", "changed", "two"} /\ Exercise!Count(rule) = 0 => rule = "none"
<1>1. rule = "exact" => Exercise!Count(rule) = 1
  BY Zenon DEF Exercise!Count
<1>2. rule = "changed" => Exercise!Count(rule) = 1
  BY Zenon DEF Exercise!Count
<1>3. rule = "two" => Exercise!Count(rule) = 2
  BY Zenon DEF Exercise!Count
<1> QED  BY <1>1, <1>2, <1>3

\* A step that sends nothing, makes and removes no rule, and moves the run on by no gate.
LEMMA ExerciseKept ==
  ASSUME ExerciseInv, UNCHANGED <<rule, mailed, guarded>>,
         power' \in {"deallocated", "starting", "running"}, sessions' \subseteq Exercise!Users,
         transit' \union trash' \union found' \union DOMAIN inbox' \subseteq 1..mailed,
         outcome' \in {"none", "failed", "done", "overtaken"} \/ (outcome' = outcome /\ pc = pc' /\ cmd' = cmd /\ UNCHANGED <<inbox, trash>>),
         pc' \in Sending => pc \in Sending \/ rule = "none"
  PROVE  ExerciseInv'
BY DEF ExerciseInv, Exercise!TypeOK, Exercise!AllMail, Exercise!Delivered

LEMMA ExerciseTypes ==
  ASSUME ExerciseInv
  PROVE  /\ power \in {"deallocated", "starting", "running"} /\ sessions \subseteq {"marge", "rachel"}
         /\ rule \in {"none", "exact", "changed", "two"} /\ mailed \in Nat
         /\ transit \subseteq 1..mailed /\ trash \subseteq 1..mailed /\ found \subseteq 1..mailed
         /\ DOMAIN inbox \subseteq 1..mailed /\ Exercise!AllMail = DOMAIN inbox \union trash
         /\ outcome \in {"none", "failed", "done", "clean", "overtaken"}
         /\ pc # "none" => outcome # "clean"
BY DEF ExerciseInv, Exercise!TypeOK, Exercise!AllMail, Exercise!Delivered, Exercise!Users

\* How a command ends, and how it goes on.
LEMMA EndsIs ==
  ASSUME ExerciseInv, NEW how \in {"failed", "done"}, Exercise!Ends(how),
         UNCHANGED <<rule, transit, mailed, guarded>>,
         power' \in {"deallocated", "starting", "running"}, sessions' \subseteq {"marge", "rachel"},
         trash' \subseteq 1..mailed, DOMAIN inbox' \subseteq 1..mailed
  PROVE  ExerciseInv'
<1>1. outcome' = how /\ pc' = "none" /\ found' = {}
  BY DEF Exercise!Ends
<1> QED  BY <1>1, ExerciseKept, ExerciseTypes DEF Exercise!Users, Sending

LEMMA GoesOnIs ==
  ASSUME ExerciseInv, pc # "none", outcome' = outcome, found' \subseteq 1..mailed,
         pc' \in Sending => pc \in Sending \/ rule = "none",
         UNCHANGED <<rule, transit, mailed, guarded>>,
         power' \in {"deallocated", "starting", "running"}, sessions' \subseteq {"marge", "rachel"},
         trash' \subseteq 1..mailed, DOMAIN inbox' \subseteq 1..mailed
  PROVE  ExerciseInv'
<1>1. outcome' \in {"none", "failed", "done", "overtaken"}
  BY ExerciseTypes
<1> QED  BY <1>1, ExerciseKept, ExerciseTypes DEF Exercise!Users

\* The commands but for the send, the rule and the end of a cleanup.
LEMMA ExerciseMoves ==
  ASSUME ExerciseInv,
         Exercise!StartAvd \/ Exercise!AwaitReady \/ Exercise!LogOff \/ Exercise!AwaitLogOff
           \/ Exercise!Deallocate \/ Exercise!Gate \/ Exercise!ConfirmRule \/ Exercise!SendGate
           \/ Exercise!AwaitEffect \/ Exercise!Inventory \/ Exercise!DeleteMessage \/ Exercise!Residue
  PROVE  ExerciseInv'
<1> USE DEF Exercise!desktop, Exercise!mailbox, Exercise!history
<1>1. ASSUME UNCHANGED <<rule, transit, mailed, guarded>>, pc # "none",
             power' \in {"deallocated", "starting", "running"}, sessions' \subseteq {"marge", "rachel"},
             trash' \subseteq 1..mailed, DOMAIN inbox' \subseteq 1..mailed,
             \/ Exercise!Ends("failed") \/ Exercise!Ends("done")
             \/ /\ outcome' = outcome /\ found' \subseteq 1..mailed
                /\ pc' \in Sending => pc \in Sending \/ rule = "none"
      PROVE  ExerciseInv'
  BY <1>1, EndsIs, GoesOnIs
<1>2. ASSUME NEW s, Exercise!GoTo(s)
      PROVE  outcome' = outcome /\ found' \subseteq 1..mailed /\ pc' = s
  BY <1>2, ExerciseTypes DEF Exercise!GoTo
<1>3. ASSUME NEW s, Exercise!Poll(s)
      PROVE  outcome' = outcome /\ found' \subseteq 1..mailed /\ pc' = s
  BY <1>3, ExerciseTypes DEF Exercise!Poll
<1>4. CASE Exercise!StartAvd
  <2>1. /\ UNCHANGED <<rule, transit, inbox, trash, mailed, guarded, sessions>> /\ pc = "start"
        /\ \/ Exercise!Ends("failed") /\ power' = power
           \/ Exercise!GoTo("await ready") /\ power' \in {"running", "starting"}
    BY <1>4, Zenon DEF Exercise!StartAvd
  <2>2. power' \in {"deallocated", "starting", "running"} /\ "await ready" \notin Sending
    BY <2>1, ExerciseTypes DEF Sending
  <2> QED  BY <1>1, <1>2, <2>1, <2>2, ExerciseTypes
<1>5. CASE Exercise!AwaitReady
  <2>1. /\ UNCHANGED <<rule, transit, inbox, trash, mailed, guarded, sessions>> /\ pc = "await ready"
        /\ power' \in {power, "running"}
        /\ Exercise!Ends("failed") \/ Exercise!Ends("done") \/ Exercise!Poll("await ready")
    BY <1>5, Zenon DEF Exercise!AwaitReady
  <2> QED  BY <1>1, <1>3, <2>1, ExerciseTypes DEF Sending
<1>6. CASE Exercise!LogOff
  <2>1. /\ UNCHANGED <<rule, transit, inbox, trash, mailed, guarded, power>> /\ pc = "logoff"
        /\ sessions' \in {sessions, sessions \ {"marge"}}
        /\ Exercise!Ends("failed") \/ Exercise!GoTo("await logoff")
    BY <1>6, Zenon DEF Exercise!LogOff
  <2>2. sessions' \subseteq {"marge", "rachel"} /\ {"await logoff", "deallocate"} \intersect Sending = {}
    BY <2>1, ExerciseTypes DEF Sending
  <2> QED  BY <1>1, <1>2, <2>1, <2>2, ExerciseTypes
<1>7. CASE Exercise!AwaitLogOff
  <2>1. /\ UNCHANGED <<rule, transit, inbox, trash, mailed, guarded, power>> /\ pc = "await logoff"
        /\ sessions' \in {sessions, sessions \ {"marge"}}
        /\ Exercise!Ends("failed") \/ Exercise!GoTo("deallocate") \/ Exercise!Poll("await logoff")
    BY <1>7, Zenon DEF Exercise!AwaitLogOff
  <2>2. sessions' \subseteq {"marge", "rachel"} /\ {"await logoff", "deallocate"} \intersect Sending = {}
    BY <2>1, ExerciseTypes DEF Sending
  <2> QED  BY <1>1, <1>2, <1>3, <2>1, <2>2, ExerciseTypes
<1>8. CASE Exercise!Deallocate
  BY <1>1, <1>8, ExerciseTypes DEF Exercise!Deallocate
<1>9. CASE Exercise!Gate
  <2>1. /\ UNCHANGED <<rule, transit, inbox, trash, mailed, guarded, power, sessions>> /\ pc = "gate"
        /\ Exercise!Ends("failed") \/ (Exercise!MarkerFree /\ Exercise!GoTo("create"))
    BY <1>9, Zenon DEF Exercise!Gate
  <2>2. Exercise!MarkerFree => rule = "none"
    BY CountIs, ExerciseTypes DEF Exercise!MarkerFree
  <2> QED  BY <1>1, <1>2, <2>1, <2>2, ExerciseTypes
<1>10. CASE Exercise!ConfirmRule \/ Exercise!SendGate
  <2>1. /\ UNCHANGED <<rule, transit, inbox, trash, mailed, guarded, power, sessions>> /\ pc \in {"confirm", "send gate"}
        /\ Exercise!Ends("failed") \/ Exercise!GoTo("send gate") \/ Exercise!GoTo("send")
    BY <1>10, Zenon DEF Exercise!ConfirmRule, Exercise!SendGate
  <2> QED  BY <1>1, <1>2, <2>1, ExerciseTypes DEF Sending
<1>11. CASE Exercise!AwaitEffect
  <2>1. /\ UNCHANGED <<rule, transit, inbox, trash, mailed, guarded, power, sessions>> /\ pc = "await effect"
        /\ Exercise!Ends("failed") \/ Exercise!Ends("done") \/ Exercise!Poll("await effect")
    BY <1>11, Zenon DEF Exercise!AwaitEffect
  <2> QED  BY <1>1, <1>3, <2>1, ExerciseTypes DEF Sending
<1>12. CASE Exercise!Inventory
  <2>1. /\ UNCHANGED <<rule, transit, inbox, trash, mailed, guarded, power, sessions>> /\ pc = "inventory"
        /\ \/ Exercise!Ends("failed")
           \/ pc' \in {"delete rule", "delete message"} /\ found' = Exercise!AllMail /\ outcome' = outcome
    BY <1>12 DEF Exercise!Inventory
  <2> QED  BY <1>1, <2>1, ExerciseTypes DEF Sending
<1>13. CASE Exercise!DeleteMessage
  <2>1. /\ UNCHANGED <<rule, transit, mailed, guarded, power, sessions>> /\ pc = "delete message"
        /\ Exercise!Ends("failed") \/ Exercise!GoTo("residue")
        /\ \/ UNCHANGED <<inbox, trash>>
           \/ \E n \in found : inbox' = Exercise!Without(n) /\ trash' \subseteq trash \union {n}
    BY <1>13 DEF Exercise!DeleteMessage
  <2>2. trash' \subseteq 1..mailed /\ DOMAIN inbox' \subseteq 1..mailed
    BY <2>1, ExerciseTypes DEF Exercise!Without, Exercise!Delivered
  <2>3. "residue" \notin Sending
    BY DEF Sending
  <2> QED  BY <1>1, <1>2, <2>1, <2>2, <2>3, ExerciseTypes
<1>14. CASE Exercise!Residue
  <2>1. /\ UNCHANGED <<rule, transit, mailed, guarded, power, sessions>> /\ pc = "residue"
        /\ Exercise!Ends("failed") \/ Exercise!Poll("residue") \/ Exercise!Poll("absence")
        /\ \/ UNCHANGED <<inbox, trash>>
           \/ \E n \in Exercise!AllMail : inbox' = Exercise!Without(n) /\ trash' \subseteq trash
    BY <1>14 DEF Exercise!Residue
  <2>2. trash' \subseteq 1..mailed /\ DOMAIN inbox' \subseteq 1..mailed
    BY <2>1, ExerciseTypes DEF Exercise!Without, Exercise!Delivered
  <2>3. {"residue", "absence"} \intersect Sending = {}
    BY DEF Sending
  <2> QED  BY <1>1, <1>3, <2>1, <2>2, <2>3, ExerciseTypes
<1> QED  BY <1>4, <1>5, <1>6, <1>7, <1>8, <1>9, <1>10, <1>11, <1>12, <1>13, <1>14

LEMMA ExerciseNext ==
  ASSUME ExerciseInv, Exercise!Next \/ UNCHANGED exerciseVars
  PROVE  ExerciseInv'
<1> USE DEF Exercise!desktop, Exercise!mailbox, Exercise!history
<1>1. CASE Exercise!Throws
  BY <1>1, EndsIs, ExerciseTypes DEF Exercise!Throws
<1>2. CASE Exercise!Issue
  <2>1. pc' \in {"start", "gate", "inventory", "logoff"}
    <3>1. PICK c \in {"start-avd", "run", "cleanup", "finalize-avd"} :
            pc' = CASE c = "start-avd" -> "start" [] c = "run" -> "gate"
                    [] c = "cleanup" -> "inventory" [] OTHER -> "logoff"
      BY <1>2 DEF Exercise!Issue
    <3> QED  BY <3>1, Zenon
  <2> QED  BY <1>2, <2>1, ExerciseKept, ExerciseTypes DEF Exercise!Issue, Sending, Exercise!Users
<1>3. CASE Exercise!CreateRule
  <2>1. /\ UNCHANGED <<power, sessions, transit, inbox, trash, mailed, guarded>> /\ pc = "create"
        /\ rule' \in {"exact", "two", rule} /\ (rule' # "none" \/ rule' = rule)
        /\ Exercise!Ends("failed") \/ Exercise!GoTo("confirm")
    BY <1>3 DEF Exercise!CreateRule
  <2>2. found' \subseteq 1..mailed /\ outcome' \in {"none", "failed", "done", "overtaken"}
        /\ pc' \in {"none", "confirm"}
    BY <2>1, ExerciseTypes DEF Exercise!Ends, Exercise!GoTo
  <2>3. Exercise!TypeOK'
    BY <2>1, <2>2, ExerciseTypes DEF Exercise!TypeOK, Exercise!Users
  <2> QED  BY <2>1, <2>2, <2>3 DEF ExerciseInv, Sending
<1>4. CASE Exercise!Send
  <2>1. /\ UNCHANGED <<power, sessions, rule, inbox, trash>> /\ pc = "send"
        /\ \/ /\ transit' = transit \union {mailed + 1} /\ mailed' = mailed + 1 /\ guarded' = (rule # "none")
              /\ Exercise!GoTo("await effect") \/ Exercise!Ends("failed")
           \/ UNCHANGED <<transit, mailed, guarded>> /\ Exercise!Ends("failed")
    BY <1>4, Zenon DEF Exercise!Send, Exercise!AfterFailedSend
  <2>2. CASE UNCHANGED <<transit, mailed, guarded>> /\ Exercise!Ends("failed")
    BY <2>1, <2>2, EndsIs, ExerciseTypes
  <2>3. CASE /\ transit' = transit \union {mailed + 1} /\ mailed' = mailed + 1 /\ guarded' = (rule # "none")
             /\ Exercise!GoTo("await effect") \/ Exercise!Ends("failed")
    <3>1. found' \subseteq 1..mailed /\ outcome' \in {"none", "failed", "done", "overtaken"}
          /\ pc' \in {"none", "await effect"}
      BY <2>1, <2>3, ExerciseTypes DEF Exercise!Ends, Exercise!GoTo
    <3>2. 1..mailed \subseteq 1..mailed' /\ mailed + 1 \in 1..mailed' /\ mailed' \in Nat
      <4>1. mailed \in Nat /\ mailed' = mailed + 1
        BY <2>3, ExerciseTypes
      <4> QED  BY <4>1
    <3>3. Exercise!TypeOK'
      BY <2>1, <2>3, <3>1, <3>2, ExerciseTypes DEF Exercise!TypeOK, Exercise!Users
    <3>4. guarded' \in BOOLEAN /\ (guarded' => rule' # "none")
      BY <2>1, <2>3
    <3> QED  BY <3>1, <3>2, <3>3, <3>4 DEF ExerciseInv, Sending
  <2> QED  BY <2>1, <2>2, <2>3
<1>5. CASE Exercise!DeleteRule
  <2>1. /\ UNCHANGED <<power, sessions, transit, inbox, trash, mailed>> /\ pc = "delete rule"
        /\ rule' \in {"exact", "none"} /\ guarded' = (guarded /\ rule' # "none")
        /\ Exercise!Ends("failed") \/ Exercise!GoTo("delete message")
    BY <1>5 DEF Exercise!DeleteRule
  <2>2. found' \subseteq 1..mailed /\ outcome' \in {"none", "failed", "done", "overtaken"}
        /\ pc' \in {"none", "delete message"}
    BY <2>1, ExerciseTypes DEF Exercise!Ends, Exercise!GoTo
  <2>3. Exercise!TypeOK'
    BY <2>1, <2>2, ExerciseTypes DEF Exercise!TypeOK, Exercise!Users
  <2> QED  BY <2>1, <2>2, <2>3 DEF ExerciseInv, Sending
<1>6. CASE Exercise!Absence
  <2>1. /\ UNCHANGED <<power, sessions, rule, transit, inbox, trash, mailed, guarded>> /\ pc = "absence"
        /\ cmd' = "none" /\ pc' = "none" /\ found' = {}
        /\ \/ outcome' = "failed"
           \/ outcome' = "clean" /\ Exercise!Count(rule) = 0 /\ Exercise!AllMail = {}
    BY <1>6, Zenon DEF Exercise!Absence, Exercise!Ends
  <2>2. outcome' = "clean" => rule = "none" /\ Exercise!AllMail = {}
    BY <2>1, CountIs, ExerciseTypes
  <2>3. Exercise!AllMail' = Exercise!AllMail
    BY <2>1 DEF Exercise!AllMail, Exercise!Delivered
  <2>4. Exercise!TypeOK'
    BY <2>1, ExerciseTypes DEF Exercise!TypeOK, Exercise!Users
  <2> QED  BY <2>1, <2>2, <2>3, <2>4 DEF ExerciseInv, Sending
<1>7. CASE Exercise!Deliver
  <2>1. PICK n \in transit :
          /\ transit' = transit \ {n}
          /\ inbox' = [m \in Exercise!Delivered \union {n} |-> IF m = n THEN rule = "exact" ELSE inbox[m]]
    BY <1>7 DEF Exercise!Deliver
  <2>2. DOMAIN inbox' = DOMAIN inbox \union {n}
    BY <2>1 DEF Exercise!Delivered
  <2>3. outcome' \in {"none", "failed", "done", "overtaken"}
    BY <1>7, ExerciseTypes DEF Exercise!Deliver
  <2> QED  BY <1>7, <2>1, <2>2, <2>3, ExerciseKept, ExerciseTypes DEF Exercise!Deliver, Exercise!Users
<1>8. CASE Exercise!SignsIn
  BY <1>8, ExerciseKept, ExerciseTypes DEF Exercise!SignsIn, Exercise!Users
<1>9. CASE Exercise!Edits
  <2>1. /\ rule = "exact" /\ rule' \in {"changed", "two", "none"} /\ guarded' = (guarded /\ rule' # "none")
        /\ UNCHANGED <<power, sessions, transit, inbox, trash, cmd, pc, found, outcome, mailed>>
    BY <1>9 DEF Exercise!Edits
  <2>2. Exercise!TypeOK'
    BY <2>1, ExerciseTypes DEF Exercise!TypeOK, Exercise!Users
  <2> QED  BY <2>1, <2>2 DEF ExerciseInv
<1>10. CASE UNCHANGED exerciseVars
  BY <1>10, ExerciseKept, ExerciseTypes DEF exerciseVars, Exercise!Users
<1> QED  BY <1>1, <1>2, <1>3, <1>4, <1>5, <1>6, <1>7, <1>8, <1>9, <1>10, ExerciseMoves DEF Exercise!Next

LEMMA ExerciseAlways == Spec => []ExerciseInv
<1>1. Init => ExerciseInv
  <2>1. ASSUME Exercise!Init
        PROVE  Exercise!AllMail = {} /\ DOMAIN inbox = {}
    BY <2>1 DEF Exercise!Init, Exercise!AllMail, Exercise!Delivered
  <2>2. ASSUME Exercise!Init
        PROVE  Exercise!TypeOK
    BY <2>1, <2>2 DEF Exercise!Init, Exercise!TypeOK, Exercise!Users
  <2>3. ASSUME Exercise!Init
        PROVE  ExerciseInv
    BY <2>2, <2>3 DEF Exercise!Init, ExerciseInv, Sending
  <2> QED  BY <2>3 DEF Init
<1>2. ExerciseInv /\ [Next]_operatorVars => ExerciseInv'
  BY EachSteps, ExerciseNext
<1> QED  BY <1>1, <1>2, PTL DEF Spec

\* Only the send sends, from where a run has found no rule.
LEMMA ExerciseSends ==
  ASSUME ExerciseInv, Exercise!Next \/ UNCHANGED exerciseVars, mailed' > mailed
  PROVE  ~guarded
<1>1. CASE Exercise!Send
  BY <1>1 DEF Exercise!Send, ExerciseInv, Sending
<1>2. CASE mailed' = mailed
  BY <1>2 DEF ExerciseInv
<1>3. CASE UNCHANGED exerciseVars
  BY <1>2, <1>3 DEF exerciseVars
<1>4. CASE Exercise!Throws \/ Exercise!Issue \/ Exercise!StartAvd \/ Exercise!AwaitReady \/ Exercise!LogOff
             \/ Exercise!AwaitLogOff \/ Exercise!Deallocate \/ Exercise!Gate \/ Exercise!CreateRule
             \/ Exercise!ConfirmRule \/ Exercise!SendGate \/ Exercise!AwaitEffect
  BY <1>2, <1>4, Zenon DEF Exercise!history, Exercise!Throws, Exercise!Issue, Exercise!StartAvd, Exercise!AwaitReady,
       Exercise!LogOff, Exercise!AwaitLogOff, Exercise!Deallocate, Exercise!Gate, Exercise!CreateRule,
       Exercise!ConfirmRule, Exercise!SendGate, Exercise!AwaitEffect
<1>5. CASE Exercise!Inventory \/ Exercise!DeleteRule \/ Exercise!DeleteMessage \/ Exercise!Residue
             \/ Exercise!Absence \/ Exercise!Deliver \/ Exercise!SignsIn \/ Exercise!Edits
  BY <1>2, <1>5, Zenon DEF Exercise!history, Exercise!Inventory, Exercise!DeleteRule, Exercise!DeleteMessage,
       Exercise!Residue, Exercise!Absence, Exercise!Deliver, Exercise!SignsIn, Exercise!Edits
<1> QED  BY <1>1, <1>3, <1>4, <1>5 DEF Exercise!Next

\* A stored create that may have happened is not sent again by the page, however often
\* it is loaded or its answer lost, nor the help desk mail within one load (the internal
\* mail may be repeated); and no marker message is sent while the rule stands for which
\* one was sent, however often the run is repeated.
THEOREM RepeatsNothing == Spec => NothingRepeatedBlindly
<1>1. PageInv /\ [Next]_operatorVars =>
        [\A r \in wire' \ wire :
           r.action = "create" /\ r.op # "email" => [account |-> account, op |-> r.op] \notin owed]_(Page!pageVars)
  BY EachSteps, PageRepeatsNothing
<1>2. ExerciseInv /\ [Next]_operatorVars => [mailed' > mailed => ~guarded]_(Exercise!exerciseVars)
  BY EachSteps, ExerciseSends
<1> QED  BY <1>1, <1>2, PageAlways, ExerciseAlways, PTL
         DEF Spec, NothingRepeatedBlindly, Page!NothingRepeatedBlindly, Exercise!SendsOncePerRule

-----------------------------------------------------------------------------
\* The single sign-on proof.

\* The command has got as far as to write into the guest.
InGuest == {"inspecting", "staging", "proving"}

\* What the run has left, or a staging may still leave, has its receipt: a session is
\* owned only once it is recorded, and the guest is touched only in an owned session.
TracesInv ==
  /\ owned # {} => receipt # {}
  /\ leg \in InGuest => receipt # {}
  /\ guest # "clean" \/ late => receipt # {}

LEMMA TracesNext ==
  ASSUME TracesInv, Sso!Next \/ UNCHANGED ssoVars
  PROVE  TracesInv'
<1> USE DEF TracesInv, InGuest, Sso!host, Sso!files, Sso!locals, Sso!Ends, Sso!To
<1>1. CASE Sso!SessionOpens
  BY <1>1 DEF Sso!SessionOpens
<1>2. CASE Sso!SessionActive \/ Sso!SessionEnds \/ Sso!VmRuns
  BY <1>2 DEF Sso!SessionActive, Sso!SessionEnds, Sso!VmRuns
<1>3. CASE Sso!StagingLands
  BY <1>3 DEF Sso!StagingLands
<1>4. CASE Sso!FifteenMinutes
  BY <1>4 DEF Sso!FifteenMinutes
<1>5. CASE Sso!RunStarts
  BY <1>5 DEF Sso!RunStarts
<1>6. CASE Sso!BecomesReady
  BY <1>6 DEF Sso!BecomesReady
<1>7. CASE Sso!Observe
  <2>1. CASE leg' = "tidyGuest" /\ UNCHANGED <<owned, receipt>>
    BY <1>7, <2>1 DEF Sso!Observe
  <2>2. CASE \E s \in desk :
               IF owned = {} \/ Sso!Transition(s) THEN owned' = {s} /\ receipt' = {s}
               ELSE UNCHANGED <<owned, receipt>>
    <3>1. receipt' # {}
      BY <2>2
    <3> QED  BY <3>1
  <2> QED  BY <1>7, <2>1, <2>2, Zenon DEF Sso!Observe
<1>8. CASE Sso!Inspect \/ Sso!Stage
  BY <1>8 DEF Sso!Inspect, Sso!Stage
<1>9. CASE Sso!Prove
  BY <1>9 DEF Sso!Prove
<1>10. CASE Sso!TidyGuest
  BY <1>10 DEF Sso!TidyGuest
<1>11. CASE Sso!TidySessions \/ Sso!DeleteSession
  BY <1>11 DEF Sso!TidySessions, Sso!DeleteSession
<1>12. CASE Sso!SessionsGone \/ Sso!Dies
  BY <1>12 DEF Sso!SessionsGone, Sso!Dies
<1>13. CASE Sso!CleanupStarts
  BY <1>13 DEF Sso!CleanupStarts
<1>14. CASE UNCHANGED ssoVars
  BY <1>14 DEF ssoVars
<1> QED  BY <1>1, <1>2, <1>3, <1>4, <1>5, <1>6, <1>7, <1>8, <1>9, <1>10, <1>11, <1>12, <1>13, <1>14 DEF Sso!Next

-----------------------------------------------------------------------------
\* The lab.

\* Where a call of the runner is.
Early == {"marker", "deploy", "expiry", "expiry again", "verify"}
Late == {"readiness", "cleanup", "precheck", "mutate", "postcheck"}

Wound == primary \/ deployed = 4

\* The deployment goes forward, and the cleanup, in the order of the plan: the second
\* begins when the first is over, and what is pending is the next of one of them.
LabPhase ==
  /\ deployed \in 0..4 /\ cleaned \in 0..7 /\ primary \in BOOLEAN
  /\ at \in {"caller", "reconcile"} \union Early \union Late
  /\ ~checked => at \in {"caller", "marker"} /\ deployed = 0 /\ cleaned = 0 /\ pendingOp = "none"
  /\ at = "marker" => ~checked
  /\ at \in Early => cleaned = 0
  /\ at = "deploy" => deployed < 4
  /\ at \in {"expiry", "expiry again"} => deployed = 0
  /\ at = "verify" => deployed = 1
  /\ at = "readiness" => deployed = 4
  /\ at \in Late \/ cleaned > 0 => Wound
  /\ at \in {"precheck", "mutate", "postcheck"} => cleaned < 7
  /\ at = "reconcile" => pendingOp # "none"
  /\ at \in Early \union Late => pendingOp = "none"
  /\ pendingOp # "none" =>
       \/ deployed < 4 /\ cleaned = 0 /\ pendingOp = Lab!Deployment[deployed + 1]
       \/ cleaned < 7 /\ Wound /\ pendingOp = Lab!Cleanup[cleaned + 1]

\* What is sent in the phase it belongs to, what the removals may no longer find.
LabSent ==
  /\ lost \subseteq attempted /\ attempted \subseteq Lab!PlanOperations
  /\ "azure-cleanup" \in attempted => cleaned >= 2
  /\ "expiry-remove" \in attempted => cleaned >= 5

\* The timer stands before anything that it would remove, and goes when that is gone.
Standing(w, d, c, timerGoes) ==
  /\ d >= 1 /\ ~timerGoes => "timer" \in w
  /\ "roles" \in w \/ "group" \in w => d >= 1
  /\ "defender" \in w => "group" \in w
  /\ c >= 1 => "defender" \notin w
  /\ c >= 2 => "endpoint" \notin w
  /\ c >= 3 => "group" \notin w
  /\ c >= 4 => "entra" \notin w
  /\ c >= 5 => "roles" \notin w
  /\ c >= 6 => "timer" \notin w
  /\ c >= 7 => "sensitive" \notin w

TimerGoes == "expiry-remove" \in attempted

LabWorld == ~overtaken => Standing(world, deployed, cleaned, TimerGoes)

\* How the calls of a run that has come to its end have ended.
Finished == {"completed", "cleaned-after-failure"}
LabThings == {"timer", "roles", "group", "defender", "endpoint", "entra", "sensitive"}
LabModes == {"none", "advance", "pre-cleanup"}

\* What the runner reports as its end, all of the cleanup precedes.
LabTyped ==
  /\ world \subseteq LabThings /\ reads \in [Lab!PlanOperations -> 0..3] /\ pendingMode \in LabModes
  /\ result \in Finished => cleaned = 7

LEMMA DeploymentIs ==
  /\ Len(Lab!Deployment) = 4 /\ Lab!Deployment[1] = "expiry-create" /\ Lab!Deployment[2] = "roles-grant"
  /\ Lab!Deployment[3] = "control-submit" /\ Lab!Deployment[4] = "compute-submit"
  /\ DOMAIN Lab!Deployment = 1..4
BY DEF Lab!Deployment

LEMMA CleanupIs ==
  /\ Len(Lab!Cleanup) = 7 /\ Lab!Cleanup[1] = "defender-offboard" /\ Lab!Cleanup[2] = "endpoint-cleanup"
  /\ Lab!Cleanup[3] = "azure-cleanup" /\ Lab!Cleanup[4] = "entra-cleanup" /\ Lab!Cleanup[5] = "roles-revoke"
  /\ Lab!Cleanup[6] = "expiry-remove" /\ Lab!Cleanup[7] = "sensitive-remove"
  /\ DOMAIN Lab!Cleanup = 1..7
BY DEF Lab!Cleanup

Deploying == {"expiry-create", "roles-grant", "control-submit", "compute-submit"}
Cleaning == {"defender-offboard", "endpoint-cleanup", "azure-cleanup", "entra-cleanup", "roles-revoke",
             "expiry-remove", "sensitive-remove"}

LEMMA PlanIs ==
  /\ \A o : Lab!Deploys(o) <=> o \in Deploying
  /\ Lab!PlanOperations = Deploying \union Cleaning
<1>1. Lab!Elements(Lab!Deployment) = Deploying
  BY DeploymentIs DEF Lab!Elements, Deploying
<1>2. Lab!Elements(Lab!Cleanup) = Cleaning
  BY CleanupIs DEF Lab!Elements, Cleaning
<1> QED  BY <1>1, <1>2 DEF Lab!Deploys, Lab!PlanOperations

LEMMA ThingsIs ==
  /\ Lab!Things("expiry-create") = {"timer"} /\ Lab!Things("roles-grant") = {"roles"}
  /\ Lab!Things("control-submit") = {"group"}
  /\ Lab!Things("compute-submit") = {"group", "defender", "endpoint", "entra"}
  /\ Lab!Things("defender-offboard") = {"defender"} /\ Lab!Things("endpoint-cleanup") = {"endpoint"}
  /\ Lab!Things("azure-cleanup") = {"group"} /\ Lab!Things("entra-cleanup") = {"entra"}
  /\ Lab!Things("roles-revoke") = {"roles"} /\ Lab!Things("expiry-remove") = {"timer"}
  /\ Lab!Things("sensitive-remove") = {"sensitive"}
<1> USE DEF Lab!Things
<1>1. Lab!Things("expiry-create") = {"timer"} /\ Lab!Things("expiry-remove") = {"timer"}
  BY Zenon
<1>2. Lab!Things("roles-grant") = {"roles"} /\ Lab!Things("roles-revoke") = {"roles"}
  BY Zenon
<1>3. Lab!Things("control-submit") = {"group"} /\ Lab!Things("azure-cleanup") = {"group"}
  BY Zenon
<1>4. Lab!Things("compute-submit") = {"group", "defender", "endpoint", "entra"}
  BY Zenon
<1>5. Lab!Things("defender-offboard") = {"defender"} /\ Lab!Things("endpoint-cleanup") = {"endpoint"}
  BY Zenon
<1>6. Lab!Things("entra-cleanup") = {"entra"} /\ Lab!Things("sensitive-remove") = {"sensitive"}
  BY Zenon
<1> QED  BY <1>1, <1>2, <1>3, <1>4, <1>5, <1>6

\* The operations in their order: the one after so many of the deployment, of the cleanup.
DeploysAt(n, o) ==
  \/ (n = 0 /\ o = "expiry-create") \/ (n = 1 /\ o = "roles-grant")
  \/ (n = 2 /\ o = "control-submit") \/ (n = 3 /\ o = "compute-submit")

CleansAt(n, o) ==
  \/ (n = 0 /\ o = "defender-offboard") \/ (n = 1 /\ o = "endpoint-cleanup")
  \/ (n = 2 /\ o = "azure-cleanup") \/ (n = 3 /\ o = "entra-cleanup")
  \/ (n = 4 /\ o = "roles-revoke") \/ (n = 5 /\ o = "expiry-remove")
  \/ n = 6 /\ o = "sensitive-remove"

\* An operation that is the next of its phase.
Due(o) ==
  \/ deployed < 4 /\ cleaned = 0 /\ DeploysAt(deployed, o)
  \/ cleaned < 7 /\ Wound /\ CleansAt(cleaned, o)

LEMMA AtIs ==
  /\ \A n \in 0..3 : DeploysAt(n, Lab!Deployment[n + 1])
  /\ \A n \in 0..6 : CleansAt(n, Lab!Cleanup[n + 1])
<1>1. ASSUME NEW n \in 0..3
      PROVE  DeploysAt(n, Lab!Deployment[n + 1])
  <2>1. (n = 0 /\ n + 1 = 1) \/ (n = 1 /\ n + 1 = 2) \/ (n = 2 /\ n + 1 = 3) \/ (n = 3 /\ n + 1 = 4)
    OBVIOUS
  <2> QED  BY <2>1, DeploymentIs DEF DeploysAt
<1>2. ASSUME NEW n \in 0..6
      PROVE  CleansAt(n, Lab!Cleanup[n + 1])
  <2>1. \/ (n = 0 /\ n + 1 = 1) \/ (n = 1 /\ n + 1 = 2) \/ (n = 2 /\ n + 1 = 3) \/ (n = 3 /\ n + 1 = 4)
        \/ (n = 4 /\ n + 1 = 5) \/ (n = 5 /\ n + 1 = 6) \/ (n = 6 /\ n + 1 = 7)
    OBVIOUS
  <2> QED  BY <2>1, CleanupIs DEF CleansAt
<1> QED  BY <1>1, <1>2

LEMMA LabCounts == LabPhase => deployed \in 0..4 /\ cleaned \in 0..7
BY DEF LabPhase

LEMMA DueIs ==
  ASSUME LabPhase
  PROVE  /\ pendingOp # "none" => Due(pendingOp)
         /\ at \in {"deploy", "expiry", "verify"} => DeploysAt(deployed, Lab!Op) /\ Due(Lab!Op)
         /\ at \in {"precheck", "mutate", "postcheck"} => CleansAt(cleaned, Lab!Op) /\ Due(Lab!Op)
<1>1. deployed \in 0..4 /\ cleaned \in 0..7
  BY LabCounts
<1>2. pendingOp # "none" => Due(pendingOp)
  <2>1. CASE deployed < 4 /\ cleaned = 0 /\ pendingOp = Lab!Deployment[deployed + 1]
    <3>1. deployed \in 0..3
      BY <1>1, <2>1
    <3> QED  BY <2>1, <3>1, AtIs DEF Due
  <2>2. CASE cleaned < 7 /\ Wound /\ pendingOp = Lab!Cleanup[cleaned + 1]
    <3>1. cleaned \in 0..6
      BY <1>1, <2>2
    <3> QED  BY <2>2, <3>1, AtIs DEF Due
  <2> QED  BY <2>1, <2>2 DEF LabPhase
<1>3. ASSUME at \in {"deploy", "expiry", "verify"}
      PROVE  DeploysAt(deployed, Lab!Op) /\ Due(Lab!Op)
  <2>1. deployed < 4 /\ cleaned = 0
    <3>1. cleaned = 0
      BY <1>3 DEF LabPhase, Early
    <3>2. (at = "deploy" => deployed < 4) /\ (at = "expiry" => deployed = 0) /\ (at = "verify" => deployed = 1)
      BY Zenon DEF LabPhase
    <3> QED  BY <1>3, <3>1, <3>2
  <2>2. deployed \in 0..3 /\ Lab!Op = Lab!Deployment[deployed + 1]
    BY <1>1, <1>3, <2>1 DEF Lab!Op
  <2> QED  BY <2>1, <2>2, AtIs DEF Due
<1>4. ASSUME at \in {"precheck", "mutate", "postcheck"}
      PROVE  CleansAt(cleaned, Lab!Op) /\ Due(Lab!Op)
  <2>1. cleaned < 7 /\ Wound
    BY <1>4 DEF LabPhase, Late
  <2>2. cleaned \in 0..6 /\ Lab!Op = Lab!Cleanup[cleaned + 1]
    BY <1>1, <1>4, <2>1 DEF Lab!Op
  <2> QED  BY <2>1, <2>2, AtIs DEF Due
<1> QED  BY <1>2, <1>3, <1>4

\* A step of the deployment is counted only where the timer has been seen.
Counted(w, d, e, t, u) ==
  /\ d \in 0..4 /\ e \in 0..5 /\ t \in BOOLEAN /\ u \in BOOLEAN /\ (t => u)
  /\ d >= 1 => e >= 1
  /\ e >= 1 => d >= 1 \/ "timer" \in w

LEMMA StandingStays ==
  ASSUME NEW w, NEW d, NEW e, NEW c \in 0..7, NEW t, NEW u, Counted(w, d, e, t, u), Standing(w, d, c, t)
  PROVE  Standing(w, e, c, u)
BY DEF Standing, Counted

LEMMA StandingCleaned ==
  ASSUME NEW w, NEW d \in 0..4, NEW c \in 0..6, NEW t \in BOOLEAN, Standing(w, d, c, t),
         c = 0 => "defender" \notin w, c = 1 => "endpoint" \notin w, c = 2 => "group" \notin w,
         c = 3 => "entra" \notin w, c = 4 => "roles" \notin w, c = 5 => "timer" \notin w,
         c = 6 => "sensitive" \notin w
  PROVE  Standing(w, d, c + 1, t)
BY DEF Standing

\* What the next operation of its phase does to the world.
LEMMA WorldChanges ==
  ASSUME LabPhase, LabSent, LabWorld, NEW o, Due(o), world' \in {world, Lab!Effect(o)},
         attempted' = attempted \union {o}, lost' \subseteq attempted', UNCHANGED cleaned,
         ~overtaken' => ~overtaken,
         deployed' = deployed \/ (deployed >= 1 /\ deployed' = deployed + 1)
  PROVE  LabSent' /\ LabWorld'
<1> USE LabCounts
<1>1. o \in Deploying \union Cleaning
  BY DEF Due, DeploysAt, CleansAt, Deploying, Cleaning
<1>2. LabSent'
  BY <1>1, PlanIs DEF LabSent, Due, DeploysAt, CleansAt
<1>3. Counted(world, deployed, deployed', TimerGoes, TimerGoes') /\ cleaned \in 0..7
  BY DEF TimerGoes, Counted
<1> SUFFICES ASSUME ~overtaken'
             PROVE  Standing(world', deployed', cleaned, TimerGoes')
  BY <1>2 DEF LabWorld
<1>4. Standing(world, deployed, cleaned, TimerGoes)
  BY DEF LabWorld
<1>5. CASE world' = world
  BY <1>3, <1>4, <1>5, StandingStays
<1>6. CASE world' = Lab!Effect(o) /\ deployed < 4 /\ cleaned = 0 /\ DeploysAt(deployed, o)
  <2>1. world' = world \union Lab!Things(o)
    BY <1>6, PlanIs DEF Lab!Effect, DeploysAt, Deploying
  <2>2. o # "expiry-create" => deployed >= 1
    BY <1>6 DEF DeploysAt
  <2>3. \/ world' = world \union {"timer"}
        \/ /\ deployed >= 1
           /\ \/ world' = world \union {"roles"} \/ world' = world \union {"group"}
              \/ world' = world \union {"group", "defender", "endpoint", "entra"}
    BY <1>6, <2>1, <2>2, ThingsIs, Zenon DEF DeploysAt
  <2>4. Standing(world, deployed, 0, TimerGoes)
    BY <1>4, <1>6
  <2>5. Standing(world', deployed', 0, TimerGoes')
    <3>1. CASE world' = world \union {"timer"}
      BY <1>3, <2>4, <3>1 DEF Standing, Counted
    <3>2. CASE deployed >= 1 /\ world' = world \union {"roles"}
      BY <1>3, <2>4, <3>2 DEF Standing, Counted
    <3>3. CASE deployed >= 1 /\ world' = world \union {"group"}
      BY <1>3, <2>4, <3>3 DEF Standing, Counted
    <3>4. CASE deployed >= 1 /\ world' = world \union {"group", "defender", "endpoint", "entra"}
      BY <1>3, <2>4, <3>4 DEF Standing, Counted
    <3> QED  BY <2>3, <3>1, <3>2, <3>3, <3>4
  <2> QED  BY <1>6, <2>5
<1>7. CASE world' = Lab!Effect(o) /\ cleaned < 7 /\ CleansAt(cleaned, o)
  <2>1. world' = world \ Lab!Things(o)
    BY <1>7, PlanIs DEF Lab!Effect, CleansAt, Deploying
  <2>2. o = "expiry-remove" => TimerGoes'
    BY DEF TimerGoes
  <2>3. \/ cleaned = 2 /\ world' = world \ {"group"}
        \/ cleaned = 5 /\ TimerGoes' /\ world' = world \ {"timer"}
        \/ \E x \in {"defender", "endpoint", "entra", "roles", "sensitive"} : world' = world \ {x}
    BY <1>7, <2>1, <2>2, ThingsIs DEF CleansAt
  <2>4. CASE cleaned = 2 /\ world' = world \ {"group"}
    BY <1>3, <1>4, <2>4 DEF Standing, Counted
  <2>5. CASE cleaned = 5 /\ TimerGoes' /\ world' = world \ {"timer"}
    BY <1>3, <1>4, <2>5 DEF Standing, Counted
  <2>6. CASE \E x \in {"defender", "endpoint", "entra", "roles", "sensitive"} : world' = world \ {x}
    BY <1>3, <1>4, <2>6 DEF Standing, Counted
  <2> QED  BY <2>3, <2>4, <2>5, <2>6
<1> QED  BY <1>5, <1>6, <1>7 DEF Due

\* A removal is counted when what it removes is read to be gone.
LEMMA CleanedAdvances ==
  ASSUME LabPhase, LabSent, LabWorld, NEW o, CleansAt(cleaned, o), Lab!Desired(o), cleaned' = cleaned + 1,
         UNCHANGED <<world, lost, attempted, overtaken, deployed>>
  PROVE  LabSent' /\ LabWorld'
<1> USE LabCounts
<1>1. LabSent'
  BY DEF LabSent
<1>2. Lab!Things(o) \intersect world = {}
  BY PlanIs DEF Lab!Desired, CleansAt, Deploying
<1>3. \A x \in {"defender", "endpoint", "group", "entra", "roles", "timer", "sensitive"} :
        Lab!Things(o) = {x} => x \notin world
  BY <1>2
<1>4. /\ cleaned = 0 => "defender" \notin world
      /\ cleaned = 1 => "endpoint" \notin world
      /\ cleaned = 2 => "group" \notin world
      /\ cleaned = 3 => "entra" \notin world
      /\ cleaned = 4 => "roles" \notin world
      /\ cleaned = 5 => "timer" \notin world
      /\ cleaned = 6 => "sensitive" \notin world
  BY <1>3, ThingsIs DEF CleansAt
<1>5. cleaned \in 0..6 /\ deployed \in 0..4 /\ TimerGoes \in BOOLEAN /\ TimerGoes' = TimerGoes
  BY DEF CleansAt, TimerGoes
<1>6. LabWorld'
  BY <1>4, <1>5, StandingCleaned DEF LabWorld
<1> QED  BY <1>1, <1>6

\* A step of the deployment is counted once the timer has been seen.
LEMMA DeployedAdvances ==
  ASSUME LabPhase, LabSent, LabWorld, deployed >= 1 \/ "timer" \in world,
         deployed' = deployed \/ deployed' = deployed + 1,
         UNCHANGED <<world, lost, attempted, overtaken, cleaned>>
  PROVE  LabSent' /\ LabWorld'
<1> USE LabCounts
<1>1. LabSent'
  BY DEF LabSent
<1>2. Counted(world, deployed, deployed', TimerGoes, TimerGoes') /\ cleaned \in 0..7
  BY DEF TimerGoes, Counted
<1>3. LabWorld'
  BY <1>2, StandingStays DEF LabWorld
<1> QED  BY <1>1, <1>3

LEMMA WorldStays ==
  ASSUME LabSent, LabWorld, UNCHANGED <<world, lost, attempted, overtaken, cleaned, deployed>>
  PROVE  LabSent' /\ LabWorld'
BY DEF LabSent, LabWorld, TimerGoes

\* The ways in which a call of the runner goes on or ends.
LabAt(place) == at' = place /\ UNCHANGED <<checked, deployed, cleaned, primary, pendingOp>>

LEMMA LabCallerAgain ==
  ASSUME at' = "caller", checked' = checked, checked,
         deployed' \in 0..4, cleaned' \in 0..7, primary' \in BOOLEAN, cleaned' > 0 => Wound',
         pendingOp' = "none" \/
           \/ deployed' < 4 /\ cleaned' = 0 /\ pendingOp' = Lab!Deployment[deployed' + 1]
           \/ cleaned' < 7 /\ Wound' /\ pendingOp' = Lab!Cleanup[cleaned' + 1]
  PROVE  LabPhase'
BY DEF LabPhase, Early, Late

LEMMA LabTidies ==
  ASSUME at' \in Late, checked' = checked, checked, pendingOp' = "none",
         deployed' \in 0..4, cleaned' \in 0..7, primary' \in BOOLEAN, Wound',
         at' = "readiness" => deployed' = 4, at' \notin {"readiness", "cleanup"} => cleaned' < 7
  PROVE  LabPhase'
BY DEF LabPhase, Early, Late

LEMMA LabBuilds ==
  ASSUME at' \in Early \ {"marker"}, checked' = checked, checked, pendingOp' = "none",
         deployed' \in 0..4, cleaned' = 0, primary' \in BOOLEAN,
         at' = "deploy" => deployed' < 4, at' \in {"expiry", "expiry again"} => deployed' = 0,
         at' = "verify" => deployed' = 1
  PROVE  LabPhase'
<1>1. CASE at' = "deploy"
  BY <1>1 DEF LabPhase, Early, Late
<1>2. CASE at' = "expiry"
  BY <1>2 DEF LabPhase, Early, Late
<1>3. CASE at' = "expiry again"
  <2>1. deployed' = 0
    BY <1>3
  <2>2. at' \in Early /\ at' \notin Late /\ at' \notin {"caller", "marker", "deploy", "verify", "readiness", "reconcile"}
    BY <1>3 DEF Early, Late
  <2>3. at' \notin {"precheck", "mutate", "postcheck"}
    BY <1>3
  <2> QED  BY <2>1, <2>2, <2>3 DEF LabPhase
<1>4. CASE at' = "verify"
  BY <1>4 DEF LabPhase, Early, Late
<1> QED  BY <1>1, <1>2, <1>3, <1>4 DEF Early

\* Where the loops of run() go on.
LEMMA OnwardIs ==
  ASSUME NEW d \in 0..4, NEW fails \in BOOLEAN
  PROVE  /\ Lab!Onward(d, fails) \in {"deploy", "readiness", "cleanup"}
         /\ Lab!Onward(d, fails) = "deploy" => d < 4 /\ ~fails
         /\ Lab!Onward(d, fails) = "readiness" => d = 4 /\ ~fails
         /\ Lab!Onward(d, fails) = "cleanup" => d = 4 \/ fails
BY DeploymentIs DEF Lab!Onward

LEMMA LabTypes ==
  ASSUME LabPhase
  PROVE  /\ deployed \in 0..4 /\ cleaned \in 0..7 /\ primary \in BOOLEAN
         /\ pendingOp # "none" =>
              \/ deployed < 4 /\ cleaned = 0 /\ pendingOp = Lab!Deployment[deployed + 1]
              \/ cleaned < 7 /\ Wound /\ pendingOp = Lab!Cleanup[cleaned + 1]
         /\ cleaned > 0 => Wound
         /\ at \in Early \union Late => pendingOp = "none"
         /\ at \notin {"caller", "marker"} => checked
BY DEF LabPhase, Early, Late

LEMMA LabRun ==
  ASSUME LabPhase, Lab!Run \/ Lab!Reconcile \/ Lab!MarkerChecked \/ Lab!NoBillingWithoutExpiry
           \/ Lab!ObserveReadiness \/ Lab!Expire \/ Lab!Land
  PROVE  LabPhase'
<1> USE DEF Lab!pending, Lab!fixed, Lab!Ends, Lab!Stays
<1>1. CASE Lab!Run
  <2>1. UNCHANGED <<checked, deployed, cleaned, primary, pendingOp>> /\ at = "caller"
        /\ \/ at' = "caller"
           \/ pendingOp = "none" /\ at' = IF checked THEN Lab!Onward(deployed, primary) ELSE "marker"
    BY <1>1 DEF Lab!Run
  <2>2. CASE at' = "caller"
    BY <2>1, <2>2 DEF LabPhase, Early, Late, Wound
  <2>3. CASE pendingOp = "none" /\ checked /\ at' = Lab!Onward(deployed, primary)
    <3>1. /\ at' \in {"deploy", "readiness", "cleanup"}
          /\ at' = "deploy" => deployed < 4 /\ ~primary
          /\ at' = "readiness" => deployed = 4 /\ ~primary
          /\ at' = "cleanup" => Wound
      BY <2>3, OnwardIs, LabTypes DEF Wound
    <3>2. CASE at' = "deploy"
      <4>1. cleaned = 0
        BY <3>1, <3>2, LabTypes DEF Wound
      <4> QED  BY <2>1, <2>3, <3>1, <3>2, <4>1, LabBuilds, LabTypes DEF Early
    <3>3. CASE at' \in {"readiness", "cleanup"}
      BY <2>1, <2>3, <3>1, <3>3, LabTidies, LabTypes DEF Late, Wound
    <3> QED  BY <3>1, <3>2, <3>3
  <2>4. CASE pendingOp = "none" /\ ~checked /\ at' = "marker"
    BY <2>1, <2>4 DEF LabPhase, Early, Late
  <2> QED  BY <2>1, <2>2, <2>3, <2>4
<1>2. CASE Lab!Reconcile
  BY <1>2 DEF Lab!Reconcile, LabPhase, Early, Late, Wound
<1>3. CASE Lab!MarkerChecked
  <2>1. at = "marker" /\ checked' /\ at' \in {"caller", "deploy"}
        /\ UNCHANGED <<deployed, cleaned, primary, pendingOp>>
    BY <1>3 DEF Lab!MarkerChecked
  <2>2. deployed = 0 /\ cleaned = 0 /\ pendingOp = "none" /\ primary \in BOOLEAN
    BY <2>1 DEF LabPhase
  <2>3. CASE at' = "caller"
    BY <2>1, <2>2, <2>3 DEF LabPhase, Early, Late
  <2>4. CASE at' = "deploy"
    BY <2>1, <2>2, <2>4 DEF LabPhase, Early, Late
  <2> QED  BY <2>1, <2>3, <2>4
<1>4. CASE Lab!NoBillingWithoutExpiry
  <2>1. at = "deploy" /\ primary' = TRUE /\ at' = "cleanup" /\ UNCHANGED <<checked, deployed, cleaned, pendingOp>>
    BY <1>4 DEF Lab!NoBillingWithoutExpiry
  <2> QED  BY <2>1, LabTidies, LabTypes DEF Early, Late, Wound
<1>5. CASE Lab!ObserveReadiness
  <2>1. at = "readiness" /\ primary' \in BOOLEAN /\ at' = "cleanup" /\ UNCHANGED <<checked, deployed, cleaned, pendingOp>>
    BY <1>5 DEF Lab!ObserveReadiness
  <2>2. deployed = 4
    BY <2>1 DEF LabPhase
  <2> QED  BY <2>1, <2>2, LabTidies, LabTypes DEF Early, Late, Wound
<1>6. CASE Lab!Expire \/ Lab!Land
  <2>1. UNCHANGED <<at, checked, deployed, cleaned, primary, pendingOp>>
    BY <1>6 DEF Lab!Expire, Lab!Land
  <2> QED  BY <2>1 DEF LabPhase, Wound
<1> QED  BY <1>1, <1>2, <1>3, <1>4, <1>5, <1>6

LabCore == LabPhase /\ LabSent /\ LabWorld

\* A mutation that was sent: it acts now, later, or not.
Sent(o) ==
  attempted' = attempted \union {o} /\ world' \in {world, Lab!Effect(o)} /\ lost' \in {lost, lost \union {o}}

LEMMA MutateOnceIs ==
  ASSUME Lab!MutateOnce
  PROVE  /\ at \in {"deploy", "mutate"} /\ UNCHANGED <<checked, cleaned, overtaken>>
         /\ \/ /\ at' = "caller" /\ UNCHANGED <<deployed, primary, pendingOp>>
               /\ UNCHANGED <<world, lost, attempted>> \/ Sent(Lab!Op)
            \/ Sent(Lab!Op) /\ (Lab!Succeeds(Lab!Op) \/ Lab!Fails(Lab!Op) \/ Lab!Unknown(Lab!Op))
<1> USE DEF Lab!MutateOnce, Lab!fixed, Lab!Throw, Lab!Ends, Lab!pending, Sent
<1>1. at \in {"deploy", "mutate"} /\ UNCHANGED <<checked, cleaned, overtaken>>
  OBVIOUS
<1>2. \/ /\ Lab!Op \in attempted /\ Lab!Throw /\ UNCHANGED <<world, lost, attempted, captured>>
      \/ at' = "caller" /\ UNCHANGED <<world, lost, attempted, deployed, primary, pendingOp>>
      \/ /\ attempted' = attempted \union {Lab!Op}
         /\ \/ /\ Lab!Throw
               /\ \/ world' \in {world, Lab!Effect(Lab!Op)} /\ UNCHANGED lost
                  \/ lost' = lost \union {Lab!Op} /\ UNCHANGED world
            \/ /\ world' = Lab!Effect(Lab!Op) /\ UNCHANGED lost
               /\ Lab!Succeeds(Lab!Op) \/ Lab!Unknown(Lab!Op)
            \/ Lab!Fails(Lab!Op) /\ world' \in {world, Lab!Effect(Lab!Op)} /\ UNCHANGED lost
            \/ /\ Lab!Unknown(Lab!Op)
               /\ \/ world' \in {world, Lab!Effect(Lab!Op)} /\ UNCHANGED lost
                  \/ lost' = lost \union {Lab!Op} /\ UNCHANGED world
  BY Zenon
<1>3. Lab!Throw => at' = "caller" /\ UNCHANGED <<deployed, primary, pendingOp>>
  OBVIOUS
<1> HIDE DEF Lab!MutateOnce, Lab!Throw
<1> QED  BY <1>1, <1>2, <1>3

LEMMA LabMutates ==
  ASSUME LabCore, Lab!MutateOnce
  PROVE  LabCore'
<1> USE DEF LabCore
<1> DEFINE o == Lab!Op
<1>1. at \in {"deploy", "mutate"} /\ UNCHANGED <<checked, cleaned, overtaken>> /\ checked /\ pendingOp = "none"
  BY MutateOnceIs, LabTypes DEF Early, Late
<1>2. /\ Due(o) /\ (at = "deploy" => DeploysAt(deployed, o) /\ cleaned = 0 /\ deployed < 4)
      /\ at = "mutate" => CleansAt(cleaned, o) /\ Wound /\ cleaned < 7
  BY <1>1, DueIs DEF LabPhase, Early, Late
<1>3. Lab!Deploys(o) <=> at = "deploy"
  BY <1>1, <1>2, PlanIs DEF DeploysAt, CleansAt, Deploying
<1> HIDE DEF o
<1>4. ASSUME Sent(o), deployed' = deployed \/ (deployed >= 1 /\ deployed' = deployed + 1)
      PROVE  LabSent' /\ LabWorld'
  <2>1. lost' \subseteq attempted'
    BY <1>4 DEF Sent, LabSent
  <2> QED  BY <1>1, <1>2, <1>4, <2>1, WorldChanges DEF Sent
<1>5. CASE /\ at' = "caller" /\ UNCHANGED <<deployed, primary, pendingOp>>
           /\ UNCHANGED <<world, lost, attempted>> \/ Sent(o)
  <2>1. LabPhase'
    BY <1>1, <1>5, LabCallerAgain, LabTypes DEF Wound
  <2>2. LabSent' /\ LabWorld'
    BY <1>1, <1>4, <1>5, WorldStays
  <2> QED  BY <2>1, <2>2
<1>6. CASE Sent(o) /\ Lab!Succeeds(o)
  <2>1. CASE o = "expiry-create"
    <3>1. at' = "expiry" /\ UNCHANGED <<deployed, primary, pendingOp>> /\ deployed = 0
      <4>1. at' = "expiry" /\ UNCHANGED <<deployed, primary, pendingOp>>
        BY <1>6, <2>1, Zenon DEF Lab!Succeeds, Lab!pending, Lab!Billable
      <4> QED  BY <1>2, <2>1, <4>1 DEF Due, DeploysAt, CleansAt
    <3>2. cleaned = 0
      BY <1>2, <2>1 DEF Due, DeploysAt, CleansAt
    <3>3. LabPhase'
      BY <1>1, <3>1, <3>2, LabBuilds, LabTypes DEF Early
    <3> QED  BY <1>4, <1>6, <3>1, <3>3
  <2>2. CASE o = "roles-grant"
    <3>1. at' = "verify" /\ UNCHANGED <<deployed, primary, pendingOp>> /\ deployed = 1
      <4>1. at' = "verify" /\ UNCHANGED <<deployed, primary, pendingOp>>
        BY <1>6, <2>2, Zenon DEF Lab!Succeeds, Lab!pending, Lab!Billable
      <4> QED  BY <1>2, <2>2, <4>1 DEF Due, DeploysAt, CleansAt
    <3>2. cleaned = 0
      BY <1>2, <2>2 DEF Due, DeploysAt, CleansAt
    <3>3. LabPhase'
      BY <1>1, <3>1, <3>2, LabBuilds, LabTypes DEF Early
    <3> QED  BY <1>4, <1>6, <3>1, <3>3
  <2>3. CASE Lab!Deploys(o) /\ o \notin {"expiry-create", "roles-grant"}
    <3>1. /\ deployed' = deployed + 1 /\ at' = Lab!Onward(deployed + 1, FALSE)
          /\ UNCHANGED <<primary, pendingOp>>
      <4>1. Lab!Billable(o)
        BY <2>3, PlanIs DEF Lab!Billable, Deploying
      <4> QED  BY <1>6, <2>3, <4>1, Zenon DEF Lab!Succeeds, Lab!pending
    <3>2. deployed \in 2..3 /\ cleaned = 0 /\ deployed + 1 \in 0..4
      BY <1>2, <1>3, <2>3 DEF DeploysAt
    <3>3. /\ at' \in {"deploy", "readiness", "cleanup"}
          /\ at' = "deploy" => deployed' < 4
          /\ at' # "deploy" => deployed' = 4
      BY <3>1, <3>2, OnwardIs
    <3>4. LabPhase'
      <4>1. CASE at' = "deploy"
        BY <1>1, <3>1, <3>2, <3>3, <4>1, LabBuilds, LabTypes DEF Early
      <4>2. CASE at' \in {"readiness", "cleanup"}
        BY <1>1, <3>1, <3>2, <3>3, <4>2, LabTidies, LabTypes DEF Late, Wound
      <4> QED  BY <3>3, <4>1, <4>2
    <3>5. LabSent' /\ LabWorld'
      BY <1>4, <1>6, <3>1, <3>2
    <3> QED  BY <3>4, <3>5
  <2>4. CASE ~Lab!Deploys(o)
    <3>1. o \notin {"expiry-create", "roles-grant"} /\ ~Lab!Billable(o)
      BY <2>4, PlanIs DEF Deploying, Lab!Billable
    <3>2. at' = "postcheck" /\ UNCHANGED <<deployed, primary, pendingOp>>
      BY <1>6, <2>4, <3>1, Zenon DEF Lab!Succeeds, Lab!pending
    <3>3. Wound /\ cleaned < 7
      BY <1>1, <1>2, <1>3, <2>4
    <3>4. LabPhase'
      BY <1>1, <3>2, <3>3, LabTidies, LabTypes DEF Late, Wound
    <3> QED  BY <1>4, <1>6, <3>2, <3>4
  <2> QED  BY <2>1, <2>2, <2>3, <2>4
<1>7. CASE Sent(o) /\ Lab!Fails(o)
  <2>1. UNCHANGED <<deployed, pendingOp>>
        /\ \/ Lab!Deploys(o) /\ at' = "cleanup" /\ primary' = TRUE
           \/ at' = "caller" /\ primary' = primary
    BY <1>7, Zenon DEF Lab!Fails, Lab!Ends, Lab!pending
  <2>2. LabPhase'
    <3>1. CASE at' = "cleanup" /\ primary' = TRUE
      BY <1>1, <2>1, <3>1, LabTidies, LabTypes DEF Late, Wound
    <3>2. CASE at' = "caller" /\ primary' = primary
      BY <1>1, <2>1, <3>2, LabCallerAgain, LabTypes DEF Wound
    <3> QED  BY <2>1, <3>1, <3>2
  <2> QED  BY <1>4, <1>7, <2>1, <2>2
<1>8. CASE Sent(o) /\ Lab!Unknown(o)
  <2>1. at' = "caller" /\ pendingOp' = o /\ UNCHANGED <<deployed, primary>>
    BY <1>8 DEF Lab!Unknown, Lab!Ends, Lab!Pending
  <2>2. \/ deployed < 4 /\ cleaned = 0 /\ o = Lab!Deployment[deployed + 1]
        \/ cleaned < 7 /\ Wound /\ o = Lab!Cleanup[cleaned + 1]
    BY <1>1, <1>2 DEF o, Lab!Op
  <2>3. LabPhase'
    BY <1>1, <2>1, <2>2, LabCallerAgain, LabTypes DEF Wound
  <2> QED  BY <1>4, <1>8, <2>1, <2>3
<1> QED  BY <1>5, <1>6, <1>7, <1>8, MutateOnceIs DEF o

LEMMA OutcomesIs ==
  ASSUME NEW o, "desired-state" \in Lab!Outcomes(o)
  PROVE  Lab!Desired(o)
<1>1. CASE "roles" \in Lab!Things(o)
  BY <1>1, Zenon DEF Lab!Outcomes
<1>2. CASE "roles" \notin Lab!Things(o)
  BY <1>2, Zenon DEF Lab!Outcomes
<1> QED  BY <1>1, <1>2

LEMMA LabVerifies ==
  ASSUME LabCore, Lab!VerifyExpiry \/ Lab!VerifyRoles
  PROVE  LabCore'
<1> USE DEF LabCore, Lab!pending, Lab!fixed, Lab!readOnly, Lab!Ends, Lab!Stays
<1>1. CASE Lab!VerifyExpiry
  <2>1. UNCHANGED <<checked, world, lost, overtaken, cleaned, attempted, pendingOp>>
    BY <1>1, Zenon DEF Lab!VerifyExpiry
  <2>2. deployed = 0 /\ cleaned = 0 /\ checked /\ pendingOp = "none" /\ primary \in BOOLEAN
    BY <1>1 DEF Lab!VerifyExpiry, LabPhase, Early
  <2>3. Lab!Onward(1, FALSE) = "deploy" /\ Lab!Onward(0, TRUE) = "cleanup"
    BY DeploymentIs DEF Lab!Onward
  <2>4. \/ at' = "caller" /\ UNCHANGED <<deployed, primary>>
        \/ at' \in {"caller", "deploy"} /\ primary' = FALSE /\ deployed' = 1 /\ "timer" \in world
        \/ at' \in {"caller", "cleanup"} /\ primary' = TRUE /\ deployed' = 0
    <3>1. ASSUME NEW seen \in {FALSE, "timer" \in world}, primary' = ~seen,
                 deployed' = IF seen THEN deployed + 1 ELSE deployed,
                 IF at = "expiry" THEN at' = Lab!Onward(deployed', primary') /\ Lab!Stays
                 ELSE Lab!Ends("ready-to-resume")
          PROVE  \/ at' \in {"caller", "deploy"} /\ primary' = FALSE /\ deployed' = 1 /\ "timer" \in world
                 \/ at' \in {"caller", "cleanup"} /\ primary' = TRUE /\ deployed' = 0
      <4>1. at' = Lab!Onward(deployed', primary') \/ at' = "caller"
        BY <3>1, Zenon
      <4>2. CASE seen = TRUE
        <5>1. primary' = FALSE /\ deployed' = deployed + 1 /\ "timer" \in world
          BY <3>1, <4>2, Zenon
        <5>2. deployed' = 1
          BY <2>2, <5>1
        <5> QED  BY <2>3, <4>1, <5>1, <5>2, Zenon
      <4>3. CASE seen = FALSE
        <5>1. primary' = TRUE /\ deployed' = deployed
          BY <3>1, <4>3, Zenon
        <5>2. deployed' = 0
          BY <2>2, <5>1
        <5> QED  BY <2>3, <4>1, <5>1, <5>2, Zenon
      <4>4. seen = FALSE \/ seen = TRUE
        <5>1. seen = FALSE \/ seen = ("timer" \in world)
          BY <3>1
        <5>2. ("timer" \in world) \in BOOLEAN
          OBVIOUS
        <5> QED  BY <5>1, <5>2
      <4> QED  BY <4>2, <4>3, <4>4, Zenon
    <3>2. CASE Lab!Ends("threw") /\ UNCHANGED <<deployed, timerSeen, primary>>
      BY <3>2
    <3>3. CASE \E seen \in {FALSE, "timer" \in world} :
                 /\ timerSeen' = seen /\ primary' = ~seen
                 /\ deployed' = IF seen THEN deployed + 1 ELSE deployed
                 /\ IF at = "expiry" THEN at' = Lab!Onward(deployed', primary') /\ Lab!Stays
                    ELSE Lab!Ends("ready-to-resume")
      <4>1. PICK seen \in {FALSE, "timer" \in world} :
                 /\ primary' = ~seen
                 /\ deployed' = IF seen THEN deployed + 1 ELSE deployed
                 /\ IF at = "expiry" THEN at' = Lab!Onward(deployed', primary') /\ Lab!Stays
                    ELSE Lab!Ends("ready-to-resume")
        BY <3>3, Zenon
      <4> QED  BY <3>1, <4>1, Zenon
    <3>4. \/ Lab!Ends("threw") /\ UNCHANGED <<deployed, timerSeen, primary>>
          \/ \E seen \in {FALSE, "timer" \in world} :
                 /\ timerSeen' = seen /\ primary' = ~seen
                 /\ deployed' = IF seen THEN deployed + 1 ELSE deployed
                 /\ IF at = "expiry" THEN at' = Lab!Onward(deployed', primary') /\ Lab!Stays
                    ELSE Lab!Ends("ready-to-resume")
      BY <1>1, Zenon DEF Lab!VerifyExpiry
    <3> QED  BY <3>2, <3>3, <3>4, Zenon
  <2>5. CASE at' = "caller" /\ UNCHANGED <<deployed, primary>>
    BY <2>1, <2>2, <2>5, LabCallerAgain, WorldStays
  <2>6. CASE at' \in {"caller", "deploy"} /\ primary' = FALSE /\ deployed' = 1 /\ "timer" \in world
    <3>1. primary' \in BOOLEAN
      BY <2>6
    <3>2. at' \in {"caller", "deploy"} /\ deployed' = deployed + 1 /\ deployed' = 1 /\ "timer" \in world
      BY <2>2, <2>6
    <3>3. checked' = checked /\ cleaned' = 0 /\ pendingOp' = "none" /\ checked
      BY <2>1, <2>2
    <3>4. ASSUME at' = "caller"
          PROVE  LabPhase'
      <4>1. deployed' \in 0..4 /\ cleaned' \in 0..7
        BY <3>2, <3>3
      <4>2. cleaned' > 0 => Wound'
        BY <3>3
      <4> QED  BY <3>1, <3>3, <3>4, <4>1, <4>2, LabCallerAgain
    <3>5. ASSUME at' = "deploy"
          PROVE  LabPhase'
      <4>1. deployed' \in 0..4 /\ cleaned' \in 0..7
        BY <3>2, <3>3
      <4>2. /\ at' \in Early \ {"marker"} /\ (at' = "deploy" => deployed' < 4)
            /\ (at' \in {"expiry", "expiry again"} => deployed' = 0) /\ (at' = "verify" => deployed' = 1)
        BY <3>2, <3>3, <3>5 DEF Early
      <4> QED  BY <3>1, <3>3, <4>1, <4>2, LabBuilds
    <3>6. LabPhase'
      BY <3>2, <3>4, <3>5
    <3>7. LabSent' /\ LabWorld'
      BY <2>1, <3>2, DeployedAdvances
    <3> QED  BY <3>6, <3>7
  <2>7. CASE at' \in {"caller", "cleanup"} /\ primary' = TRUE /\ deployed' = 0
    <3>1. primary' \in BOOLEAN /\ Wound'
      BY <2>7 DEF Wound
    <3>2. at' \in {"caller", "cleanup"} /\ deployed' = deployed /\ deployed' = 0
      BY <2>2, <2>7
    <3>3. checked' = checked /\ cleaned' = 0 /\ pendingOp' = "none" /\ checked
      BY <2>1, <2>2
    <3>4. ASSUME at' = "caller"
          PROVE  LabPhase'
      <4>1. deployed' \in 0..4 /\ cleaned' \in 0..7
        BY <3>2, <3>3
      <4>2. cleaned' > 0 => Wound'
        BY <3>3
      <4> QED  BY <3>1, <3>3, <3>4, <4>1, <4>2, LabCallerAgain
    <3>5. ASSUME at' = "cleanup"
          PROVE  LabPhase'
      <4>1. deployed' \in 0..4 /\ cleaned' \in 0..7
        BY <3>2, <3>3
      <4>2. /\ at' \in Late /\ (at' = "readiness" => deployed' = 4)
            /\ (at' \notin {"readiness", "cleanup"} => cleaned' < 7)
        BY <3>2, <3>3, <3>5 DEF Late
      <4> QED  BY <3>1, <3>3, <4>1, <4>2, LabTidies
    <3>6. LabPhase'
      BY <3>2, <3>4, <3>5
    <3>7. LabSent' /\ LabWorld'
      BY <2>1, <3>2, WorldStays
    <3> QED  BY <3>6, <3>7
  <2> QED  BY <2>4, <2>5, <2>6, <2>7
<1>2. CASE Lab!VerifyRoles
  <2>1. /\ at = "verify" /\ UNCHANGED <<checked, world, lost, overtaken, cleaned, attempted>>
        /\ \/ deployed' = deployed + 1 /\ at' = "deploy" /\ UNCHANGED <<pendingOp, primary>>
           \/ at' = "caller" /\ pendingOp' = Lab!Op /\ UNCHANGED <<deployed, primary>>
           \/ at' = "cleanup" /\ primary' = TRUE /\ UNCHANGED <<deployed, pendingOp>>
    BY <1>2, Zenon DEF Lab!VerifyRoles, Lab!Pending
  <2>2. deployed = 1 /\ cleaned = 0 /\ checked /\ pendingOp = "none" /\ primary \in BOOLEAN
    BY <2>1 DEF LabPhase, Early
  <2>3. LabSent' /\ LabWorld'
    BY <2>1, <2>2, DeployedAdvances
  <2>4. CASE deployed' = deployed + 1 /\ at' = "deploy" /\ UNCHANGED <<pendingOp, primary>>
    BY <2>1, <2>2, <2>3, <2>4, LabBuilds DEF Early
  <2>5. CASE at' = "caller" /\ pendingOp' = Lab!Op /\ UNCHANGED <<deployed, primary>>
    <3>1. Lab!Op = Lab!Deployment[deployed + 1]
      BY <2>1 DEF Lab!Op
    <3> QED  BY <2>1, <2>2, <2>3, <2>5, <3>1, LabCallerAgain
  <2>6. CASE at' = "cleanup" /\ primary' = TRUE /\ UNCHANGED <<deployed, pendingOp>>
    BY <2>1, <2>2, <2>3, <2>6, LabTidies DEF Late, Wound
  <2> QED  BY <2>1, <2>4, <2>5, <2>6
<1> QED  BY <1>1, <1>2

LEMMA LabChecks ==
  ASSUME LabCore, Lab!ReadThrows \/ Lab!CleanupTurn \/ Lab!Precheck \/ Lab!Postcheck
  PROVE  LabCore'
<1> USE DEF LabCore
<1>1. CASE Lab!ReadThrows
  <2>1. /\ at \notin {"caller", "marker"} /\ at' = "caller"
        /\ UNCHANGED <<checked, deployed, cleaned, primary, pendingOp, world, lost, overtaken, attempted>>
    BY <1>1 DEF Lab!ReadThrows, Lab!Throw, Lab!Ends, Lab!pending, Lab!fixed, Lab!readOnly
  <2>2. LabPhase'
    BY <2>1, LabCallerAgain, LabTypes DEF Wound
  <2> QED  BY <2>1, <2>2, WorldStays
<1>2. CASE Lab!CleanupTurn
  <2>1. /\ at = "cleanup" /\ UNCHANGED <<checked, deployed, cleaned, primary, pendingOp, world, lost, overtaken, attempted>>
        /\ at' = "caller" \/ (cleaned # 7 /\ at' \in {"mutate", "precheck"})
    BY <1>2, CleanupIs DEF Lab!CleanupTurn, Lab!Ends, Lab!pending, Lab!fixed, Lab!readOnly
  <2>2. checked /\ pendingOp = "none" /\ Wound
    BY <2>1 DEF LabPhase, Late
  <2>3. LabPhase'
    <3>1. CASE at' = "caller"
      BY <2>1, <2>2, <3>1, LabCallerAgain, LabTypes DEF Wound
    <3>2. CASE cleaned # 7 /\ at' \in {"mutate", "precheck"}
      BY <2>1, <2>2, <3>2, LabTidies, LabTypes DEF Late, Wound
    <3> QED  BY <2>1, <3>1, <3>2
  <2> QED  BY <2>1, <2>3, WorldStays
<1>3. CASE Lab!Precheck \/ Lab!Postcheck
  <2>1. /\ at \in {"precheck", "postcheck"} /\ UNCHANGED <<checked, deployed, primary, world, lost, overtaken, attempted>>
        /\ \/ /\ "desired-state" \in Lab!Outcomes(Lab!Op)
              /\ cleaned' = cleaned + 1 /\ at' = "cleanup" /\ UNCHANGED pendingOp
           \/ at' = "caller" /\ pendingOp' = Lab!Op /\ UNCHANGED cleaned
           \/ at' \in {"mutate", "caller"} /\ UNCHANGED <<cleaned, pendingOp>>
    <3>1. CASE Lab!Precheck
      BY <3>1, Zenon DEF Lab!Precheck, Lab!Ends, Lab!Pending, Lab!pending, Lab!fixed, Lab!readOnly
    <3>2. CASE Lab!Postcheck
      BY <3>2, Zenon DEF Lab!Postcheck, Lab!Ends, Lab!Pending, Lab!pending, Lab!fixed, Lab!readOnly
    <3> QED  BY <1>3, <3>1, <3>2
  <2>2. checked /\ pendingOp = "none" /\ Wound /\ cleaned < 7 /\ CleansAt(cleaned, Lab!Op)
    BY <2>1, DueIs DEF LabPhase, Late
  <2>3. CASE /\ "desired-state" \in Lab!Outcomes(Lab!Op)
             /\ cleaned' = cleaned + 1 /\ at' = "cleanup" /\ UNCHANGED pendingOp
    <3>1. LabSent' /\ LabWorld'
      BY <2>1, <2>2, <2>3, OutcomesIs, CleanedAdvances
    <3>2. LabPhase'
      BY <2>1, <2>2, <2>3, LabTidies, LabTypes DEF Late, Wound
    <3> QED  BY <3>1, <3>2
  <2>4. CASE at' = "caller" /\ pendingOp' = Lab!Op /\ UNCHANGED cleaned
    <3>1. Lab!Op = Lab!Cleanup[cleaned + 1]
      BY <2>1 DEF Lab!Op
    <3>2. LabPhase'
      BY <2>1, <2>2, <2>4, <3>1, LabCallerAgain, LabTypes DEF Wound
    <3> QED  BY <2>1, <2>4, <3>2, WorldStays
  <2>5. CASE at' \in {"mutate", "caller"} /\ UNCHANGED <<cleaned, pendingOp>>
    <3>1. LabPhase'
      <4>1. CASE at' = "caller"
        BY <2>1, <2>2, <2>5, <4>1, LabCallerAgain, LabTypes DEF Wound
      <4>2. CASE at' = "mutate"
        BY <2>1, <2>2, <2>5, <4>2, LabTidies, LabTypes DEF Late, Wound
      <4> QED  BY <2>5, <4>1, <4>2
    <3> QED  BY <2>1, <2>5, <3>1, WorldStays
  <2> QED  BY <2>1, <2>3, <2>4, <2>5
<1> QED  BY <1>1, <1>2, <1>3

LEMMA LabReconciles ==
  ASSUME LabCore, Lab!ReconcileReads
  PROVE  LabCore'
<1> USE DEF LabCore
<1>1. /\ at = "reconcile" /\ UNCHANGED <<checked, world, lost, overtaken, attempted>>
      /\ \/ "desired-state" \in Lab!Outcomes(pendingOp) /\ Lab!Advances(pendingOp)
         \/ at' = "caller" /\ (pendingOp' = "none" \/ pendingOp' = pendingOp) /\ UNCHANGED <<deployed, cleaned, primary>>
         \/ Lab!GivesUp(pendingOp)
  BY Zenon DEF Lab!ReconcileReads, Lab!Ends, Lab!Cleared, Lab!Pending, Lab!pending, Lab!fixed, Lab!readOnly
<1>2. checked /\ pendingOp # "none" /\ Due(pendingOp)
  BY <1>1, DueIs DEF LabPhase
<1>3. CASE at' = "caller" /\ (pendingOp' = "none" \/ pendingOp' = pendingOp) /\ UNCHANGED <<deployed, cleaned, primary>>
  <2>1. LabPhase'
    BY <1>1, <1>2, <1>3, LabCallerAgain, LabTypes DEF Wound
  <2> QED  BY <1>1, <1>3, <2>1, WorldStays
<1>4. CASE Lab!GivesUp(pendingOp)
  <2>1. at' = "caller" /\ pendingOp' = "none" /\ UNCHANGED <<deployed, cleaned>> /\ primary' \in {primary, TRUE}
    BY <1>4 DEF Lab!GivesUp, Lab!Cleared, Lab!Pending, Lab!Ends
  <2>2. primary' \in BOOLEAN /\ (cleaned > 0 => Wound')
    <3>1. CASE primary' = TRUE
      BY <3>1 DEF Wound
    <3>2. CASE primary' = primary
      BY <2>1, <3>2, LabTypes DEF Wound
    <3> QED  BY <2>1, <3>1, <3>2
  <2>3. LabPhase'
    BY <1>1, <1>2, <2>1, <2>2, LabCallerAgain, LabTypes
  <2> QED  BY <1>1, <2>1, <2>3, WorldStays
<1>5. CASE "desired-state" \in Lab!Outcomes(pendingOp) /\ Lab!Advances(pendingOp)
  <2>1. /\ pendingOp' = "none" /\ primary' = primary
        /\ \/ pendingOp = "expiry-create" /\ at' = "expiry again" /\ UNCHANGED <<deployed, cleaned>>
           \/ /\ pendingOp # "expiry-create" /\ at' = "caller"
              /\ \/ Lab!Deploys(pendingOp) /\ deployed' = deployed + 1 /\ UNCHANGED cleaned
                 \/ ~Lab!Deploys(pendingOp) /\ cleaned' = cleaned + 1 /\ UNCHANGED deployed
    BY <1>5, Zenon DEF Lab!Advances, Lab!Cleared, Lab!Pending, Lab!Ends, Lab!Stays
  <2>2. CASE pendingOp = "expiry-create" /\ at' = "expiry again" /\ UNCHANGED <<deployed, cleaned>>
    <3>1. deployed = 0 /\ cleaned = 0
      BY <1>2, <2>2 DEF Due, DeploysAt, CleansAt
    <3>2. LabPhase'
      BY <1>1, <1>2, <2>1, <2>2, <3>1, LabBuilds, LabTypes DEF Early
    <3> QED  BY <1>1, <2>2, <3>2, WorldStays
  <2>3. CASE /\ pendingOp # "expiry-create" /\ at' = "caller" /\ Lab!Deploys(pendingOp)
             /\ deployed' = deployed + 1 /\ UNCHANGED cleaned
    <3>1. deployed \in 1..3 /\ cleaned = 0
      BY <1>2, <2>3, PlanIs DEF Due, DeploysAt, CleansAt, Deploying
    <3>2. LabPhase'
      BY <1>1, <1>2, <2>1, <2>3, <3>1, LabCallerAgain, LabTypes
    <3>3. LabSent' /\ LabWorld'
      BY <1>1, <2>3, <3>1, DeployedAdvances
    <3> QED  BY <3>2, <3>3
  <2>4. CASE at' = "caller" /\ ~Lab!Deploys(pendingOp) /\ cleaned' = cleaned + 1 /\ UNCHANGED deployed
    <3>1. CleansAt(cleaned, pendingOp) /\ cleaned \in 0..6 /\ Wound
      BY <1>2, <2>4, PlanIs, LabTypes DEF Due, DeploysAt, Deploying
    <3>2. LabPhase'
      BY <1>1, <1>2, <2>1, <2>4, <3>1, LabCallerAgain, LabTypes DEF Wound
    <3>3. LabSent' /\ LabWorld'
      BY <1>1, <1>5, <2>4, <3>1, OutcomesIs, CleanedAdvances
    <3> QED  BY <3>2, <3>3
  <2> QED  BY <2>1, <2>2, <2>3, <2>4
<1> QED  BY <1>1, <1>3, <1>4, <1>5

LEMMA LabNext ==
  ASSUME LabCore, Lab!Next \/ UNCHANGED labVars
  PROVE  LabCore'
<1> USE DEF LabCore
<1>1. CASE Lab!Run \/ Lab!Reconcile \/ Lab!MarkerChecked \/ Lab!NoBillingWithoutExpiry
             \/ Lab!ObserveReadiness \/ Lab!Expire
  <2>1. UNCHANGED <<world, lost, attempted, overtaken, cleaned, deployed>>
    BY <1>1 DEF Lab!Run, Lab!Reconcile, Lab!MarkerChecked, Lab!NoBillingWithoutExpiry, Lab!ObserveReadiness,
                Lab!Expire
  <2> QED  BY <1>1, <2>1, LabRun, WorldStays
<1>2. CASE Lab!Land
  <2>1. PICK o \in lost : /\ lost' = lost \ {o} /\ world' = Lab!Effect(o)
                          /\ overtaken' = (overtaken \/ pendingOp # o)
                          /\ UNCHANGED <<attempted, cleaned, deployed>>
    BY <1>2 DEF Lab!Land, Lab!fixed
  <2>2. LabPhase'
    BY <1>2, LabRun
  <2>3. o \in attempted /\ lost' \subseteq attempted
    BY <2>1 DEF LabSent
  <2>4. CASE overtaken'
    <3>1. LabWorld'
      BY <2>4 DEF LabWorld
    <3>2. LabSent'
      BY <2>1, <2>3 DEF LabSent
    <3> QED  BY <2>2, <3>1, <3>2
  <2>5. CASE ~overtaken'
    <3>1. pendingOp = o /\ ~overtaken
      BY <2>1, <2>5
    <3>2. o # "none"
      BY <2>3, PlanIs DEF LabSent, Deploying, Cleaning
    <3>3. Due(o)
      BY <3>1, <3>2, DueIs
    <3>4. attempted' = attempted \union {o}
      BY <2>1, <2>3
    <3> QED  BY <2>1, <2>2, <2>3, <3>1, <3>3, <3>4, WorldChanges
  <2> QED  BY <2>4, <2>5
<1>3. CASE Lab!MutateOnce
  BY <1>3, LabMutates
<1>4. CASE Lab!VerifyExpiry \/ Lab!VerifyRoles
  BY <1>4, LabVerifies
<1>5. CASE Lab!ReadThrows \/ Lab!CleanupTurn \/ Lab!Precheck \/ Lab!Postcheck
  BY <1>5, LabChecks
<1>6. CASE Lab!ReconcileReads
  BY <1>6, LabReconciles
<1>7. CASE UNCHANGED labVars
  <2>1. LabPhase'
    BY <1>7 DEF labVars, LabPhase, Wound
  <2> QED  BY <1>7, <2>1, WorldStays DEF labVars
<1> QED  BY <1>1, <1>2, <1>3, <1>4, <1>5, <1>6, <1>7 DEF Lab!Next

LEMMA LabStart ==
  ASSUME Init
  PROVE  LabCore
<1>1. Lab!Init
  BY DEF Init
<1>2. LabPhase
  <2>1. at = "caller" /\ pendingOp = "none" /\ deployed = 0 /\ cleaned = 0 /\ primary \in BOOLEAN /\ ~checked
    BY <1>1 DEF Lab!Init
  <2>2. at \notin Early /\ at \notin Late /\ at \notin {"marker", "deploy", "expiry", "expiry again", "verify", "readiness"}
        /\ at \notin {"precheck", "mutate", "postcheck", "reconcile"}
    BY <2>1 DEF Early, Late
  <2> QED  BY <2>1, <2>2 DEF LabPhase
<1>3. LabSent /\ LabWorld
  BY <1>1 DEF Lab!Init, LabSent, LabWorld, Standing, TimerGoes
<1> QED  BY <1>2, <1>3 DEF LabCore

\* Wherever the runner stops, what is left at Azure and Defender still has what it is
\* found and removed by, as long as no mutation took effect that the runner had stopped
\* waiting for; and what is left in the guest, or may still come there, has its receipt.
THEOREM NothingIsOrphaned == Spec => []NothingOrphaned
<1>1. Init => LabCore /\ TracesInv
  BY LabStart DEF Init, Sso!Init, TracesInv, InGuest
<1>2. LabCore /\ TracesInv /\ [Next]_operatorVars => (LabCore /\ TracesInv)'
  BY EachSteps, LabNext, TracesNext
<1>3. LabCore /\ TracesInv => NothingOrphaned
  <2>1. ASSUME LabCore, ~overtaken
        PROVE  /\ world \intersect {"roles", "group"} # {} => "timer" \in world
               /\ "defender" \in world => "group" \in world
    <3>1. Standing(world, deployed, cleaned, TimerGoes) /\ (TimerGoes => cleaned >= 5) /\ cleaned \in 0..7
      BY <2>1, LabCounts DEF LabCore, LabSent, LabWorld, TimerGoes
    <3>2. cleaned >= 5 => cleaned >= 3
      BY <3>1
    <3> QED  BY <3>1, <3>2 DEF Standing
  <2> QED  BY <2>1 DEF NothingOrphaned, Lab!NothingOrphaned, Sso!TracesHaveReceipt, TracesInv
<1> QED  BY <1>1, <1>2, <1>3, PTL DEF Spec

-----------------------------------------------------------------------------
\* What the commands report.

LEMMA LabKept ==
  ASSUME LabTyped, world' \subseteq LabThings, pendingMode' \in LabModes,
         reads' = reads \/ \E o : Lab!CanRead(o) /\ Lab!Reads(o),
         \/ result' = result /\ (cleaned' = cleaned \/ cleaned < 7)
         \/ result' \notin Finished
         \/ cleaned' = 7
  PROVE  LabTyped'
<1>1. reads' \in [Lab!PlanOperations -> 0..3]
  BY DEF LabTyped, Lab!CanRead, Lab!Reads
<1>2. result' \in Finished => cleaned' = 7
  BY DEF LabTyped
<1> QED  BY <1>1, <1>2 DEF LabTyped

LEMMA LabStatuses ==
  {"none", "threw", "failed", "blocked", "ready-to-resume"} \intersect Finished = {}
BY DEF Finished

LEMMA LabModesAre == {"none", "advance", "pre-cleanup"} \subseteq LabModes
BY DEF LabModes

LEMMA EffectIs ==
  ASSUME LabTyped, NEW o, Due(o)
  PROVE  Lab!Effect(o) \subseteq LabThings
<1>1. o \in Deploying \union Cleaning
  BY DEF Due, DeploysAt, CleansAt, Deploying, Cleaning
<1>2. Lab!Things(o) \subseteq LabThings
  BY <1>1, ThingsIs DEF Deploying, Cleaning, LabThings
<1> QED  BY <1>2 DEF Lab!Effect, LabTyped

LEMMA LabTypedNext ==
  ASSUME LabCore, LabTyped, Lab!Next \/ UNCHANGED labVars
  PROVE  LabTyped'
<1> USE LabStatuses, LabModesAre DEF Lab!pending, Lab!fixed, Lab!readOnly, Lab!Ends, Lab!Stays, Lab!Cleared, Lab!Pending
<1>1. LabPhase /\ LabSent /\ world \subseteq LabThings /\ pendingMode \in LabModes
  BY DEF LabCore, LabTyped
<1>2. CASE Lab!Run \/ Lab!Reconcile \/ Lab!MarkerChecked \/ Lab!NoBillingWithoutExpiry
             \/ Lab!ObserveReadiness \/ Lab!Expire \/ Lab!VerifyExpiry
  <2>1. /\ UNCHANGED <<world, reads, cleaned, pendingMode>>
        /\ result' = result \/ result' \in {"none", "threw", "failed", "blocked", "ready-to-resume"}
    <3>1. CASE Lab!Run \/ Lab!Reconcile \/ Lab!MarkerChecked
      BY <3>1, Zenon DEF Lab!Run, Lab!Reconcile, Lab!MarkerChecked
    <3>2. CASE Lab!NoBillingWithoutExpiry \/ Lab!ObserveReadiness \/ Lab!Expire
      BY <3>2, Zenon DEF Lab!NoBillingWithoutExpiry, Lab!ObserveReadiness, Lab!Expire
    <3>3. CASE Lab!VerifyExpiry
      BY <3>3, Zenon DEF Lab!VerifyExpiry
    <3> QED  BY <1>2, <3>1, <3>2, <3>3
  <2> QED  BY <1>1, <2>1, LabKept
<1>3. CASE Lab!MutateOnce
  <2>1. /\ UNCHANGED <<reads, cleaned>> /\ pendingMode' \in {pendingMode, "advance"}
        /\ result' = result \/ result' \in {"threw", "failed", "blocked"}
        /\ at \in {"deploy", "mutate"} /\ world' \in {world, Lab!Effect(Lab!Op)}
    BY <1>3, Zenon DEF Lab!MutateOnce, Lab!Throw, Lab!Succeeds, Lab!Fails, Lab!Unknown
  <2>2. world' \subseteq LabThings
    BY <1>1, <2>1, DueIs, EffectIs
  <2> QED  BY <1>1, <2>1, <2>2, LabKept
<1>4. CASE Lab!Land
  <2>1. PICK o \in lost : world' = Lab!Effect(o) /\ UNCHANGED <<reads, cleaned, pendingMode, result>>
    BY <1>4 DEF Lab!Land
  <2>2. o \in Deploying \union Cleaning
    BY <1>1, <2>1, PlanIs DEF LabSent
  <2>3. Lab!Things(o) \subseteq LabThings
    BY <2>2, ThingsIs DEF Deploying, Cleaning, LabThings
  <2>4. world' \subseteq LabThings
    BY <1>1, <2>1, <2>3 DEF Lab!Effect
  <2> QED  BY <1>1, <2>1, <2>4, LabKept
<1>5. CASE Lab!ReadThrows \/ Lab!CleanupTurn
  <2>1. /\ UNCHANGED <<world, pendingMode, cleaned>>
        /\ reads' = reads \/ \E o : Lab!CanRead(o) /\ Lab!Reads(o)
        /\ result' = result \/ result' = "threw" \/ cleaned = Len(Lab!Cleanup)
    <3>1. CASE Lab!ReadThrows
      BY <3>1, Zenon DEF Lab!ReadThrows, Lab!Throw
    <3>2. CASE Lab!CleanupTurn
      BY <3>2, Zenon DEF Lab!CleanupTurn
    <3> QED  BY <1>5, <3>1, <3>2
  <2> QED  BY <1>1, <2>1, CleanupIs, LabKept
<1>6. CASE Lab!VerifyRoles \/ Lab!Precheck \/ Lab!Postcheck
  <2>1. /\ UNCHANGED world /\ (\E o : Lab!CanRead(o) /\ Lab!Reads(o))
        /\ pendingMode' \in {pendingMode, "advance", "pre-cleanup"}
        /\ result' = result \/ result' \in {"failed", "blocked"}
        /\ UNCHANGED cleaned \/ at \in {"precheck", "postcheck"}
    <3>1. CASE Lab!VerifyRoles
      BY <3>1, Zenon DEF Lab!VerifyRoles
    <3>2. CASE Lab!Precheck
      BY <3>2, Zenon DEF Lab!Precheck
    <3>3. CASE Lab!Postcheck
      BY <3>3, Zenon DEF Lab!Postcheck
    <3> QED  BY <1>6, <3>1, <3>2, <3>3
  <2>2. UNCHANGED cleaned \/ cleaned < 7
    BY <1>1, <2>1 DEF LabPhase
  <2> QED  BY <1>1, <2>1, <2>2, LabKept
<1>7. CASE Lab!ReconcileReads
  <2>1. /\ UNCHANGED world /\ (\E o : Lab!CanRead(o) /\ Lab!Reads(o))
        /\ pendingMode' \in {pendingMode, "none"}
        /\ \/ result' = result /\ UNCHANGED cleaned
           \/ result' \in {"ready-to-resume", "failed", "blocked"}
    BY <1>7, Zenon DEF Lab!ReconcileReads, Lab!Advances, Lab!GivesUp
  <2> QED  BY <1>1, <2>1, LabKept
<1>8. CASE UNCHANGED labVars
  BY <1>1, <1>8, LabKept DEF labVars
<1> QED  BY <1>2, <1>3, <1>4, <1>5, <1>6, <1>7, <1>8 DEF Lab!Next

\* The sessions that have been seen so far: later ones have other numbers.
Known(n) == [id : 0..n, who : {"actor", "other"}]

\* A command that proves has staged, one that cleans up does as if it had; from the
\* tidying of the guest it goes on only with a clean guest or its error.
GoodInv ==
  /\ opened \in Nat /\ desk \subseteq Known(opened) /\ owned \subseteq Known(opened) /\ receipt \subseteq Known(opened)
  /\ proof \/ tidying \/ leg \in {"staging", "proving"} => staged
  /\ leg \in {"tidySessions", "deleting"} /\ staged /\ ~guestError => guest = "clean" /\ ~late
  /\ Sso!GoodMeansGone

LEMMA KnownGrows ==
  ASSUME NEW n \in Nat
  PROVE  /\ Known(n) \subseteq Known(n + 1)
         /\ \A w \in {"actor", "other"} : [id |-> n + 1, who |-> w] \in Known(n + 1)
         /\ \A w \in {"actor", "other"} : [id |-> 0, who |-> w] \in Known(n)
         /\ \A s \in Known(n) : [s EXCEPT !.id = n + 1] \in Known(n + 1)
         /\ \A s \in Known(n) : s.id # n + 1
BY DEF Known

\* What happens on the host while no command tells, or is told, anything.
LEMMA HostMoves ==
  ASSUME GoodInv, Sso!SessionOpens \/ Sso!SessionActive \/ Sso!SessionEnds \/ Sso!VmRuns
  PROVE  GoodInv'
<1> USE DEF Sso!files, Sso!locals
<1>1. /\ opened \in Nat /\ desk \subseteq Known(opened) /\ owned \subseteq Known(opened) /\ receipt \subseteq Known(opened)
      /\ UNCHANGED <<receipt, owned>> /\ UNCHANGED <<guest, late>> /\ UNCHANGED <<leg, tidying, staged, proof, guestError>>
      /\ ssoEnd' = ssoEnd
  BY Zenon DEF GoodInv, Sso!SessionOpens, Sso!SessionActive, Sso!SessionEnds, Sso!VmRuns
<1>2. /\ opened' \in {opened, opened + 1} /\ desk' \subseteq Known(opened')
      /\ \A s \in desk' : s \in desk \/ s.id \in {0, opened + 1}
  <2>1. CASE Sso!SessionOpens
    <3>1. PICK w \in {"actor", "other"} :
            \/ desk' = desk \union {[id |-> 0, who |-> w]} /\ opened' = opened
            \/ desk' = desk \union {[id |-> opened + 1, who |-> w]} /\ opened' = opened + 1
      BY <2>1 DEF Sso!SessionOpens
    <3> DEFINE placed == [id |-> 0, who |-> w]
               fresh == [id |-> opened + 1, who |-> w]
    <3>2. placed \in Known(opened) /\ placed.id = 0 /\ fresh \in Known(opened + 1) /\ fresh.id = opened + 1
          /\ Known(opened) \subseteq Known(opened + 1)
      BY <1>1, KnownGrows
    <3>3. \/ desk' = desk \union {placed} /\ opened' = opened
          \/ desk' = desk \union {fresh} /\ opened' = opened + 1
      BY <3>1
    <3> HIDE DEF placed, fresh
    <3> QED  BY <1>1, <3>2, <3>3
  <2>2. CASE Sso!SessionActive
    <3>1. PICK s \in desk : desk' = (desk \ {s}) \union {[s EXCEPT !.id = opened + 1]} /\ opened' = opened + 1
      BY <2>2 DEF Sso!SessionActive
    <3>2. s \in Known(opened) /\ [s EXCEPT !.id = opened + 1].id = opened + 1
      BY <1>1, <3>1 DEF Known
    <3> QED  BY <1>1, <3>1, <3>2, KnownGrows
  <2>3. CASE Sso!SessionEnds
    <3>1. opened' = opened /\ desk' \subseteq desk
      BY <2>3 DEF Sso!SessionEnds
    <3> QED  BY <1>1, <3>1
  <2>4. CASE Sso!VmRuns
    BY <1>1, <2>4 DEF Sso!VmRuns
  <2> QED  BY <2>1, <2>2, <2>3, <2>4
<1>3. /\ opened' \in Nat /\ owned' \subseteq Known(opened') /\ receipt' \subseteq Known(opened')
  <2>1. Known(opened) \subseteq Known(opened + 1) /\ opened + 1 \in Nat
    BY <1>1 DEF Known
  <2>2. opened' = opened \/ opened' = opened + 1
    BY <1>2
  <2>3. CASE opened' = opened
    BY <1>1, <2>3
  <2>4. CASE opened' = opened + 1
    BY <1>1, <2>1, <2>4
  <2> QED  BY <2>2, <2>3, <2>4
<1>4. Sso!GoodMeansGone'
  <2>1. \A s \in receipt : ~Sso!Placeholder(s) /\ s \notin desk => s \notin desk'
    BY <1>1, <1>2, KnownGrows DEF Sso!Placeholder
  <2> QED  BY <1>1, <2>1 DEF GoodInv, Sso!GoodMeansGone
<1>5. /\ proof' \/ tidying' \/ leg' \in {"staging", "proving"} => staged'
      /\ leg' \in {"tidySessions", "deleting"} /\ staged' /\ ~guestError' => guest' = "clean" /\ ~late'
  BY <1>1 DEF GoodInv
<1> QED  BY <1>2, <1>3, <1>4, <1>5 DEF GoodInv

\* The command, on its way to its verdict.
LEMMA GoodNext ==
  ASSUME GoodInv, Sso!Next \/ UNCHANGED ssoVars
  PROVE  GoodInv'
<1> USE DEF Sso!host, Sso!files, Sso!locals, Sso!Ends, Sso!To
<1>1. ASSUME UNCHANGED <<opened, desk, owned, receipt>>,
             proof' \/ tidying' \/ leg' \in {"staging", "proving"} => staged',
             leg' \in {"tidySessions", "deleting"} /\ staged' /\ ~guestError' => guest' = "clean" /\ ~late',
             leg' # "idle" \/ ssoEnd' # "good" \/ (guest' = "clean" /\ ~late' /\ desk = {})
      PROVE  GoodInv'
  BY <1>1 DEF GoodInv, Sso!GoodMeansGone
<1>2. CASE Sso!SessionOpens \/ Sso!SessionActive \/ Sso!SessionEnds \/ Sso!VmRuns
  BY <1>2, HostMoves
<1>3. CASE Sso!StagingLands
  BY <1>3 DEF Sso!StagingLands, GoodInv, Sso!GoodMeansGone
<1>4. CASE Sso!FifteenMinutes
  BY <1>4 DEF Sso!FifteenMinutes, GoodInv, Sso!GoodMeansGone
<1>5. CASE Sso!RunStarts
  <2>1. UNCHANGED <<opened, desk, receipt>> /\ owned' = {} /\ ~proof' /\ ~tidying'
        /\ leg' \in {"idle", "readying"} /\ (leg' = "idle" => ssoEnd' = "failed")
    BY <1>5 DEF Sso!RunStarts
  <2> QED  BY <2>1 DEF GoodInv, Sso!GoodMeansGone
<1>6. CASE Sso!BecomesReady
  BY <1>1, <1>6 DEF Sso!BecomesReady, GoodInv
<1>7. CASE Sso!Observe
  <2>1. /\ UNCHANGED <<opened, desk, guest, late, tidying, staged, proof, guestError>>
        /\ leg = "connecting" /\ leg' \in {"tidyGuest", "inspecting", "connecting"}
        /\ \/ UNCHANGED <<owned, receipt>>
           \/ \E s \in desk : owned' = {s} /\ receipt' = {s}
    BY <1>7, Zenon DEF Sso!Observe
  <2> QED  BY <2>1 DEF GoodInv, Sso!GoodMeansGone
<1>8. CASE Sso!Inspect
  BY <1>1, <1>8 DEF Sso!Inspect, GoodInv
<1>9. CASE Sso!Stage
  BY <1>1, <1>9 DEF Sso!Stage, GoodInv
<1>10. CASE Sso!Prove
  BY <1>1, <1>10 DEF Sso!Prove, GoodInv
<1>11. CASE Sso!TidyGuest
  BY <1>1, <1>11 DEF Sso!TidyGuest, GoodInv
<1>12. CASE Sso!TidySessions
  BY <1>1, <1>12 DEF Sso!TidySessions, GoodInv
<1>13. CASE Sso!DeleteSession
  <2>1. UNCHANGED <<opened, guest, late, owned, receipt, tidying, staged, proof, guestError>> /\ desk' \subseteq desk
        /\ leg = "deleting" /\ (leg' = "deleting" \/ (leg' = "idle" /\ ssoEnd' = "failed"))
    BY <1>13 DEF Sso!DeleteSession
  <2> QED  BY <2>1 DEF GoodInv, Sso!GoodMeansGone
<1>14. CASE Sso!SessionsGone
  BY <1>1, <1>14 DEF Sso!SessionsGone, Sso!Verdict, GoodInv
<1>15. CASE Sso!CleanupStarts
  <2>1. UNCHANGED <<opened, desk, receipt>> /\ owned' = receipt /\ staged' = TRUE /\ leg' = "tidyGuest"
    BY <1>15 DEF Sso!CleanupStarts
  <2> QED  BY <2>1 DEF GoodInv, Sso!GoodMeansGone
<1>16. CASE Sso!Dies
  BY <1>1, <1>16 DEF Sso!Dies, GoodInv
<1>17. CASE UNCHANGED ssoVars
  BY <1>17 DEF ssoVars, GoodInv, Sso!GoodMeansGone
<1> QED  BY <1>2, <1>3, <1>4, <1>5, <1>6, <1>7, <1>8, <1>9, <1>10, <1>11, <1>12, <1>13, <1>14, <1>15, <1>16, <1>17
         DEF Sso!Next

-----------------------------------------------------------------------------
\* The deactivation cycle.

\* The steps up to the first delivery and to the second; those after the restoration.
UpToFirst == {"authorize app", "install app", "authorize token", "create token", "configure",
              "drop token", "deliver 1"}
UpToSecond == {"authorize group", "leave group", "nudge", "await ban", "recheck", "deliver 2"}
After == {"nudge again", "await return", "drop tokens", "delete app", "final", "ended"}

LEMMA OrderIs ==
  /\ DOMAIN Cycle!Order = 1..14
  /\ Cycle!Order[1] = "precheck" /\ Cycle!Order[2] = "authorize app" /\ Cycle!Order[3] = "install app"
  /\ Cycle!Order[4] = "authorize token" /\ Cycle!Order[5] = "create token" /\ Cycle!Order[6] = "configure"
  /\ Cycle!Order[7] = "drop token" /\ Cycle!Order[8] = "deliver 1" /\ Cycle!Order[9] = "authorize group"
  /\ Cycle!Order[10] = "leave group" /\ Cycle!Order[11] = "nudge" /\ Cycle!Order[12] = "await ban"
  /\ Cycle!Order[13] = "recheck" /\ Cycle!Order[14] = "deliver 2"
BY DEF Cycle!Order

LEMMA FinallyIs ==
  /\ DOMAIN Cycle!Finally = 1..5 /\ Len(Cycle!Finally) = 5
  /\ Cycle!Finally[1] = "restore group" /\ Cycle!Finally[2] = "nudge again"
  /\ Cycle!Finally[3] = "await return" /\ Cycle!Finally[4] = "drop tokens" /\ Cycle!Finally[5] = "delete app"
BY DEF Cycle!Finally

\* Each step has its one place in the order of the try block, or of the finally block.
Place(order, n, s) == n \in DOMAIN order /\ \A i \in DOMAIN order : order[i] = s <=> i = n

LEMMA OnePlace ==
  ASSUME NEW i \in 1..14
  PROVE  /\ Cycle!Order[i] = "precheck" <=> i = 1
         /\ Cycle!Order[i] = "authorize app" <=> i = 2
         /\ Cycle!Order[i] = "install app" <=> i = 3
         /\ Cycle!Order[i] = "authorize token" <=> i = 4
         /\ Cycle!Order[i] = "create token" <=> i = 5
         /\ Cycle!Order[i] = "configure" <=> i = 6
         /\ Cycle!Order[i] = "drop token" <=> i = 7
         /\ Cycle!Order[i] = "deliver 1" <=> i = 8
         /\ Cycle!Order[i] = "authorize group" <=> i = 9
         /\ Cycle!Order[i] = "leave group" <=> i = 10
         /\ Cycle!Order[i] = "nudge" <=> i = 11
         /\ Cycle!Order[i] = "await ban" <=> i = 12
         /\ Cycle!Order[i] = "recheck" <=> i = 13
         /\ Cycle!Order[i] = "deliver 2" <=> i = 14
<1>1. i \in 1..7 \/ i \in 8..14
  OBVIOUS
<1>2. CASE i \in 1..7
  <2>1. i = 1 \/ i = 2 \/ i = 3 \/ i = 4 \/ i = 5 \/ i = 6 \/ i = 7
    BY <1>2
  <2> QED  BY <2>1, OrderIs
<1>3. CASE i \in 8..14
  <2>1. i = 8 \/ i = 9 \/ i = 10 \/ i = 11 \/ i = 12 \/ i = 13 \/ i = 14
    BY <1>3
  <2> QED  BY <2>1, OrderIs
<1> QED  BY <1>1, <1>2, <1>3

LEMMA OnePlaceAtTheEnd ==
  ASSUME NEW i \in 1..5
  PROVE  /\ Cycle!Finally[i] = "restore group" <=> i = 1
         /\ Cycle!Finally[i] = "nudge again" <=> i = 2
         /\ Cycle!Finally[i] = "await return" <=> i = 3
         /\ Cycle!Finally[i] = "drop tokens" <=> i = 4
         /\ Cycle!Finally[i] = "delete app" <=> i = 5
<1>1. i = 1 \/ i = 2 \/ i = 3 \/ i = 4 \/ i = 5
  OBVIOUS
<1> QED  BY <1>1, FinallyIs

LEMMA InOrder ==
  \A s : Cycle!In(Cycle!Order, s) <=> s \in {"precheck"} \union UpToFirst \union UpToSecond
<1>1. ASSUME NEW s, NEW i \in 1..14, Cycle!Order[i] = s
      PROVE  s \in {"precheck"} \union UpToFirst \union UpToSecond
  <2>1. i \in 1..7 \/ i \in 8..14
    OBVIOUS
  <2>2. CASE i \in 1..7
    <3>1. i = 1 \/ i = 2 \/ i = 3 \/ i = 4 \/ i = 5 \/ i = 6 \/ i = 7
      BY <2>2
    <3> QED  BY <1>1, <3>1, OrderIs DEF UpToFirst
  <2>3. CASE i \in 8..14
    <3>1. i = 8 \/ i = 9 \/ i = 10 \/ i = 11 \/ i = 12 \/ i = 13 \/ i = 14
      BY <2>3
    <3> QED  BY <1>1, <3>1, OrderIs DEF UpToFirst, UpToSecond
  <2> QED  BY <2>1, <2>2, <2>3
<1>2. ASSUME NEW s \in {"precheck"} \union UpToFirst \union UpToSecond
      PROVE  \E i \in 1..14 : Cycle!Order[i] = s
  <2>1. CASE s \in {"precheck"} \union UpToFirst
    <3>1. \/ s = Cycle!Order[1] \/ s = Cycle!Order[2] \/ s = Cycle!Order[3] \/ s = Cycle!Order[4]
          \/ s = Cycle!Order[5] \/ s = Cycle!Order[6] \/ s = Cycle!Order[7] \/ s = Cycle!Order[8]
      BY <2>1, OrderIs DEF UpToFirst
    <3> QED  BY <3>1
  <2>2. CASE s \in UpToSecond
    <3>1. \/ s = Cycle!Order[9] \/ s = Cycle!Order[10] \/ s = Cycle!Order[11]
          \/ s = Cycle!Order[12] \/ s = Cycle!Order[13] \/ s = Cycle!Order[14]
      BY <2>2, OrderIs DEF UpToSecond
    <3> QED  BY <3>1
  <2> QED  BY <2>1, <2>2
<1> QED  BY <1>1, <1>2, OrderIs DEF Cycle!In

LEMMA IndexIs ==
  ASSUME NEW order, NEW n, NEW s, Place(order, n, s)
  PROVE  Cycle!IndexIn(order, s) = n
BY Zenon DEF Cycle!IndexIn, Place

LEMMA PlacesAre ==
  /\ Place(Cycle!Order, 1, "precheck")
  /\ Place(Cycle!Order, 2, "authorize app")
  /\ Place(Cycle!Order, 3, "install app")
  /\ Place(Cycle!Order, 4, "authorize token")
  /\ Place(Cycle!Order, 5, "create token")
  /\ Place(Cycle!Order, 6, "configure")
  /\ Place(Cycle!Order, 7, "drop token")
  /\ Place(Cycle!Order, 8, "deliver 1")
  /\ Place(Cycle!Order, 9, "authorize group")
  /\ Place(Cycle!Order, 10, "leave group")
  /\ Place(Cycle!Order, 11, "nudge")
  /\ Place(Cycle!Order, 12, "await ban")
  /\ Place(Cycle!Order, 13, "recheck")
  /\ Place(Cycle!Order, 14, "deliver 2")
<1>1. ASSUME NEW i \in DOMAIN Cycle!Order
      PROVE  /\ Cycle!Order[i] = "precheck" <=> i = 1
             /\ Cycle!Order[i] = "authorize app" <=> i = 2
             /\ Cycle!Order[i] = "install app" <=> i = 3
             /\ Cycle!Order[i] = "authorize token" <=> i = 4
             /\ Cycle!Order[i] = "create token" <=> i = 5
             /\ Cycle!Order[i] = "configure" <=> i = 6
             /\ Cycle!Order[i] = "drop token" <=> i = 7
             /\ Cycle!Order[i] = "deliver 1" <=> i = 8
             /\ Cycle!Order[i] = "authorize group" <=> i = 9
             /\ Cycle!Order[i] = "leave group" <=> i = 10
             /\ Cycle!Order[i] = "nudge" <=> i = 11
             /\ Cycle!Order[i] = "await ban" <=> i = 12
             /\ Cycle!Order[i] = "recheck" <=> i = 13
             /\ Cycle!Order[i] = "deliver 2" <=> i = 14
  BY OnePlace, OrderIs
<1>2. \A n \in 1..14 : n \in DOMAIN Cycle!Order
  BY OrderIs
<1>3. {1, 2, 3, 4, 5, 6, 7, 8, 9, 10, 11, 12, 13, 14} \subseteq DOMAIN Cycle!Order
  BY <1>2
<1> QED  BY <1>1, <1>3, Zenon DEF Place

LEMMA PlacesAtTheEnd ==
  /\ Place(Cycle!Finally, 1, "restore group")
  /\ Place(Cycle!Finally, 2, "nudge again")
  /\ Place(Cycle!Finally, 3, "await return")
  /\ Place(Cycle!Finally, 4, "drop tokens")
  /\ Place(Cycle!Finally, 5, "delete app")
<1>1. ASSUME NEW i \in DOMAIN Cycle!Finally
      PROVE  /\ Cycle!Finally[i] = "restore group" <=> i = 1
             /\ Cycle!Finally[i] = "nudge again" <=> i = 2
             /\ Cycle!Finally[i] = "await return" <=> i = 3
             /\ Cycle!Finally[i] = "drop tokens" <=> i = 4
             /\ Cycle!Finally[i] = "delete app" <=> i = 5
  BY OnePlaceAtTheEnd, FinallyIs
<1>2. \A n \in 1..5 : n \in DOMAIN Cycle!Finally
  BY FinallyIs
<1>3. {1, 2, 3, 4, 5} \subseteq DOMAIN Cycle!Finally
  BY <1>2
<1> QED  BY <1>1, <1>3, Zenon DEF Place

LEMMA IndexesAre ==
  /\ Cycle!IndexIn(Cycle!Order, "precheck") = 1
  /\ Cycle!IndexIn(Cycle!Order, "authorize app") = 2
  /\ Cycle!IndexIn(Cycle!Order, "install app") = 3
  /\ Cycle!IndexIn(Cycle!Order, "authorize token") = 4
  /\ Cycle!IndexIn(Cycle!Order, "create token") = 5
  /\ Cycle!IndexIn(Cycle!Order, "configure") = 6
  /\ Cycle!IndexIn(Cycle!Order, "drop token") = 7
  /\ Cycle!IndexIn(Cycle!Order, "deliver 1") = 8
  /\ Cycle!IndexIn(Cycle!Order, "authorize group") = 9
  /\ Cycle!IndexIn(Cycle!Order, "leave group") = 10
  /\ Cycle!IndexIn(Cycle!Order, "nudge") = 11
  /\ Cycle!IndexIn(Cycle!Order, "await ban") = 12
  /\ Cycle!IndexIn(Cycle!Order, "recheck") = 13
  /\ Cycle!IndexIn(Cycle!Order, "deliver 2") = 14
BY PlacesAre, IndexIs

LEMMA IndexesAtTheEnd ==
  /\ Cycle!IndexIn(Cycle!Finally, "restore group") = 1
  /\ Cycle!IndexIn(Cycle!Finally, "nudge again") = 2
  /\ Cycle!IndexIn(Cycle!Finally, "await return") = 3
  /\ Cycle!IndexIn(Cycle!Finally, "drop tokens") = 4
  /\ Cycle!IndexIn(Cycle!Finally, "delete app") = 5
BY PlacesAtTheEnd, IndexIs

LEMMA FirstOfFive ==
  ASSUME NEW S \in SUBSET (1..5), S # {}
  PROVE  \E k \in S : \A m \in S : k <= m
<1>1. \A m \in S : m = 1 \/ m = 2 \/ m = 3 \/ m = 4 \/ m = 5
  OBVIOUS
<1>2. CASE 1 \in S
  BY <1>1, <1>2
<1>3. CASE 1 \notin S /\ 2 \in S
  BY <1>1, <1>3
<1>4. CASE 1 \notin S /\ 2 \notin S /\ 3 \in S
  BY <1>1, <1>4
<1>5. CASE 1 \notin S /\ 2 \notin S /\ 3 \notin S /\ 4 \in S
  BY <1>1, <1>5
<1>6. CASE S = {5}
  BY <1>6
<1> QED  BY <1>1, <1>2, <1>3, <1>4, <1>5, <1>6

\* The steps of the finally block that are left from the i-th on, and the first of them.
Left(i) == {k \in i..Len(Cycle!Finally) : Cycle!NeededFor(Cycle!Finally[k]) \in authorized}

LEMMA NoneLeft ==
  ASSUME NEW i, Left(i) = {}
  PROVE  Cycle!FinallyFrom(i) = "final"
BY DEF Cycle!FinallyFrom, Left

LEMMA FirstLeft ==
  ASSUME NEW i, Left(i) # {}, \E k \in Left(i) : \A m \in Left(i) : k <= m
  PROVE  \E k \in Left(i) : (\A m \in Left(i) : k <= m) /\ Cycle!FinallyFrom(i) = Cycle!Finally[k]
<1>1. Cycle!FinallyFrom(i) = Cycle!Finally[CHOOSE k \in Left(i) : \A m \in Left(i) : k <= m]
  BY DEF Cycle!FinallyFrom, Left
<1> QED  BY <1>1, Zenon

LEMMA FinallyFromIs ==
  /\ Cycle!FinallyFrom(1) \in {"restore group"} \union After
  /\ "group" \in authorized => Cycle!FinallyFrom(1) = "restore group"
  /\ \A i \in 2..6 : Cycle!FinallyFrom(i) \in After
<1>1. ASSUME NEW i \in 1..6
      PROVE  \/ Left(i) = {} /\ Cycle!FinallyFrom(i) = "final"
             \/ \E k \in Left(i) : (\A m \in Left(i) : k <= m) /\ Cycle!FinallyFrom(i) = Cycle!Finally[k]
  <2>1. Left(i) \in SUBSET (1..5)
    <3>1. Len(Cycle!Finally) = 5
      BY FinallyIs
    <3> QED  BY <3>1 DEF Left
  <2>2. CASE Left(i) = {}
    BY <2>2, NoneLeft
  <2>3. CASE Left(i) # {}
    BY <2>1, <2>3, FirstOfFive, FirstLeft
  <2> QED  BY <2>2, <2>3
<1>2. \A i \in 1..6 : \A k \in Left(i) : k \in i..5
  BY FinallyIs DEF Left
<1>3. ASSUME NEW k \in 1..5
      PROVE  /\ Cycle!Finally[k] \in {"restore group"} \union After
             /\ k # 1 => Cycle!Finally[k] \in After
  <2>1. k = 1 \/ k = 2 \/ k = 3 \/ k = 4 \/ k = 5
    OBVIOUS
  <2> QED  BY <2>1, FinallyIs DEF After
<1>4. ASSUME NEW i \in 1..6
      PROVE  /\ Cycle!FinallyFrom(i) \in {"restore group"} \union After
             /\ i # 1 => Cycle!FinallyFrom(i) \in After
  <2>1. CASE Cycle!FinallyFrom(i) = "final"
    BY <2>1 DEF After
  <2>2. CASE \E k \in Left(i) : Cycle!FinallyFrom(i) = Cycle!Finally[k]
    <3>1. PICK k \in i..5 : Cycle!FinallyFrom(i) = Cycle!Finally[k]
      BY <1>2, <2>2
    <3>2. k \in 1..5 /\ (i # 1 => k # 1)
      OBVIOUS
    <3> QED  BY <1>3, <3>1, <3>2
  <2> QED  BY <1>1, <2>1, <2>2
<1>5. ASSUME "group" \in authorized
      PROVE  Cycle!FinallyFrom(1) = "restore group"
  <2>1. Cycle!NeededFor(Cycle!Finally[1]) = "group"
    BY FinallyIs, Zenon DEF Cycle!NeededFor
  <2>2. 1 \in Left(1)
    <3>1. Len(Cycle!Finally) = 5
      BY FinallyIs
    <3>2. 1 \in 1..Len(Cycle!Finally)
      BY <3>1
    <3> QED  BY <1>5, <2>1, <3>2, Zenon DEF Left
  <2>3. PICK k \in Left(1) : k <= 1 /\ Cycle!FinallyFrom(1) = Cycle!Finally[k]
    BY <1>1, <2>2
  <2>4. k = 1
    BY <1>2, <2>3
  <2> QED  BY <2>3, <2>4, FinallyIs
<1>6. ASSUME NEW i \in 2..6
      PROVE  Cycle!FinallyFrom(i) \in After
  <2>1. i \in 1..6 /\ i # 1
    OBVIOUS
  <2> QED  BY <1>4, <2>1
<1>7. 1 \in 1..6
  OBVIOUS
<1> QED  BY <1>4, <1>5, <1>6, <1>7

\* Where the cycle goes from a step that went well, and from one that threw.
GoesOn ==
  /\ step = "precheck" => step' = "authorize app"
  /\ step \in UpToFirst \ {"deliver 1"} => step' \in UpToFirst
  /\ step = "deliver 1" => step' = "authorize group"
  /\ step = "authorize group" => step' = "leave group"
  /\ step = "leave group" => step' = "nudge"
  /\ step = "nudge" => step' = "await ban"
  /\ step = "await ban" => step' = "recheck"
  /\ step = "recheck" => step' = "deliver 2"
  /\ step = "deliver 2" => step' \in {"restore group"} \union After
  /\ step = "deliver 2" /\ "group" \in authorized => step' = "restore group"
  /\ step \in {"restore group", "nudge again", "await return", "drop tokens", "delete app"} => step' \in After

CleansUp ==
  /\ step \in {"create token", "configure"} => step' = "drop token"
  /\ step \in ({"precheck"} \union UpToFirst \union UpToSecond) \ {"create token", "configure"} =>
       step' \in {"restore group"} \union After /\ ("group" \in authorized => step' = "restore group")
  /\ step \in {"restore group", "nudge again", "await return", "drop tokens", "delete app"} => step' \in After

LEMMA IndexesGoOn ==
  ASSUME NEW n, n = 1 \/ n = 2 \/ n = 3 \/ n = 4 \/ n = 5
  PROVE  n + 1 \in 2..6
OBVIOUS

LEMMA FinallyGoesOn ==
  ASSUME step \in {"restore group", "nudge again", "await return", "drop tokens", "delete app"},
         step' = Cycle!FinallyFrom(Cycle!IndexIn(Cycle!Finally, step) + 1)
  PROVE  step' \in After /\ ~Cycle!In(Cycle!Order, step)
<1> DEFINE n == Cycle!IndexIn(Cycle!Finally, step)
<1>0. n = 1 \/ n = 2 \/ n = 3 \/ n = 4 \/ n = 5
  BY IndexesAtTheEnd
<1>1. n + 1 \in 2..6
  <2> HIDE DEF n
  <2> QED  BY <1>0, IndexesGoOn
<1>2. step' \in After
  BY <1>1, FinallyFromIs
<1>3. step \notin {"precheck"} \union UpToFirst \union UpToSecond
  BY DEF UpToFirst, UpToSecond
<1> QED  BY <1>2, <1>3, InOrder

LEMMA OrderGoesOn ==
  /\ Cycle!Order[Cycle!IndexIn(Cycle!Order, "precheck") + 1] = "authorize app"
  /\ Cycle!Order[Cycle!IndexIn(Cycle!Order, "authorize app") + 1] = "install app"
  /\ Cycle!Order[Cycle!IndexIn(Cycle!Order, "install app") + 1] = "authorize token"
  /\ Cycle!Order[Cycle!IndexIn(Cycle!Order, "authorize token") + 1] = "create token"
  /\ Cycle!Order[Cycle!IndexIn(Cycle!Order, "create token") + 1] = "configure"
  /\ Cycle!Order[Cycle!IndexIn(Cycle!Order, "configure") + 1] = "drop token"
  /\ Cycle!Order[Cycle!IndexIn(Cycle!Order, "drop token") + 1] = "deliver 1"
  /\ Cycle!Order[Cycle!IndexIn(Cycle!Order, "deliver 1") + 1] = "authorize group"
  /\ Cycle!Order[Cycle!IndexIn(Cycle!Order, "authorize group") + 1] = "leave group"
  /\ Cycle!Order[Cycle!IndexIn(Cycle!Order, "leave group") + 1] = "nudge"
  /\ Cycle!Order[Cycle!IndexIn(Cycle!Order, "nudge") + 1] = "await ban"
  /\ Cycle!Order[Cycle!IndexIn(Cycle!Order, "await ban") + 1] = "recheck"
  /\ Cycle!Order[Cycle!IndexIn(Cycle!Order, "recheck") + 1] = "deliver 2"
<1>1. /\ 1 + 1 = 2 /\ 2 + 1 = 3 /\ 3 + 1 = 4 /\ 4 + 1 = 5 /\ 5 + 1 = 6 /\ 6 + 1 = 7 /\ 7 + 1 = 8
      /\ 8 + 1 = 9 /\ 9 + 1 = 10 /\ 10 + 1 = 11 /\ 11 + 1 = 12 /\ 12 + 1 = 13 /\ 13 + 1 = 14
  OBVIOUS
<1>2. /\ Cycle!Order[Cycle!IndexIn(Cycle!Order, "precheck") + 1] = "authorize app"
      /\ Cycle!Order[Cycle!IndexIn(Cycle!Order, "authorize app") + 1] = "install app"
      /\ Cycle!Order[Cycle!IndexIn(Cycle!Order, "install app") + 1] = "authorize token"
      /\ Cycle!Order[Cycle!IndexIn(Cycle!Order, "authorize token") + 1] = "create token"
  BY <1>1, OrderIs, IndexesAre, Zenon
<1>3. /\ Cycle!Order[Cycle!IndexIn(Cycle!Order, "create token") + 1] = "configure"
      /\ Cycle!Order[Cycle!IndexIn(Cycle!Order, "configure") + 1] = "drop token"
      /\ Cycle!Order[Cycle!IndexIn(Cycle!Order, "drop token") + 1] = "deliver 1"
      /\ Cycle!Order[Cycle!IndexIn(Cycle!Order, "deliver 1") + 1] = "authorize group"
  BY <1>1, OrderIs, IndexesAre, Zenon
<1>4. /\ Cycle!Order[Cycle!IndexIn(Cycle!Order, "authorize group") + 1] = "leave group"
      /\ Cycle!Order[Cycle!IndexIn(Cycle!Order, "leave group") + 1] = "nudge"
  BY <1>1, OrderIs, IndexesAre, Zenon
<1>5. /\ Cycle!Order[Cycle!IndexIn(Cycle!Order, "nudge") + 1] = "await ban"
      /\ Cycle!Order[Cycle!IndexIn(Cycle!Order, "await ban") + 1] = "recheck"
      /\ Cycle!Order[Cycle!IndexIn(Cycle!Order, "recheck") + 1] = "deliver 2"
  BY <1>1, OrderIs, IndexesAre, Zenon
<1> QED  BY <1>2, <1>3, <1>4, <1>5

LEMMA GoesTo ==
  ASSUME Cycle!Goes,
         step \in {"precheck", "restore group", "nudge again", "await return", "drop tokens",
                   "delete app"} \union UpToFirst \union UpToSecond
  PROVE  GoesOn /\ UNCHANGED <<thrown, cleanupErrors, verdict>>
<1>1. UNCHANGED <<thrown, cleanupErrors, verdict>>
  BY DEF Cycle!Goes
<1>2. CASE step \in {"precheck"} \union UpToFirst \union UpToSecond /\ step # "deliver 2"
  <2>1. step' = Cycle!Order[Cycle!IndexIn(Cycle!Order, step) + 1]
    BY <1>2, InOrder, Zenon DEF Cycle!Goes
  <2>2. /\ step = "precheck" => step' = "authorize app"
        /\ step = "authorize app" => step' = "install app"
        /\ step = "install app" => step' = "authorize token"
        /\ step = "authorize token" => step' = "create token"
        /\ step = "create token" => step' = "configure"
        /\ step = "configure" => step' = "drop token"
        /\ step = "drop token" => step' = "deliver 1"
    BY <2>1, OrderGoesOn
  <2>3. /\ step = "deliver 1" => step' = "authorize group"
        /\ step = "authorize group" => step' = "leave group"
        /\ step = "leave group" => step' = "nudge"
        /\ step = "nudge" => step' = "await ban"
        /\ step = "await ban" => step' = "recheck"
        /\ step = "recheck" => step' = "deliver 2"
    BY <2>1, OrderGoesOn
  <2> QED  BY <1>1, <1>2, <2>2, <2>3 DEF GoesOn, UpToFirst, UpToSecond
<1>3. CASE step = "deliver 2"
  <2>1. Cycle!In(Cycle!Order, step)
    BY <1>3, InOrder DEF UpToSecond
  <2>2. step' = Cycle!FinallyFrom(1)
    BY <1>3, <2>1, Zenon DEF Cycle!Goes
  <2>3. step' \in {"restore group"} \union After /\ ("group" \in authorized => step' = "restore group")
    BY <2>2, FinallyFromIs
  <2> QED  BY <1>1, <1>3, <2>3 DEF GoesOn, UpToFirst
<1>4. CASE step \in {"restore group", "nudge again", "await return", "drop tokens", "delete app"}
  <2>1. step \notin {"precheck"} \union UpToFirst \union UpToSecond
    BY <1>4 DEF UpToFirst, UpToSecond
  <2>2. step' = Cycle!FinallyFrom(Cycle!IndexIn(Cycle!Finally, step) + 1)
    BY <2>1, InOrder, Zenon DEF Cycle!Goes
  <2>3. step' \in After
    BY <1>4, <2>2, FinallyGoesOn
  <2> QED  BY <1>1, <1>4, <2>3 DEF GoesOn, UpToFirst
<1> QED  BY <1>2, <1>3, <1>4

LEMMA ThrowsTo ==
  ASSUME Cycle!Throws,
         step \in {"precheck", "restore group", "nudge again", "await return", "drop tokens",
                   "delete app"} \union UpToFirst \union UpToSecond
  PROVE  /\ CleansUp /\ UNCHANGED verdict
         /\ step \in {"precheck"} \union UpToFirst \union UpToSecond => thrown' = TRUE
         /\ step \notin {"precheck"} \union UpToFirst \union UpToSecond => thrown' = thrown
<1>1. CASE step \in {"precheck"} \union UpToFirst \union UpToSecond
  <2>1. /\ UNCHANGED verdict /\ thrown' = TRUE
        /\ step' = IF step \in {"create token", "configure"} THEN "drop token" ELSE Cycle!FinallyFrom(1)
    BY <1>1, InOrder, Zenon DEF Cycle!Throws
  <2>2. step \in {"create token", "configure"} => step' = "drop token"
    BY <2>1
  <2>3. step \notin {"create token", "configure"} =>
          step' \in {"restore group"} \union After /\ ("group" \in authorized => step' = "restore group")
    BY <2>1, FinallyFromIs
  <2>4. step \notin {"restore group", "nudge again", "await return", "drop tokens", "delete app"}
    BY <1>1 DEF UpToFirst, UpToSecond
  <2> QED  BY <1>1, <2>1, <2>2, <2>3, <2>4, Zenon DEF CleansUp
<1>2. CASE step \in {"restore group", "nudge again", "await return", "drop tokens", "delete app"}
  <2>1. step \notin {"precheck"} \union UpToFirst \union UpToSecond
    BY <1>2 DEF UpToFirst, UpToSecond
  <2>2. /\ UNCHANGED <<verdict, thrown>>
        /\ step' = Cycle!FinallyFrom(Cycle!IndexIn(Cycle!Finally, step) + 1)
    BY <2>1, InOrder, Zenon DEF Cycle!Throws
  <2>3. step' \in After
    BY <1>2, <2>2, FinallyGoesOn
  <2>4. step \notin {"create token", "configure"}
    BY <1>2
  <2> QED  BY <1>2, <2>1, <2>2, <2>3, <2>4, Zenon DEF CleansUp
<1> QED  BY <1>1, <1>2

\* The steps at which a cycle is under way, and the steps of its finally block.
Ending == {"restore group", "nudge again", "await return", "drop tokens", "delete app"}
UnderWay == {"precheck"} \union UpToFirst \union UpToSecond \union Ending

\* The steps there are.
StepKnown == step \in UnderWay \union {"final", "ended"}

\* What the proofs of the cycle need to know of its variables.
CycleTyped ==
  /\ thrown \in BOOLEAN /\ banned \in BOOLEAN /\ strayed \in BOOLEAN
  /\ provision \in {"none", "ban", "activate"}

\* Kobe's restoration was not tried, or did not succeed.
Unrestored == restoration # "no"

\* The receiver has what the steps so far have delivered.
DeliveriesInv ==
  /\ step = "precheck" => receiver = <<>> /\ verdict = "none"
  /\ ~thrown =>
       /\ step \in UpToFirst => receiver = <<>>
       /\ step \in UpToSecond => receiver = <<"deliver 1">>
       /\ step \in After \union {"restore group"} => receiver = <<"deliver 1", "deliver 2">>

\* Kobe is a member, or his return is authorized and not yet done.
MemberInv ==
  ~strayed =>
    /\ step = "precheck" => authorized = {}
    /\ step \in UpToFirst \union {"authorize group"} => "member" \in there
    /\ authorized # {} /\ "group" \notin authorized => "member" \in there
    /\ step \in UpToSecond \ {"authorize group"} => "group" \in authorized
    /\ step \in After /\ "group" \in authorized /\ ~Unrestored => "member" \in there

\* While nothing has failed, what SCIM has made of the group, and what it is about to.
BanInv ==
  ~strayed /\ ~thrown =>
    /\ step = "precheck" => (provision = "ban" => "member" \notin there) /\ (provision = "activate" => banned)
    /\ step \in UpToFirst \union {"authorize group", "leave group"} =>
         "member" \in there /\ ~banned /\ provision = "none"
    /\ step \in {"nudge", "await ban"} =>
         "member" \notin there /\ provision # "activate" /\ (banned => provision = "none")
    /\ step \in {"recheck", "deliver 2", "restore group"} \union After =>
         /\ "member" \in there => provision # "ban" /\ (~banned => provision = "none")
         /\ "member" \notin there => banned /\ provision = "none"

\* The verdict is the last thing a cycle does.
VerdictInv ==
  verdict = "baseline restored" =>
    step = "ended" /\ ~thrown /\ (~strayed => there = {"member"} /\ ~banned)

CycleInv == CycleTyped /\ StepKnown /\ DeliveriesInv /\ MemberInv /\ BanInv /\ VerdictInv

LEMMA CycleTypedNext ==
  ASSUME CycleTyped, Cycle!Next
  PROVE  CycleTyped'
<1>1. thrown' \in BOOLEAN /\ strayed' \in BOOLEAN
  BY Zenon DEF CycleTyped, Cycle!Next, Cycle!Mutate, Cycle!MutationReturns, Cycle!ReadFails, Cycle!Land, Cycle!Authorize,
         Cycle!Precheck, Cycle!Nudge, Cycle!AwaitBanned, Cycle!Recheck, Cycle!Deliver, Cycle!FinalChecks,
         Cycle!ScimReads, Cycle!ScimWrites, Cycle!Goes, Cycle!Throws
<1>2. banned' \in BOOLEAN /\ provision' \in {"none", "ban", "activate"}
  BY DEF CycleTyped, Cycle!Next, Cycle!Mutate, Cycle!MutationReturns, Cycle!ReadFails, Cycle!Land, Cycle!Authorize,
         Cycle!Precheck, Cycle!Nudge, Cycle!AwaitBanned, Cycle!Recheck, Cycle!Deliver, Cycle!FinalChecks,
         Cycle!ScimReads, Cycle!ScimWrites
<1> QED  BY <1>1, <1>2 DEF CycleTyped

LEMMA ScimKeeps ==
  ASSUME CycleInv, Cycle!ScimReads \/ Cycle!ScimWrites
  PROVE  DeliveriesInv' /\ MemberInv' /\ BanInv' /\ VerdictInv' /\ StepKnown'
<1>1. UNCHANGED <<there, receiver, strayed, restoration, step, thrown, authorized, verdict>>
  BY DEF Cycle!ScimReads, Cycle!ScimWrites
<1>2. DeliveriesInv' /\ MemberInv' /\ StepKnown'
  BY <1>1 DEF CycleInv, DeliveriesInv, MemberInv, StepKnown, Unrestored
<1>3. CASE Cycle!ScimReads
  <2>1. provision = "none" /\ banned # ("member" \notin there) /\ banned' = banned
        /\ ("member" \in there => provision' = "activate") /\ ("member" \notin there => provision' = "ban")
    BY <1>3 DEF Cycle!ScimReads
  <2>2. banned \in BOOLEAN
    BY DEF CycleInv, CycleTyped
  <2>3. ("member" \in there => banned) /\ ("member" \notin there => ~banned)
    BY <2>1, <2>2, Zenon
  <2>4. BanInv'
    BY <1>1, <2>1, <2>3 DEF CycleInv, BanInv
  <2>5. VerdictInv'
    BY <1>1, <2>1 DEF CycleInv, VerdictInv
  <2> QED  BY <1>2, <2>4, <2>5
<1>4. CASE Cycle!ScimWrites
  <2>1. provision # "none" /\ provision' = "none" /\ (banned' <=> provision = "ban")
    BY <1>4 DEF Cycle!ScimWrites
  <2>2. BanInv'
    BY <1>1, <2>1 DEF CycleInv, BanInv, CycleTyped
  <2>3. verdict = "baseline restored" /\ ~strayed => provision # "ban"
    BY DEF CycleInv, BanInv, VerdictInv, After
  <2>4. VerdictInv'
    BY <1>1, <2>1, <2>3 DEF CycleInv, VerdictInv
  <2> QED  BY <1>2, <2>2, <2>4
<1> QED  BY <1>3, <1>4

LEMMA LandKeeps ==
  ASSUME CycleInv, Cycle!Land
  PROVE  DeliveriesInv' /\ MemberInv' /\ BanInv' /\ VerdictInv' /\ StepKnown'
BY DEF CycleInv, Cycle!Land, DeliveriesInv, MemberInv, BanInv, VerdictInv, StepKnown

LEMMA VerdictKeeps ==
  ASSUME CycleInv, Cycle!FinalChecks
  PROVE  DeliveriesInv' /\ MemberInv' /\ BanInv' /\ VerdictInv' /\ StepKnown'
<1>1. /\ UNCHANGED <<there, banned, provision, receiver, strayed, restoration, thrown, authorized>>
      /\ step = "final" /\ step' = "ended"
  BY DEF Cycle!FinalChecks
<1>2. verdict' = "baseline restored" => ~thrown /\ there = {"member"} /\ ~banned
  BY Zenon DEF Cycle!FinalChecks
<1>3. VerdictInv'
  BY <1>1, <1>2 DEF VerdictInv
<1>4. DeliveriesInv' /\ MemberInv' /\ BanInv' /\ StepKnown'
  BY <1>1 DEF CycleInv, StepKnown, DeliveriesInv, MemberInv, BanInv, UpToFirst, UpToSecond, After, Unrestored
<1> QED  BY <1>3, <1>4

\* A step that goes on, and one that throws, as the invariants see them.
Went == GoesOn /\ (thrown' <=> thrown)
Threw == CleansUp /\ (step \in Ending => (thrown' <=> thrown)) /\ (step \notin Ending => thrown')

LEMMA GoesOrThrows ==
  ASSUME step \in UnderWay
  PROVE  /\ Cycle!Goes => Went /\ verdict' = verdict
         /\ Cycle!Throws => Threw /\ verdict' = verdict
<1>1. step \in {"precheck", "restore group", "nudge again", "await return", "drop tokens",
                "delete app"} \union UpToFirst \union UpToSecond
  BY DEF UnderWay, Ending
<1>2. step \in Ending <=> step \notin {"precheck"} \union UpToFirst \union UpToSecond
  BY <1>1 DEF Ending, UpToFirst, UpToSecond
<1>3. ASSUME Cycle!Goes
      PROVE  Went /\ verdict' = verdict
  <2>1. GoesOn /\ UNCHANGED <<thrown, verdict>>
    BY <1>1, <1>3, GoesTo, Zenon
  <2>2. thrown' <=> thrown
    BY <2>1
  <2> QED  BY <2>1, <2>2 DEF Went
<1>4. ASSUME Cycle!Throws
      PROVE  Threw /\ verdict' = verdict
  <2>1. /\ CleansUp /\ verdict' = verdict
        /\ (step \in Ending => thrown' = thrown) /\ (step \notin Ending => thrown' = TRUE)
    BY <1>1, <1>2, <1>4, ThrowsTo, Zenon
  <2>2. step \in Ending => (thrown' <=> thrown)
    BY <2>1
  <2>3. step \notin Ending => thrown'
    BY <2>1, Zenon
  <2> QED  BY <2>1, <2>2, <2>3, Zenon DEF Threw
<1> QED  BY <1>3, <1>4

LEMMA VerdictWaits ==
  ASSUME VerdictInv, step \in UnderWay, verdict' = verdict
  PROVE  VerdictInv'
BY DEF VerdictInv, UnderWay, UpToFirst, UpToSecond, Ending

LEMMA AppendsOne ==
  ASSUME NEW S, NEW e \in S, NEW f \in S
  PROVE  Append(<<e>>, f) = <<e, f>>
<1>1. <<e>> \in Seq(S) /\ <<e, f>> \in Seq(S) /\ Len(<<e>>) = 1 /\ Len(<<e, f>>) = 2
  OBVIOUS
<1>2. Append(<<e>>, f) \in Seq(S) /\ Len(Append(<<e>>, f)) = 2
  BY <1>1, AppendProperties
<1>3. Append(<<e>>, f)[1] = e /\ Append(<<e>>, f)[2] = f
  BY <1>1
<1>4. \A i \in 1..2 : Append(<<e>>, f)[i] = <<e, f>>[i]
  BY <1>3
<1> QED  BY <1>1, <1>2, <1>4, SeqEqual

LEMMA BothDeliveries ==
  /\ Append(<<>>, "deliver 1") = <<"deliver 1">>
  /\ Append(<<"deliver 1">>, "deliver 2") = <<"deliver 1", "deliver 2">>
<1>1. Append(<<>>, "deliver 1") = <<"deliver 1">>
  OBVIOUS
<1>3. "deliver 1" \in {"deliver 1", "deliver 2"} /\ "deliver 2" \in {"deliver 1", "deliver 2"}
  OBVIOUS
<1>4. Append(<<"deliver 1">>, "deliver 2") = <<"deliver 1", "deliver 2">>
  BY <1>3, AppendsOne, Zenon
<1> QED  BY <1>1, <1>4

LEMMA DeliveriesMove ==
  ASSUME DeliveriesInv, step \in UnderWay, Went \/ Threw, thrown \in BOOLEAN,
         step \notin {"deliver 1", "deliver 2"} => receiver' = receiver,
         step \in {"deliver 1", "deliver 2"} /\ Went /\ ~thrown' => receiver' = Append(receiver, step)
  PROVE  DeliveriesInv'
<1>1. step' # "precheck"
  BY DEF Went, Threw, GoesOn, CleansUp, UnderWay, Ending, UpToFirst, UpToSecond, After
<1>2. CASE thrown'
  BY <1>1, <1>2 DEF DeliveriesInv
<1>3. CASE ~thrown' /\ step = "deliver 1"
  <2>0. step \notin Ending
    BY <1>3 DEF Ending
  <2>1. Went /\ ~thrown
    BY <1>3, <2>0, Zenon DEF Went, Threw
  <2>2. receiver = <<>> /\ receiver' = Append(receiver, "deliver 1") /\ step' = "authorize group"
    BY <1>3, <2>1 DEF DeliveriesInv, UpToFirst, Went, GoesOn
  <2>3. receiver' = <<"deliver 1">>
    BY <2>2, BothDeliveries
  <2> QED  BY <1>3, <2>2, <2>3 DEF DeliveriesInv, UpToFirst, UpToSecond, After
<1>4. CASE ~thrown' /\ step = "deliver 2"
  <2>0. step \notin Ending
    BY <1>4 DEF Ending
  <2>1. Went /\ ~thrown
    BY <1>4, <2>0, Zenon DEF Went, Threw
  <2>2. receiver = <<"deliver 1">> /\ receiver' = Append(receiver, "deliver 2")
        /\ step' \in {"restore group"} \union After
    BY <1>4, <2>1 DEF DeliveriesInv, UpToSecond, Went, GoesOn
  <2>3. receiver' = <<"deliver 1", "deliver 2">>
    BY <2>2, BothDeliveries
  <2> QED  BY <1>4, <2>2, <2>3 DEF DeliveriesInv, UpToFirst, UpToSecond, After
<1>5. CASE ~thrown' /\ step \notin {"deliver 1", "deliver 2"}
  <2>1. ~thrown /\ receiver' = receiver /\ (Went \/ (Threw /\ step \in Ending))
    BY <1>5, Zenon DEF Went, Threw
  <2>2. CASE Went
    BY <1>5, <2>1, <2>2 DEF DeliveriesInv, Went, GoesOn, UnderWay, Ending, UpToFirst, UpToSecond, After
  <2>3. CASE Threw /\ step \in Ending
    BY <1>5, <2>1, <2>3 DEF DeliveriesInv, Threw, CleansUp, Ending, UpToFirst, UpToSecond, After
  <2> QED  BY <2>1, <2>2, <2>3
<1> QED  BY <1>2, <1>3, <1>4, <1>5

\* What a step may do to Kobe's membership.
MemberMoves ==
  /\ strayed' = strayed /\ (Unrestored => Unrestored')
  /\ step # "leave group" /\ "member" \in there => "member" \in there'
  /\ step = "restore group" => Unrestored' \/ "member" \in there'

LEMMA MembershipMoves ==
  ASSUME MemberInv, step \in UnderWay, MemberMoves,
         \/ step \notin {"authorize app", "authorize token", "authorize group"} /\ authorized' = authorized
         \/ /\ step \in {"authorize app", "authorize token"} /\ Went
            /\ "group" \in authorized' <=> "group" \in authorized
         \/ step = "authorize group" /\ Went /\ "group" \in authorized',
         Threw \/ (Went /\ (step = "precheck" => "member" \in there))
  PROVE  MemberInv'
<1> SUFFICES ASSUME ~strayed, ~strayed' PROVE MemberInv'
  BY DEF MemberInv, MemberMoves
<1>1. CASE step = "precheck"
  BY <1>1 DEF MemberInv, MemberMoves, Went, Threw, GoesOn, CleansUp, UpToFirst, UpToSecond, After
<1>2. CASE step \in UpToFirst
  BY <1>2 DEF MemberInv, MemberMoves, Went, Threw, GoesOn, CleansUp, UpToFirst, UpToSecond, After
<1>3. CASE step \in UpToSecond
  BY <1>3 DEF MemberInv, MemberMoves, Went, Threw, GoesOn, CleansUp, UpToFirst, UpToSecond, After
<1>4. CASE step \in Ending
  BY <1>4 DEF MemberInv, MemberMoves, Went, Threw, GoesOn, CleansUp, UpToFirst, UpToSecond, After, Ending
<1> QED  BY <1>1, <1>2, <1>3, <1>4 DEF UnderWay

LEMMA BanMoves ==
  ASSUME BanInv, CycleTyped, step \in UnderWay, Threw \/ Went,
         banned' = banned, provision' = provision, strayed' = strayed,
         step # "leave group" /\ "member" \in there => "member" \in there',
         step # "restore group" /\ "member" \notin there => "member" \notin there',
         Went /\ step = "precheck" => "member" \in there /\ ~banned,
         Went /\ step = "leave group" => "member" \notin there',
         Went /\ step = "await ban" => banned
  PROVE  BanInv'
<1> SUFFICES ASSUME ~strayed, ~strayed', ~thrown' PROVE BanInv'
  BY DEF BanInv
<1>0. ~thrown /\ (Went \/ (Threw /\ step \in Ending))
  BY DEF Went, Threw, CycleTyped
<1>1. CASE Went /\ step = "precheck"
  BY <1>0, <1>1 DEF BanInv, CycleTyped, Went, GoesOn, UpToFirst, UpToSecond, After
<1>2. CASE Went /\ step \in UpToFirst
  BY <1>0, <1>2 DEF BanInv, Went, GoesOn, UpToFirst, UpToSecond, After
<1>3. CASE Went /\ step \in UpToSecond
  BY <1>0, <1>3 DEF BanInv, Went, GoesOn, UpToFirst, UpToSecond, After
<1>4. CASE step \in Ending
  BY <1>0, <1>4 DEF BanInv, Went, Threw, GoesOn, CleansUp, UpToFirst, UpToSecond, After, Ending
<1> QED  BY <1>0, <1>1, <1>2, <1>3, <1>4 DEF UnderWay

LEMMA StepsMove ==
  ASSUME CycleInv, step \in UnderWay, MemberMoves, Went \/ Threw, verdict' = verdict,
         banned' = banned, provision' = provision,
         \/ step \notin {"authorize app", "authorize token", "authorize group"} /\ authorized' = authorized
         \/ /\ step \in {"authorize app", "authorize token"} /\ Went
            /\ "group" \in authorized' <=> "group" \in authorized
         \/ step = "authorize group" /\ Went /\ "group" \in authorized',
         step \notin {"deliver 1", "deliver 2"} => receiver' = receiver,
         step \in {"deliver 1", "deliver 2"} /\ Went /\ ~thrown' => receiver' = Append(receiver, step),
         step # "restore group" /\ "member" \notin there => "member" \notin there',
         Went /\ step = "precheck" => "member" \in there /\ ~banned,
         Went /\ step = "leave group" => "member" \notin there',
         Went /\ step = "await ban" => banned
  PROVE  DeliveriesInv' /\ MemberInv' /\ BanInv' /\ VerdictInv' /\ StepKnown'
<1>1. DeliveriesInv'
  BY DeliveriesMove DEF CycleInv, CycleTyped
<1>2. MemberInv'
  BY MembershipMoves DEF CycleInv
<1>3. BanInv'
  BY BanMoves DEF CycleInv, MemberMoves
<1>4. VerdictInv'
  BY VerdictWaits DEF CycleInv
<1>5. StepKnown'
  BY DEF StepKnown, Went, Threw, GoesOn, CleansUp, UnderWay, UpToFirst, UpToSecond, After, Ending
<1> QED  BY <1>1, <1>2, <1>3, <1>4, <1>5

\* Kobe's membership, and the mutations.
LEMMA Membership ==
  ASSUME NEW m, Cycle!Mutates(m)
  PROVE  /\ m = "leave group" => "member" \notin Cycle!Effect(m)
         /\ m = "restore group" => "member" \in Cycle!Effect(m)
         /\ m # "leave group" /\ "member" \in there => "member" \in Cycle!Effect(m)
         /\ m # "restore group" /\ "member" \notin there => "member" \notin Cycle!Effect(m)
<1>1. CASE m = "leave group"
  <2>1. Cycle!Effect(m) = there \ {"member"}
    BY <1>1 DEF Cycle!Effect
  <2> QED  BY <1>1, <2>1
<1>2. CASE m = "restore group"
  <2>1. Cycle!Effect(m) = there \union {"member"}
    BY <1>2 DEF Cycle!Effect
  <2> QED  BY <1>2, <2>1
<1>3. CASE m \in {"install app", "create token", "configure"}
  <2>1. \E x \in {"app", "token", "marker"} : Cycle!Effect(m) = there \union {x}
    BY <1>3 DEF Cycle!Effect
  <2> QED  BY <1>3, <2>1
<1>4. CASE m \in {"drop token", "drop tokens"}
  <2>1. Cycle!Effect(m) = there \ {"token"}
    BY <1>4 DEF Cycle!Effect
  <2> QED  BY <1>4, <2>1
<1>5. CASE m = "delete app"
  <2>1. Cycle!Effect(m) = there \ {"app", "marker"}
    BY <1>5 DEF Cycle!Effect
  <2> QED  BY <1>5, <2>1
<1> QED  BY <1>1, <1>2, <1>3, <1>4, <1>5 DEF Cycle!Mutates

LEMMA MutatesIsUnderWay ==
  ASSUME Cycle!Mutates(step)
  PROVE  /\ step \in UnderWay /\ step # "precheck" /\ step # "await ban"
         /\ step \notin {"authorize app", "authorize token", "authorize group", "deliver 1", "deliver 2"}
BY DEF Cycle!Mutates, UnderWay, UpToFirst, UpToSecond, Ending

LEMMA MutateKeeps ==
  ASSUME CycleInv, Cycle!Mutate
  PROVE  DeliveriesInv' /\ MemberInv' /\ BanInv' /\ VerdictInv' /\ StepKnown'
<1>1. Cycle!Mutates(step)
  BY DEF Cycle!Mutate
<1>2. PICK heard \in BOOLEAN : Cycle!MutationReturns(step, heard) /\ there' \in {there, Cycle!Effect(step)}
  <2>1. CASE there' = Cycle!Effect(step) /\ Cycle!MutationReturns(step, TRUE)
    BY <2>1
  <2>2. CASE there' \in {there, Cycle!Effect(step)} /\ Cycle!MutationReturns(step, FALSE)
    BY <2>2
  <2> QED  BY <2>1, <2>2, Zenon DEF Cycle!Mutate
<1>3. UNCHANGED <<banned, provision, receiver, strayed, authorized>>
  BY <1>2 DEF Cycle!MutationReturns
<1>4. (Went \/ Threw) /\ verdict' = verdict
      /\ (Went /\ step = "leave group" => there' = Cycle!Effect(step))
  <2>1. step \in UnderWay
    BY <1>1, MutatesIsUnderWay
  <2>2. CASE Cycle!Accepted(step, heard) /\ Cycle!Goes
    BY <2>1, <2>2, GoesOrThrows DEF Cycle!Accepted
  <2>3. CASE Cycle!Throws
    <3>1. Threw /\ verdict' = verdict
      BY <2>1, <2>3, GoesOrThrows
    <3>2. ~(Went /\ step = "leave group")
      BY <3>1 DEF Went, Threw, GoesOn, CleansUp, UpToFirst, UpToSecond, After
    <3> QED  BY <3>1, <3>2
  <2> QED  BY <1>2, <2>2, <2>3, Zenon DEF Cycle!MutationReturns
<1>5. (Unrestored => Unrestored') /\ (step = "restore group" => Unrestored' \/ there' = Cycle!Effect(step))
  <2>1. \/ restoration' = "refused"
        \/ restoration' = restoration /\ (step = "restore group" => there' = Cycle!Effect(step))
    BY <1>2, Zenon DEF Cycle!MutationReturns, Cycle!Accepted
  <2> QED  BY <2>1 DEF Unrestored
<1>6. MemberMoves
  BY <1>1, <1>2, <1>3, <1>5, Membership DEF MemberMoves
<1>7. /\ Went /\ step = "leave group" => "member" \notin there'
      /\ step # "restore group" /\ "member" \notin there => "member" \notin there'
  BY <1>1, <1>2, <1>4, Membership
<1> QED  BY <1>1, <1>3, <1>4, <1>6, <1>7, MutatesIsUnderWay, StepsMove

LEMMA ReadFailsKeeps ==
  ASSUME CycleInv, Cycle!ReadFails, step \in UnderWay
  PROVE  DeliveriesInv' /\ MemberInv' /\ BanInv' /\ VerdictInv' /\ StepKnown'
<1>1. /\ UNCHANGED <<banned, provision, receiver, strayed, authorized>>
      /\ step \notin {"authorize app", "authorize token", "authorize group", "deliver 1", "deliver 2"}
  BY DEF Cycle!ReadFails
<1>2. Threw /\ verdict' = verdict
  BY GoesOrThrows DEF Cycle!ReadFails
<1>3. (Unrestored => Unrestored') /\ (step = "restore group" => Unrestored')
  <2>1. restoration' \in {"untried", "refused"} \/ (restoration' = restoration /\ step # "restore group")
    BY Zenon DEF Cycle!ReadFails
  <2> QED  BY <2>1 DEF Unrestored
<1>4. there' = there \/ (Cycle!Mutates(step) /\ there' \in {there, Cycle!Effect(step)})
  BY Zenon DEF Cycle!ReadFails
<1>5. MemberMoves
  BY <1>1, <1>3, <1>4, Membership DEF MemberMoves
<1>6. step # "restore group" /\ "member" \notin there => "member" \notin there'
  BY <1>4, Membership
<1>7. ~(Went /\ step \in {"precheck", "leave group", "await ban"})
  BY <1>2 DEF Went, Threw, GoesOn, CleansUp, UpToFirst, UpToSecond, After
<1> QED  BY <1>1, <1>2, <1>5, <1>6, <1>7, StepsMove

LEMMA OtherStepsKeep ==
  ASSUME CycleInv,
         \/ Cycle!Authorize \/ Cycle!Precheck \/ Cycle!Nudge \/ Cycle!AwaitBanned \/ Cycle!Recheck
         \/ Cycle!Deliver
  PROVE  DeliveriesInv' /\ MemberInv' /\ BanInv' /\ VerdictInv' /\ StepKnown'
<1>1. /\ UNCHANGED <<there, banned, provision, strayed, restoration>>
      /\ step \notin {"leave group", "restore group"} /\ step \in UnderWay
  BY DEF Cycle!Authorize, Cycle!Precheck, Cycle!Nudge, Cycle!AwaitBanned, Cycle!Recheck, Cycle!Deliver,
         UnderWay, UpToFirst, UpToSecond, Ending
<1>2. MemberMoves
  BY <1>1 DEF MemberMoves, Unrestored
<1>3. CASE Cycle!Authorize
  <2>1. Went /\ verdict' = verdict
    BY <1>1, <1>3, GoesOrThrows DEF Cycle!Authorize
  <2>2. step \in {"authorize app", "authorize token", "authorize group"} /\ receiver' = receiver
        /\ authorized' = authorized \union {Cycle!Authorizes(step)}
    BY <1>3 DEF Cycle!Authorize
  <2>3. /\ step = "authorize app" => Cycle!Authorizes(step) = "app"
        /\ step = "authorize token" => Cycle!Authorizes(step) = "token"
        /\ step = "authorize group" => Cycle!Authorizes(step) = "group"
    BY DEF Cycle!Authorizes
  <2>4. /\ step \in {"authorize app", "authorize token"} => ("group" \in authorized' <=> "group" \in authorized)
        /\ step = "authorize group" => "group" \in authorized'
    BY <2>2, <2>3
  <2> QED  BY <1>1, <1>2, <2>1, <2>2, <2>4, StepsMove
<1>4. CASE Cycle!Precheck \/ Cycle!Nudge \/ Cycle!AwaitBanned \/ Cycle!Recheck
  <2>1. /\ UNCHANGED <<receiver, authorized>> /\ (Cycle!Goes \/ Cycle!Throws)
        /\ step \notin {"authorize app", "authorize token", "authorize group", "deliver 1", "deliver 2"}
    BY <1>4, Zenon DEF Cycle!Precheck, Cycle!Nudge, Cycle!AwaitBanned, Cycle!Recheck
  <2>2. (Went \/ Threw) /\ verdict' = verdict
    BY <1>1, <2>1, GoesOrThrows
  <2>3. Went /\ step = "precheck" => there = {"member"} /\ ~banned
    <3>1. step = "precheck" /\ Threw => ~Went
      BY DEF Went, Threw, GoesOn, CleansUp, UpToFirst, UpToSecond, After
    <3>2. step = "precheck" => (there = {"member"} /\ ~banned) \/ Cycle!Throws
      BY <1>4, Zenon DEF Cycle!Precheck, Cycle!Nudge, Cycle!AwaitBanned, Cycle!Recheck
    <3> QED  BY <1>1, <3>1, <3>2, GoesOrThrows
  <2>4. Went /\ step = "await ban" => banned
    <3>1. step = "await ban" /\ Threw => ~Went
      BY DEF Went, Threw, GoesOn, CleansUp, UpToFirst, UpToSecond, After
    <3>2. step = "await ban" => banned \/ Cycle!Throws
      BY <1>4, Zenon DEF Cycle!Precheck, Cycle!Nudge, Cycle!AwaitBanned, Cycle!Recheck
    <3> QED  BY <1>1, <3>1, <3>2, GoesOrThrows
  <2>5. Went /\ step = "precheck" => "member" \in there /\ ~banned
    BY <2>3
  <2> QED  BY <1>1, <1>2, <2>1, <2>2, <2>4, <2>5, StepsMove
<1>5. CASE Cycle!Deliver
  <2>1. step \in {"deliver 1", "deliver 2"} /\ UNCHANGED authorized
    BY <1>5 DEF Cycle!Deliver
  <2>2. (receiver' = Append(receiver, step) /\ Cycle!Goes) \/ Cycle!Throws
    BY <1>5 DEF Cycle!Deliver
  <2>3. step \in {"deliver 1", "deliver 2"} /\ Threw => thrown'
    BY DEF Threw, Ending
  <2>4. (Went \/ Threw) /\ verdict' = verdict /\ (Went /\ ~thrown' => receiver' = Append(receiver, step))
    BY <1>1, <2>1, <2>2, <2>3, GoesOrThrows
  <2> QED  BY <1>1, <1>2, <2>1, <2>4, StepsMove
<1> QED  BY <1>3, <1>4, <1>5

LEMMA CycleNext ==
  ASSUME CycleInv, Cycle!Next \/ UNCHANGED cycleVars
  PROVE  CycleInv'
<1>1. CASE UNCHANGED cycleVars
  <2>1. UNCHANGED <<there, banned, provision, receiver, strayed, restoration, step, thrown, authorized, verdict>>
    BY <1>1 DEF cycleVars
  <2>2. CycleTyped' /\ StepKnown' /\ DeliveriesInv' /\ MemberInv'
    BY <2>1 DEF CycleInv, CycleTyped, StepKnown, DeliveriesInv, MemberInv, Unrestored
  <2>3. BanInv' /\ VerdictInv'
    BY <2>1 DEF CycleInv, BanInv, VerdictInv
  <2> QED  BY <2>2, <2>3 DEF CycleInv
<1>2. CASE Cycle!Next
  <2>1. CycleTyped'
    BY <1>2, CycleTypedNext DEF CycleInv
  <2>2. DeliveriesInv' /\ MemberInv' /\ BanInv' /\ VerdictInv' /\ StepKnown'
    <3>1. Cycle!ReadFails => step \in UnderWay
      BY DEF CycleInv, StepKnown, Cycle!ReadFails
    <3> QED  BY <1>2, <3>1, MutateKeeps, ReadFailsKeeps, LandKeeps, OtherStepsKeep, VerdictKeeps, ScimKeeps, Zenon
             DEF Cycle!Next
  <2> QED  BY <2>1, <2>2 DEF CycleInv
<1> QED  BY <1>1, <1>2

LEMMA CycleInit ==
  ASSUME Init
  PROVE  CycleInv
<1>1. /\ provision = "none" /\ receiver = <<>> /\ strayed = FALSE /\ restoration = "no" /\ step = "precheck"
      /\ thrown = FALSE /\ authorized = {} /\ verdict = "none" /\ banned \in BOOLEAN
  BY DEF Init, Cycle!Init
<1> QED  BY <1>1 DEF CycleInv, CycleTyped, StepKnown, DeliveriesInv, MemberInv, BanInv, VerdictInv, UnderWay, UpToFirst,
               UpToSecond, After

\* What the cycle promises, from its invariant.
LEMMA CyclePromises ==
  ASSUME CycleInv
  PROVE  Cycle!KobeReturns /\ Cycle!RestoredMeansRestored
<1>1. Cycle!KobeReturns
  BY DEF CycleInv, MemberInv, Cycle!KobeReturns, After, Unrestored
<1>2. Cycle!RestoredMeansRestored
  BY DEF CycleInv, DeliveriesInv, VerdictInv, Cycle!RestoredMeansRestored, After
<1> QED  BY <1>1, <1>2

-----------------------------------------------------------------------------

LEMMA ReportsStart ==
  ASSUME Init
  PROVE  LabTyped /\ GoodInv
<1>1. LabTyped
  <2>1. world = {"sensitive"} /\ pendingMode = "none" /\ result = "none" /\ reads = [o \in Lab!PlanOperations |-> 0]
    BY DEF Init, Lab!Init
  <2>2. reads \in [Lab!PlanOperations -> 0..3]
    BY <2>1
  <2> QED  BY <2>1, <2>2, LabStatuses, LabModesAre DEF LabTyped, LabThings
<1>2. GoodInv
  <2>1. Sso!Init
    BY DEF Init
  <2> QED  BY <2>1 DEF Sso!Init, GoodInv, Sso!GoodMeansGone, Known
<1> QED  BY <1>1, <1>2

\* A command that reports that it has cleaned up, or restored what it found, has: the lab is
\* empty, the mailbox has neither rule nor marker mail, Kobe is active and a member again,
\* and the guest and its desktop are as they were.
THEOREM ReportsAreTrue == Spec => []CompletedMeansClean
<1> DEFINE Inv == LabCore /\ LabTyped /\ GoodInv /\ CycleInv
<1>1. Init => Inv
  BY LabStart, ReportsStart, CycleInit
<1>2. Inv /\ [Next]_operatorVars => Inv'
  BY EachSteps, LabNext, LabTypedNext, GoodNext, CycleNext
<1>3. ExerciseInv /\ Inv => CompletedMeansClean
  <2>1. ASSUME Inv
        PROVE  Lab!CompletedMeansClean
    <3>1. ASSUME result \in Finished, ~overtaken
          PROVE  world = {}
      <4>1. cleaned = 7
        BY <2>1, <3>1 DEF LabTyped
      <4>2. Standing(world, deployed, cleaned, TimerGoes)
        BY <2>1, <3>1 DEF LabCore, LabWorld
      <4>3. 7 >= 1 /\ 7 >= 2 /\ 7 >= 3 /\ 7 >= 4 /\ 7 >= 5 /\ 7 >= 6 /\ 7 >= 7
        OBVIOUS
      <4>4. world \intersect LabThings = {}
        BY <4>1, <4>2, <4>3 DEF Standing, LabThings
      <4> QED  BY <2>1, <4>4 DEF LabTyped
    <3> QED  BY <3>1 DEF Lab!CompletedMeansClean, Finished
  <2>2. ASSUME ExerciseInv
        PROVE  Exercise!CleanupMeansAbsent
    BY <2>2 DEF ExerciseInv, Exercise!CleanupMeansAbsent, Exercise!AllMail
  <2>3. ASSUME Inv
        PROVE  Cycle!RestoredMeansRestored /\ Sso!GoodMeansGone
    BY <2>3, CyclePromises DEF GoodInv
  <2> QED  BY <2>1, <2>2, <2>3 DEF CompletedMeansClean
<1> QED  BY <1>1, <1>2, <1>3, ExerciseAlways, PTL DEF Spec

-----------------------------------------------------------------------------
\* The deploy-key probe.

\* No run after this one has anything at GitHub.
ProbeNumbers == probe \in Nat /\ unlanded \union deployKeys \union branches \subseteq 0..probe

\* What this run has there, it knows of once it has confirmed its key, or could not remove.
ProbeInv ==
  /\ {keyId, branchMayExist, confirmed} \subseteq BOOLEAN
  /\ unlanded \intersect deployKeys = {} /\ (stride = "creating" => probe \notin deployKeys)
  /\ stride \in {"creating", "listing", "checking"} => ~confirmed
  /\ stride = "creating" \/ stride = "checking" \/ confirmed => probe \notin unlanded
  /\ probe \in branches => branchMayExist
  /\ confirmed /\ probe \in deployKeys => keyId
  /\ stride \in {"finallyKey", "end"} \/ (stride = "idle" /\ probeEnd \in {"good", "failed", "cleanup failed"}) =>
       (branchMayExist => "branch" \in probeErrors)
  /\ stride = "end" \/ (stride = "idle" /\ probeEnd \in {"good", "failed", "cleanup failed"}) =>
       (keyId => "key" \in probeErrors)

LEMMA NextProbe ==
  ASSUME NEW n \in Nat, NEW S, S \subseteq 0..n
  PROVE  n + 1 \in Nat /\ n + 1 \notin S /\ S \subseteq 0..(n + 1)
OBVIOUS

LEMMA ProbesNext ==
  ASSUME ProbeNumbers, Probe!Next \/ UNCHANGED probeVars
  PROVE  ProbeNumbers'
<1>1. CASE probe' = probe + 1 /\ UNCHANGED <<deployKeys, branches, unlanded>>
  BY <1>1, NextProbe DEF ProbeNumbers
<1>2. CASE probe' = probe /\ unlanded' \union deployKeys' \union branches' \subseteq
             unlanded \union deployKeys \union branches \union {probe}
  <2>1. probe \in 0..probe
    BY DEF ProbeNumbers
  <2> QED  BY <1>2, <2>1 DEF ProbeNumbers
<1>3. CASE Probe!ProbeStarts
  BY <1>1, <1>3, Zenon DEF Probe!ProbeStarts, Probe!remote
<1>4. ASSUME ~Probe!ProbeStarts
      PROVE  probe' = probe
  BY <1>4 DEF Probe!Next, Probe!PostLands, Probe!CreateKey, Probe!ListByTitle, Probe!CheckKey, Probe!Clone, Probe!Push,
       Probe!RemoveBranch, Probe!RemoveKey, Probe!Verify, Probe!FinallyBranch, Probe!FinallyKey, Probe!ProbeEnds,
       Probe!ProbeDies, probeVars
<1>5. CASE Probe!PostLands
  BY <1>2, <1>5 DEF Probe!PostLands, Probe!knows
<1>6. CASE Probe!CreateKey \/ Probe!Push
  BY <1>2, <1>6 DEF Probe!CreateKey, Probe!Push
<1>7. CASE Probe!RemoveBranch \/ Probe!FinallyBranch
  BY <1>2, <1>7 DEF Probe!RemoveBranch, Probe!FinallyBranch, Probe!BranchRemoved, Probe!BranchRemovalFails
<1>8. CASE Probe!RemoveKey \/ Probe!FinallyKey
  BY <1>2, <1>8 DEF Probe!RemoveKey, Probe!FinallyKey, Probe!KeyRemoved, Probe!KeyRemovalFails
<1>9. CASE \/ Probe!ListByTitle \/ Probe!CheckKey \/ Probe!Clone \/ Probe!Verify \/ Probe!ProbeEnds
           \/ Probe!ProbeDies \/ UNCHANGED probeVars
  <2>1. UNCHANGED <<probe, deployKeys, branches, unlanded>>
    BY <1>9 DEF Probe!ListByTitle, Probe!CheckKey, Probe!Clone, Probe!Verify, Probe!ProbeEnds, Probe!ProbeDies,
         Probe!remote, probeVars
  <2> QED  BY <1>2, <2>1
<1> QED  BY <1>3, <1>5, <1>6, <1>7, <1>8, <1>9 DEF Probe!Next

LEMMA ProbeNext ==
  ASSUME ProbeNumbers, ProbeInv, Probe!Next \/ UNCHANGED probeVars
  PROVE  ProbeInv'
<1> USE DEF ProbeInv, Probe!To, Probe!remote, Probe!knows
<1>1. CASE Probe!PostLands
  BY <1>1 DEF Probe!PostLands
<1>2. CASE Probe!ProbeStarts
  <2>1. /\ probe' = probe + 1 /\ UNCHANGED <<deployKeys, branches, unlanded>> /\ stride' \in {"creating", "finallyBranch"}
        /\ keyId' = FALSE /\ branchMayExist' = FALSE /\ confirmed' = FALSE
    BY <1>2 DEF Probe!ProbeStarts
  <2>2. probe' \notin unlanded \union deployKeys \union branches
    BY <2>1, NextProbe DEF ProbeNumbers
  <2> QED  BY <2>1, <2>2
<1>3. CASE Probe!CreateKey
  <2>1. /\ UNCHANGED <<branches, keyId, branchMayExist, confirmed, probeErrors, probeEnd, probe>>
        /\ stride = "creating" /\ stride' \in {"checking", "listing"}
        /\ \/ deployKeys' = deployKeys \union {probe} /\ UNCHANGED unlanded
           \/ stride' = "listing" /\ unlanded' = unlanded \union {probe} /\ UNCHANGED deployKeys
           \/ stride' = "listing" /\ UNCHANGED <<deployKeys, unlanded>>
    BY <1>3 DEF Probe!CreateKey
  <2> QED  BY <2>1
<1>4. CASE Probe!ListByTitle
  BY <1>4 DEF Probe!ListByTitle
<1>5. CASE Probe!CheckKey
  <2>1. /\ UNCHANGED <<deployKeys, branches, unlanded, branchMayExist, probeErrors, probeEnd, probe>>
        /\ stride = "checking" /\ stride' \in {"cloning", "finallyBranch"}
    BY <1>5 DEF Probe!CheckKey
  <2>2. CASE keyId' = TRUE /\ confirmed' = TRUE
    BY <2>1, <2>2
  <2>3. CASE UNCHANGED <<keyId, confirmed>>
    BY <2>1, <2>3
  <2> QED  BY <1>5, <2>2, <2>3 DEF Probe!CheckKey
<1>6. CASE Probe!Clone
  BY <1>6 DEF Probe!Clone
<1>7. CASE Probe!Push
  BY <1>7 DEF Probe!Push
<1>8. CASE Probe!RemoveBranch
  BY <1>8 DEF Probe!RemoveBranch, Probe!BranchRemoved, Probe!BranchRemovalFails
<1>9. CASE Probe!RemoveKey
  BY <1>9 DEF Probe!RemoveKey, Probe!KeyRemoved, Probe!KeyRemovalFails
<1>10. CASE Probe!Verify
  BY <1>10 DEF Probe!Verify
<1>11. CASE Probe!FinallyBranch
  BY <1>11 DEF Probe!FinallyBranch, Probe!BranchRemoved, Probe!BranchRemovalFails
<1>12. CASE Probe!FinallyKey
  BY <1>12 DEF Probe!FinallyKey, Probe!KeyRemoved, Probe!KeyRemovalFails
<1>13. CASE Probe!ProbeEnds
  BY <1>13 DEF Probe!ProbeEnds
<1>14. CASE Probe!ProbeDies
  BY <1>14 DEF Probe!ProbeDies
<1>15. CASE UNCHANGED probeVars
  BY <1>15 DEF probeVars
<1> QED  BY <1>1, <1>2, <1>3, <1>4, <1>5, <1>6, <1>7, <1>8, <1>9, <1>10, <1>11, <1>12, <1>13, <1>14, <1>15
         DEF Probe!Next

-----------------------------------------------------------------------------
\* The passkey proof.

\* What the cleanup has seen on the page, and what it has clicked on.
ClickedInv ==
  /\ onPage = "looked" => \E k \in target : k.mark = "run"
  /\ onPage = "dialog" => \A k \in target : k.mark = "run" \/ k \in swapped
  /\ Passkey!OnlyMarkedRemoved

PasskeyInv == IsFiniteSet(passkeys) /\ mode \in {"none", "register", "cleanup"} /\ ClickedInv

\* What changes nothing that was clicked on, and comes to no click.
LEMMA ClickedKept ==
  ASSUME ClickedInv, UNCHANGED Passkey!clicked, onPage' = onPage \/ onPage' \notin {"looked", "dialog"}
  PROVE  ClickedInv'
BY DEF ClickedInv, Passkey!clicked, Passkey!OnlyMarkedRemoved

LEMMA PasskeysFinite ==
  ASSUME IsFiniteSet(passkeys), Passkey!Next \/ UNCHANGED passkeyVars
  PROVE  IsFiniteSet(passkeys')
<1>1. ASSUME NEW mark, Passkey!Made(mark)
      PROVE  IsFiniteSet(passkeys')
  BY <1>1, FS_AddElement DEF Passkey!Made
<1>2. CASE Passkey!ActorAdds \/ Passkey!Registers
  BY <1>1, <1>2 DEF Passkey!ActorAdds, Passkey!Registers
<1>3. CASE Passkey!ActorRemoves
  BY <1>3, FS_RemoveElement DEF Passkey!ActorRemoves
<1>4. CASE Passkey!Names
  <2> DEFINE k == [n |-> numbered, mark |-> "default"]
             named == [k EXCEPT !.mark = "run"]
  <2>1. passkeys' = (passkeys \ {k}) \union {named}
    BY <1>4 DEF Passkey!Names
  <2> HIDE DEF k, named
  <2>2. IsFiniteSet(passkeys \ {k})
    BY FS_RemoveElement
  <2> QED  BY <2>1, <2>2, FS_AddElement
<1>5. CASE Passkey!Deletes
  <2>1. passkeys' = passkeys \ target
    BY <1>5 DEF Passkey!Deletes
  <2> QED  BY <2>1, FS_Difference
<1>6. CASE \/ Passkey!GraphSees \/ Passkey!ModeStarts \/ Passkey!ModeStops \/ Passkey!SignsIn
           \/ Passkey!Looks \/ Passkey!Clicks \/ Passkey!Confirms \/ UNCHANGED passkeyVars
  <2>1. passkeys' = passkeys
    BY <1>6 DEF Passkey!GraphSees, Passkey!ModeStarts, Passkey!ModeStops, Passkey!SignsIn, Passkey!Looks,
           Passkey!Clicks, Passkey!Confirms, Passkey!account, passkeyVars
  <2> QED  BY <2>1
<1> QED  BY <1>2, <1>3, <1>4, <1>5, <1>6 DEF Passkey!Next

LEMMA PasskeyNext ==
  ASSUME PasskeyInv, Passkey!Next \/ UNCHANGED passkeyVars
  PROVE  PasskeyInv'
<1>1. ClickedInv /\ IsFiniteSet(passkeys) /\ mode \in {"none", "register", "cleanup"}
  BY DEF PasskeyInv
<1>2. IsFiniteSet(passkeys')
  BY <1>1, PasskeysFinite
<1>3. CASE \/ Passkey!ActorAdds \/ Passkey!ActorRemoves \/ Passkey!GraphSees \/ Passkey!ModeStarts
           \/ Passkey!ModeStops \/ Passkey!SignsIn \/ Passkey!Registers \/ Passkey!Names
           \/ Passkey!Confirms \/ UNCHANGED passkeyVars
  <2>1. /\ UNCHANGED Passkey!clicked /\ mode' \in {mode, "none", "register", "cleanup"}
        /\ onPage' \in {onPage, mode, "none", "signing in", "naming"}
    BY <1>3 DEF Passkey!ActorAdds, Passkey!ActorRemoves, Passkey!GraphSees, Passkey!ModeStarts,
           Passkey!ModeStops, Passkey!SignsIn, Passkey!Registers, Passkey!Names, Passkey!Confirms,
           Passkey!clicked, passkeyVars
  <2>2. mode' \in {"none", "register", "cleanup"} /\ (onPage' = onPage \/ onPage' \notin {"looked", "dialog"})
    BY <1>1, <2>1
  <2> QED  BY <1>1, <1>2, <2>1, <2>2, ClickedKept DEF PasskeyInv
<1>4. CASE Passkey!Looks
  BY <1>1, <1>2, <1>4 DEF Passkey!Looks, ClickedInv, Passkey!OnlyMarkedRemoved, PasskeyInv
<1>5. CASE Passkey!Clicks
  <2>1. PICK x : passkeys = {x}
    <3>1. Passkey!Cardinality(passkeys) = 1
      BY <1>5 DEF Passkey!Clicks, Passkey!OneButton
    <3>2. Passkey!Cardinality(passkeys) = Cardinality(passkeys)
      BY DEF Passkey!Cardinality, Cardinality
    <3> QED  BY <1>1, <3>1, <3>2, FS_Singleton, Zenon
  <2>2. /\ onPage = "looked" /\ onPage' = "dialog" /\ target' = {x} /\ UNCHANGED <<mode, removed>>
        /\ swapped' = IF {x} = target THEN swapped ELSE swapped \union {x}
    BY <1>5, <2>1 DEF Passkey!Clicks
  <2>3. x.mark = "run" \/ x \in swapped'
    BY <1>1, <2>2 DEF ClickedInv
  <2>4. swapped \subseteq swapped'
    BY <2>2
  <2> QED  BY <1>1, <1>2, <2>2, <2>3, <2>4 DEF ClickedInv, Passkey!OnlyMarkedRemoved, PasskeyInv
<1>6. CASE Passkey!Deletes
  BY <1>1, <1>2, <1>6 DEF Passkey!Deletes, ClickedInv, Passkey!OnlyMarkedRemoved, PasskeyInv
<1> QED  BY <1>3, <1>4, <1>5, <1>6 DEF Passkey!Next

-----------------------------------------------------------------------------
\* The tenant baselines.

Giving == <<<<"give back", "role">>>>
Uploading == <<"upload", "app">>

\* How a step on an object, a read that fails, or a check moves a command.
Moves == Baselines!Abandons \/ (UNCHANGED <<command, ended>> /\ todo' \in {todo, Tail(todo), <<Uploading>> \o Tail(todo)})
Untouched == UNCHANGED <<family, snapshot, role, inToken, returned, absent, deletes, looks, leaked, begun, changes>>

LEMMA RequestMoves ==
  ASSUME NEW x, NEW thing, Baselines!Request(x, thing)
  PROVE  Moves
BY Zenon DEF Baselines!Request, Baselines!Continues, Baselines!StepDone, Moves

LEMMA InBetweenMoves ==
  ASSUME NEW x, NEW thing, Baselines!InBetween(x, thing)
  PROVE  Moves
BY Zenon DEF Baselines!InBetween, Moves

LEMMA OutcomesMove ==
  Baselines!Refuses \/ Baselines!Skips => Moves
BY Zenon DEF Baselines!Refuses, Baselines!Skips, Baselines!Continues, Baselines!StepDone, Moves

LEMMA EnsureMoves ==
  ASSUME NEW x, Baselines!Ensure(x)
  PROVE  Moves
<1>1. CASE Baselines!Refuses \/ Baselines!Skips
  BY <1>1, OutcomesMove
<1>2. CASE /\ UNCHANGED <<failed, command, ended>>
           /\ IF x = "app" THEN Baselines!Uploads(x) ELSE Baselines!StepDone
  <2>1. UNCHANGED <<command, ended>>
    BY <1>2
  <2>2. CASE x = "app" /\ Baselines!Uploads(x)
    <3>1. todo' = <<Uploading>> \o Tail(todo)
      BY <2>2, Zenon DEF Baselines!Uploads, Uploading
    <3> QED  BY <2>1, <3>1, Zenon DEF Moves
  <2>3. CASE Baselines!StepDone
    BY <2>1, <2>3, Zenon DEF Moves, Baselines!StepDone
  <2> QED  BY <1>2, <2>2, <2>3, Zenon
<1>3. CASE Baselines!Abandons
  BY <1>3 DEF Moves
<1> QED  BY <1>1, <1>2, <1>3, Zenon DEF Baselines!Ensure

LEMMA OnObjectMoves ==
  ASSUME Baselines!OnObject
  PROVE  Moves /\ Untouched /\ UNCHANGED rollback /\ Baselines!Step[1] \notin Baselines!OwnActions
<1>1. Untouched /\ UNCHANGED rollback /\ Baselines!Step[1] \notin Baselines!OwnActions
  BY DEF Baselines!OnObject, Untouched, Baselines!permission
<1> DEFINE x == Baselines!Step[2]
<1>2. CASE Baselines!Ensure(x)
  BY <1>1, <1>2, EnsureMoves
<1>3. CASE \/ Baselines!Upload(x) \/ Baselines!Assign(x) \/ Baselines!Overwrite(x) \/ Baselines!EnablePolicy(x)
           \/ Baselines!Include(x)
  BY <1>1, <1>3, RequestMoves, OutcomesMove, Zenon
     DEF Baselines!Upload, Baselines!Assign, Baselines!Overwrite, Baselines!EnablePolicy, Baselines!Include
<1>4. CASE Baselines!Members(x) \/ Baselines!Reassign(x)
  BY <1>1, <1>4, RequestMoves, InBetweenMoves, OutcomesMove, Zenon DEF Baselines!Members, Baselines!Reassign
<1>5. CASE Baselines!RefuseExisting(x) \/ Baselines!ExpectPolicy(x)
  BY <1>1, <1>5, OutcomesMove, Zenon DEF Baselines!RefuseExisting, Baselines!ExpectPolicy
<1>6. CASE Baselines!PatchPasskey(x)
  <2>1. Baselines!Skips \/ Baselines!Refuses \/ Baselines!Continues \/ Baselines!Abandons
    BY <1>6, Zenon DEF Baselines!PatchPasskey
  <2> QED  BY <1>1, <2>1, OutcomesMove, Zenon DEF Moves, Baselines!Continues, Baselines!StepDone
<1> QED  BY <1>2, <1>3, <1>4, <1>5, <1>6, Zenon DEF Baselines!OnObject

LEMMA AbandonsIs ==
  ASSUME Baselines!Abandons
  PROVE  /\ ended' = "failed"
         /\ (returned /\ todo' = Giving /\ command' = command) \/ (~returned /\ todo' = <<>> /\ command' = "none")
BY Zenon DEF Baselines!Abandons, Giving

LEMMA ReadFailsMoves ==
  ASSUME Baselines!ReadFails
  PROVE  Moves /\ Untouched /\ UNCHANGED rollback /\ Baselines!Abandons
BY Zenon DEF Baselines!ReadFails, Moves, Untouched, Baselines!permission

LEMMA VerifyMoves ==
  ASSUME Baselines!Verify
  PROVE  Moves /\ Untouched /\ UNCHANGED rollback
<1>1. Untouched /\ UNCHANGED rollback
  BY DEF Baselines!Verify, Untouched, Baselines!permission
<1> QED  BY <1>1, OutcomesMove, Zenon DEF Baselines!Verify

LEMMA RecordMoves ==
  ASSUME Baselines!Record
  PROVE  Moves /\ Untouched
<1>1. Untouched
  BY DEF Baselines!Record, Untouched, Baselines!permission
<1> QED  BY <1>1, OutcomesMove, Zenon DEF Baselines!Record

LEMMA PermissionMoves ==
  ASSUME Baselines!EnsurePermission
  PROVE  Moves /\ UNCHANGED <<family, absent, deletes>> /\ role' \in {role, "temporary"}
         /\ returned' \in {returned, TRUE}
BY OutcomesMove, Zenon DEF Baselines!EnsurePermission, Baselines!RequestRole, Moves

\* While a temporary permission is assigned and its removal is still due, a command runs
\* that knows of it.
PermInv ==
  /\ absent \in Nat
  /\ role = "temporary" =>
       (Baselines!Doing /\ returned) \/ leaked \in {"unheard", "undelivered", "abandoned"}

LEMMA PermMoves ==
  ASSUME PermInv, Moves, Untouched
  PROVE  PermInv'
<1>1. UNCHANGED <<absent, role, leaked, returned>>
  BY DEF Untouched
<1>2. CASE Baselines!Abandons
  BY <1>1, <1>2, AbandonsIs DEF PermInv, Baselines!Doing
<1>3. CASE UNCHANGED command
  BY <1>1, <1>3 DEF PermInv, Baselines!Doing
<1> QED  BY <1>2, <1>3 DEF Moves

LEMMA PermNext ==
  ASSUME PermInv, Baselines!Next \/ UNCHANGED baselineVars
  PROVE  PermInv'
<1>1. CASE Baselines!OnObject \/ Baselines!ReadFails \/ Baselines!Verify \/ Baselines!Record
  BY <1>1, OnObjectMoves, ReadFailsMoves, VerifyMoves, RecordMoves, PermMoves
<1>2. CASE Baselines!Begin
  <2>1. ~Baselines!Doing /\ role' = role /\ absent' = 0 /\ leaked' = IF role = "temporary" THEN leaked ELSE "no"
    BY <1>2 DEF Baselines!Begin
  <2> QED  BY <2>1 DEF PermInv, Baselines!Doing
<1>3. CASE Baselines!OthersChange \/ UNCHANGED baselineVars
  <2>1. UNCHANGED <<absent, role, leaked, returned, command>>
    BY <1>3 DEF Baselines!OthersChange, Baselines!permission, baselineVars
  <2> QED  BY <2>1 DEF PermInv, Baselines!Doing
<1>4. CASE Baselines!Done
  <2>1. UNCHANGED <<absent, role, leaked, returned>> /\ (returned => command' = command)
    BY <1>4, Zenon DEF Baselines!Done, Baselines!permission
  <2> QED  BY <2>1 DEF PermInv, Baselines!Doing
<1>5. CASE Baselines!Doing /\ Baselines!EnsurePermission
  <2>1. absent' = absent
    BY <1>5 DEF Baselines!EnsurePermission
  <2>2. CASE role' = role /\ returned' = returned /\ leaked' = leaked /\ command' = command
    BY <2>1, <2>2 DEF PermInv, Baselines!Doing
  <2>3. CASE Baselines!Doing /\ returned' = TRUE /\ command' = command
    BY <2>1, <2>3 DEF PermInv, Baselines!Doing
  <2>4. CASE leaked' \in {"unheard", "undelivered"}
    BY <2>1, <2>4 DEF PermInv
  <2>5. CASE UNCHANGED <<role, returned, leaked>> /\ Baselines!Refuses
    BY <2>1, <2>5, AbandonsIs DEF PermInv, Baselines!Doing, Baselines!Refuses
  <2> QED  BY <1>5, <2>2, <2>3, <2>4, <2>5, Zenon DEF Baselines!EnsurePermission, Baselines!RequestRole,
              Baselines!Skips, Baselines!Continues
<1>6. CASE Baselines!GiveBack
  <2>1. leaked' = leaked /\ returned' = returned
    BY <1>6 DEF Baselines!GiveBack
  <2>2. CASE absent' = absent /\ command' = command /\ role' \in {role, "none"}
    BY <2>1, <2>2 DEF PermInv, Baselines!Doing
  <2>3. CASE /\ (role = "none" \/ absent < 4) /\ absent' = absent + 1 /\ role' = role
             /\ absent' = Baselines!Confirmed \/ command' = command
    <3>1. absent' \in Nat
      BY <2>3 DEF PermInv
    <3>2. CASE command' = command
      BY <2>1, <2>3, <3>1, <3>2 DEF PermInv, Baselines!Doing
    <3>3. CASE absent' = Baselines!Confirmed
      <4>1. ~(absent < 4)
        BY <2>3, <3>3 DEF PermInv, Baselines!Confirmed
      <4> QED  BY <2>3, <3>1, <4>1 DEF PermInv
    <3> QED  BY <2>3, <3>2, <3>3
  <2>4. CASE absent' = 0 /\ command' = command /\ role' \in {role, "none"}
    BY <2>1, <2>4 DEF PermInv, Baselines!Doing
  <2> QED  BY <1>6, <2>2, <2>3, <2>4, Zenon DEF Baselines!GiveBack, Baselines!Removed
<1>7. CASE Baselines!GivesUp
  BY <1>7 DEF Baselines!GivesUp, PermInv
<1> QED  BY <1>1, <1>2, <1>3, <1>4, <1>5, <1>6, <1>7, Zenon DEF Baselines!Next, Baselines!Takes

\* The steps that a command of the family can come to.
StepsOf(f) ==
  (UNION {{c[i] : i \in DOMAIN c} : c \in Baselines!Commands(f)}) \union {<<"give back", "role">>, Uploading}

KnownFamilies == {"gsa", "tls", "updates", "entra", "passkey", "product", "student"}
Recording == family \in {"product", "student"}

\* What is to come are steps of the family's commands, in the right order; only the command
\* with a permission gives one back.
TodoInv ==
  /\ family \in KnownFamilies /\ todo \in Seq(StepsOf(family))
  /\ returned => family = "gsa"

LEMMA CommandsAre ==
  /\ Baselines!Commands("gsa") = {Baselines!GlobalSecureAccess}
  /\ Baselines!Commands("tls") = {Baselines!TlsInspection}
  /\ Baselines!Commands("updates") = {Baselines!WindowsUpdate}
  /\ Baselines!Commands("entra") = {Baselines!EntraCreate, Baselines!EntraEnable}
  /\ Baselines!Commands("passkey") = {Baselines!Passkey}
  /\ Baselines!Commands("product") = {Baselines!ProductApply}
  /\ Baselines!Commands("student") = {Baselines!StudentApply}
BY DEF Baselines!Commands

\* The commands, step by step.
LEMMA GsaIs ==
  LET c == Baselines!GlobalSecureAccess IN
  /\ DOMAIN c = 1..12 /\ c[1] = <<"permission", "role">> /\ c[2] = <<"ensure", "group">>
  /\ c[3] = <<"members", "group">> /\ c[4] = <<"reassign", "profile">> /\ c[5] = <<"ensure", "app">>
  /\ c[6] = <<"assign", "app">> /\ c[7] = <<"found", "group">> /\ c[8] = <<"shape", "profile">>
  /\ c[9] = <<"scope", "profile">> /\ c[10] = <<"scope", "group">> /\ c[11] = <<"filled", "app">>
  /\ c[12] = <<"scope", "app">>
BY DEF Baselines!GlobalSecureAccess

LEMMA TlsIs ==
  LET c == Baselines!TlsInspection IN
  /\ DOMAIN c = 1..7 /\ c[1] = <<"ensure", "authority">> /\ c[2] = <<"ensure", "trust">>
  /\ c[3] = <<"ensure", "policy">> /\ c[4] = <<"ensure", "rule">> /\ c[5] = <<"ensure", "filter">>
  /\ c[6] = <<"ensure", "link">> /\ c[7] = <<"ensure", "access">>
BY DEF Baselines!TlsInspection

LEMMA UpdatesIs ==
  LET c == Baselines!WindowsUpdate IN
  /\ DOMAIN c = 1..12 /\ c[1] = <<"ensure", "group">> /\ c[2] = <<"members", "group">>
  /\ c[3] = <<"ensure", "ring">> /\ c[4] = <<"assign", "ring">> /\ c[5] = <<"ensure", "feature">>
  /\ c[6] = <<"include", "feature">> /\ c[7] = <<"found", "group">> /\ c[8] = <<"shape", "ring">>
  /\ c[9] = <<"shape", "feature">> /\ c[10] = <<"scope", "group">> /\ c[11] = <<"scope", "ring">>
  /\ c[12] = <<"scope", "feature">>
BY DEF Baselines!WindowsUpdate

LEMMA EntraCreateIs ==
  LET c == Baselines!EntraCreate IN
  /\ DOMAIN c = 1..6 /\ c[1] = <<"refuse", "one">> /\ c[2] = <<"refuse", "two">>
  /\ c[3] = <<"create", "one">> /\ c[4] = <<"create", "two">> /\ c[5] = <<"staged", "one">>
  /\ c[6] = <<"staged", "two">>
BY DEF Baselines!EntraCreate

LEMMA EntraEnableIs ==
  LET c == Baselines!EntraEnable IN
  /\ DOMAIN c = 1..6 /\ c[1] = <<"expect", "one">> /\ c[2] = <<"expect", "two">>
  /\ c[3] = <<"enable", "one">> /\ c[4] = <<"enable", "two">> /\ c[5] = <<"enabled", "one">>
  /\ c[6] = <<"enabled", "two">>
BY DEF Baselines!EntraEnable

LEMMA PasskeyIs ==
  LET c == Baselines!Passkey IN
  /\ DOMAIN c = 1..2 /\ c[1] = <<"patch", "fido">> /\ c[2] = <<"whole", "fido">>
BY DEF Baselines!Passkey

LEMMA ProductIs ==
  LET c == Baselines!ProductApply IN
  /\ DOMAIN c = 1..3 /\ c[1] = <<"record", "all">> /\ c[2] = <<"overwrite", "product">>
  /\ c[3] = <<"shape", "product">>
BY DEF Baselines!ProductApply

LEMMA StudentIs ==
  LET c == Baselines!StudentApply IN
  /\ DOMAIN c = 1..5 /\ c[1] = <<"record", "all">> /\ c[2] = <<"ensure", "grant">>
  /\ c[3] = <<"ensure", "assignment">> /\ c[4] = <<"shape", "grant">>
  /\ c[5] = <<"shape", "assignment">>
BY DEF Baselines!StudentApply

LEMMA PairIs == \A a, b : <<a, b>>[1] = a /\ <<a, b>>[2] = b
OBVIOUS

\* What a step of a family's commands may be.
Reading(s) == s[1] \in Baselines!Readings
StepFits(f, s) ==
  /\ s[1] = "record" => f \in {"product", "student"}
  /\ s[1] = "permission" => f = "gsa"
  /\ Reading(s) => s[2] \notin {"role", "all"}

\* A command makes each of its objects in one step, those that record do so first, and what
\* reads everything again does so at the end.
Creates(s) == s[1] \in {"ensure", "create"}
OneCreate(c) == \A i, j \in DOMAIN c : Creates(c[i]) /\ Creates(c[j]) /\ c[i][2] = c[j][2] => i = j
ReadsLast(c) == \A i, j \in DOMAIN c : i < j /\ Reading(c[i]) => Reading(c[j])

CommandFits(f, c) ==
  /\ Len(c) \in 2..12 /\ c \in [1..Len(c) -> {c[i] : i \in DOMAIN c}]
  /\ \A i \in DOMAIN c : StepFits(f, c[i])
  /\ f \in {"product", "student"} => c[1][1] = "record"
  /\ ReadsLast(c) /\ OneCreate(c)

\* Where the readings are the steps from one on, they are the last.
LEMMA ReadingsAreLast ==
  ASSUME NEW c, NEW n \in Nat, NEW k \in Nat, DOMAIN c = 1..n,
         \A i \in 1..n : Reading(c[i]) <=> i >= k
  PROVE  ReadsLast(c)
BY DEF ReadsLast

LEMMA FitsGlobalSecureAccess == CommandFits("gsa", Baselines!GlobalSecureAccess)
<1> DEFINE c == Baselines!GlobalSecureAccess
<1>1. Len(c) = 12 /\ c \in [1..12 -> {c[i] : i \in DOMAIN c}]
  BY DEF Baselines!GlobalSecureAccess
<1>2. DOMAIN c = 1..12
  BY GsaIs
<1>3. ASSUME NEW i \in 1..12
      PROVE  i = 1 \/ i = 2 \/ i = 3 \/ i = 4 \/ i = 5 \/ i = 6 \/ i = 7 \/ i = 8
         \/ i = 9 \/ i = 10 \/ i = 11 \/ i = 12
  OBVIOUS
<1>4. ASSUME NEW i \in 1..12
      PROVE  StepFits("gsa", c[i]) /\ (Reading(c[i]) <=> i >= 7)
  BY <1>3, GsaIs DEF StepFits, Reading, Baselines!Readings
<1>5. ASSUME NEW i \in DOMAIN c, Creates(c[i])
      PROVE  \/ i = 2 /\ c[i][2] = "group"
             \/ i = 5 /\ c[i][2] = "app"
  BY <1>2, <1>3, <1>5, GsaIs DEF Creates
<1>6. OneCreate(c)
  BY <1>5 DEF OneCreate
<1>7. ReadsLast(c)
  BY <1>2, <1>4, ReadingsAreLast
<1>8. Len(c) \in 2..12
  BY <1>1
<1> QED  BY <1>1, <1>2, <1>4, <1>6, <1>7, <1>8 DEF CommandFits

LEMMA FitsTlsInspection == CommandFits("tls", Baselines!TlsInspection)
<1> DEFINE c == Baselines!TlsInspection
<1>1. Len(c) = 7 /\ c \in [1..7 -> {c[i] : i \in DOMAIN c}]
  BY DEF Baselines!TlsInspection
<1>2. DOMAIN c = 1..7
  BY TlsIs
<1>3. ASSUME NEW i \in 1..7
      PROVE  i = 1 \/ i = 2 \/ i = 3 \/ i = 4 \/ i = 5 \/ i = 6 \/ i = 7
  OBVIOUS
<1>4. ASSUME NEW i \in 1..7
      PROVE  StepFits("tls", c[i]) /\ (Reading(c[i]) <=> i >= 8)
  BY <1>3, TlsIs DEF StepFits, Reading, Baselines!Readings
<1>5. ASSUME NEW i \in DOMAIN c, Creates(c[i])
      PROVE  \/ i = 1 /\ c[i][2] = "authority"
             \/ i = 2 /\ c[i][2] = "trust"
             \/ i = 3 /\ c[i][2] = "policy"
             \/ i = 4 /\ c[i][2] = "rule"
             \/ i = 5 /\ c[i][2] = "filter"
             \/ i = 6 /\ c[i][2] = "link"
             \/ i = 7 /\ c[i][2] = "access"
  BY <1>2, <1>3, <1>5, TlsIs DEF Creates
<1>6. OneCreate(c)
  BY <1>5 DEF OneCreate
<1>7. ReadsLast(c)
  BY <1>2, <1>4, ReadingsAreLast
<1>8. Len(c) \in 2..12
  BY <1>1
<1> QED  BY <1>1, <1>2, <1>4, <1>6, <1>7, <1>8 DEF CommandFits

LEMMA FitsWindowsUpdate == CommandFits("updates", Baselines!WindowsUpdate)
<1> DEFINE c == Baselines!WindowsUpdate
<1>1. Len(c) = 12 /\ c \in [1..12 -> {c[i] : i \in DOMAIN c}]
  BY DEF Baselines!WindowsUpdate
<1>2. DOMAIN c = 1..12
  BY UpdatesIs
<1>3. ASSUME NEW i \in 1..12
      PROVE  i = 1 \/ i = 2 \/ i = 3 \/ i = 4 \/ i = 5 \/ i = 6 \/ i = 7 \/ i = 8
         \/ i = 9 \/ i = 10 \/ i = 11 \/ i = 12
  OBVIOUS
<1>4. ASSUME NEW i \in 1..12
      PROVE  StepFits("updates", c[i]) /\ (Reading(c[i]) <=> i >= 7)
  BY <1>3, UpdatesIs DEF StepFits, Reading, Baselines!Readings
<1>5. ASSUME NEW i \in DOMAIN c, Creates(c[i])
      PROVE  \/ i = 1 /\ c[i][2] = "group"
             \/ i = 3 /\ c[i][2] = "ring"
             \/ i = 5 /\ c[i][2] = "feature"
  BY <1>2, <1>3, <1>5, UpdatesIs DEF Creates
<1>6. OneCreate(c)
  BY <1>5 DEF OneCreate
<1>7. ReadsLast(c)
  BY <1>2, <1>4, ReadingsAreLast
<1>8. Len(c) \in 2..12
  BY <1>1
<1> QED  BY <1>1, <1>2, <1>4, <1>6, <1>7, <1>8 DEF CommandFits

LEMMA FitsEntraCreate == CommandFits("entra", Baselines!EntraCreate)
<1> DEFINE c == Baselines!EntraCreate
<1>1. Len(c) = 6 /\ c \in [1..6 -> {c[i] : i \in DOMAIN c}]
  BY DEF Baselines!EntraCreate
<1>2. DOMAIN c = 1..6
  BY EntraCreateIs
<1>3. ASSUME NEW i \in 1..6
      PROVE  i = 1 \/ i = 2 \/ i = 3 \/ i = 4 \/ i = 5 \/ i = 6
  OBVIOUS
<1>4. ASSUME NEW i \in 1..6
      PROVE  StepFits("entra", c[i]) /\ (Reading(c[i]) <=> i >= 5)
  BY <1>3, EntraCreateIs DEF StepFits, Reading, Baselines!Readings
<1>5. ASSUME NEW i \in DOMAIN c, Creates(c[i])
      PROVE  \/ i = 3 /\ c[i][2] = "one"
             \/ i = 4 /\ c[i][2] = "two"
  BY <1>2, <1>3, <1>5, EntraCreateIs DEF Creates
<1>6. OneCreate(c)
  BY <1>5 DEF OneCreate
<1>7. ReadsLast(c)
  BY <1>2, <1>4, ReadingsAreLast
<1>8. Len(c) \in 2..12
  BY <1>1
<1> QED  BY <1>1, <1>2, <1>4, <1>6, <1>7, <1>8 DEF CommandFits

LEMMA FitsEntraEnable == CommandFits("entra", Baselines!EntraEnable)
<1> DEFINE c == Baselines!EntraEnable
<1>1. Len(c) = 6 /\ c \in [1..6 -> {c[i] : i \in DOMAIN c}]
  BY DEF Baselines!EntraEnable
<1>2. DOMAIN c = 1..6
  BY EntraEnableIs
<1>3. ASSUME NEW i \in 1..6
      PROVE  i = 1 \/ i = 2 \/ i = 3 \/ i = 4 \/ i = 5 \/ i = 6
  OBVIOUS
<1>4. ASSUME NEW i \in 1..6
      PROVE  StepFits("entra", c[i]) /\ (Reading(c[i]) <=> i >= 5)
  BY <1>3, EntraEnableIs DEF StepFits, Reading, Baselines!Readings
<1>5. ASSUME NEW i \in DOMAIN c, Creates(c[i])
      PROVE  FALSE
  BY <1>2, <1>3, <1>5, EntraEnableIs DEF Creates
<1>6. OneCreate(c)
  BY <1>5 DEF OneCreate
<1>7. ReadsLast(c)
  BY <1>2, <1>4, ReadingsAreLast
<1>8. Len(c) \in 2..12
  BY <1>1
<1> QED  BY <1>1, <1>2, <1>4, <1>6, <1>7, <1>8 DEF CommandFits

LEMMA FitsPasskey == CommandFits("passkey", Baselines!Passkey)
<1> DEFINE c == Baselines!Passkey
<1>1. Len(c) = 2 /\ c \in [1..2 -> {c[i] : i \in DOMAIN c}]
  BY DEF Baselines!Passkey
<1>2. DOMAIN c = 1..2
  BY PasskeyIs
<1>3. ASSUME NEW i \in 1..2
      PROVE  i = 1 \/ i = 2
  OBVIOUS
<1>4. ASSUME NEW i \in 1..2
      PROVE  StepFits("passkey", c[i]) /\ (Reading(c[i]) <=> i >= 2)
  BY <1>3, PasskeyIs DEF StepFits, Reading, Baselines!Readings
<1>5. ASSUME NEW i \in DOMAIN c, Creates(c[i])
      PROVE  FALSE
  BY <1>2, <1>3, <1>5, PasskeyIs DEF Creates
<1>6. OneCreate(c)
  BY <1>5 DEF OneCreate
<1>7. ReadsLast(c)
  BY <1>2, <1>4, ReadingsAreLast
<1>8. Len(c) \in 2..12
  BY <1>1
<1> QED  BY <1>1, <1>2, <1>4, <1>6, <1>7, <1>8 DEF CommandFits

LEMMA FitsProductApply == CommandFits("product", Baselines!ProductApply)
<1> DEFINE c == Baselines!ProductApply
<1>1. Len(c) = 3 /\ c \in [1..3 -> {c[i] : i \in DOMAIN c}]
  BY DEF Baselines!ProductApply
<1>2. DOMAIN c = 1..3
  BY ProductIs
<1>3. ASSUME NEW i \in 1..3
      PROVE  i = 1 \/ i = 2 \/ i = 3
  OBVIOUS
<1>4. ASSUME NEW i \in 1..3
      PROVE  StepFits("product", c[i]) /\ (Reading(c[i]) <=> i >= 3)
  BY <1>3, ProductIs DEF StepFits, Reading, Baselines!Readings
<1>5. ASSUME NEW i \in DOMAIN c, Creates(c[i])
      PROVE  FALSE
  BY <1>2, <1>3, <1>5, ProductIs DEF Creates
<1>6. OneCreate(c)
  BY <1>5 DEF OneCreate
<1>7. ReadsLast(c)
  BY <1>2, <1>4, ReadingsAreLast
<1>8. Len(c) \in 2..12 /\ c[1][1] = "record"
  BY <1>1, ProductIs
<1> QED  BY <1>1, <1>2, <1>4, <1>6, <1>7, <1>8 DEF CommandFits

LEMMA FitsStudentApply == CommandFits("student", Baselines!StudentApply)
<1> DEFINE c == Baselines!StudentApply
<1>1. Len(c) = 5 /\ c \in [1..5 -> {c[i] : i \in DOMAIN c}]
  BY DEF Baselines!StudentApply
<1>2. DOMAIN c = 1..5
  BY StudentIs
<1>3. ASSUME NEW i \in 1..5
      PROVE  i = 1 \/ i = 2 \/ i = 3 \/ i = 4 \/ i = 5
  OBVIOUS
<1>4. ASSUME NEW i \in 1..5
      PROVE  StepFits("student", c[i]) /\ (Reading(c[i]) <=> i >= 4)
  BY <1>3, StudentIs DEF StepFits, Reading, Baselines!Readings
<1>5. ASSUME NEW i \in DOMAIN c, Creates(c[i])
      PROVE  \/ i = 2 /\ c[i][2] = "grant"
             \/ i = 3 /\ c[i][2] = "assignment"
  BY <1>2, <1>3, <1>5, StudentIs DEF Creates
<1>6. OneCreate(c)
  BY <1>5 DEF OneCreate
<1>7. ReadsLast(c)
  BY <1>2, <1>4, ReadingsAreLast
<1>8. Len(c) \in 2..12 /\ c[1][1] = "record"
  BY <1>1, StudentIs
<1> QED  BY <1>1, <1>2, <1>4, <1>6, <1>7, <1>8 DEF CommandFits

LEMMA CommandsFit ==
  ASSUME NEW f \in KnownFamilies, NEW c \in Baselines!Commands(f)
  PROVE  CommandFits(f, c)
BY CommandsAre, FitsGlobalSecureAccess, FitsTlsInspection, FitsWindowsUpdate, FitsEntraCreate, FitsEntraEnable,
   FitsPasskey, FitsProductApply, FitsStudentApply, Zenon DEF KnownFamilies

LEMMA StepsOfFit ==
  ASSUME NEW f \in KnownFamilies, NEW s \in StepsOf(f)
  PROVE  StepFits(f, s)
<1>1. CASE s = <<"give back", "role">> \/ s = Uploading
  <2>1. s[1] = "give back" \/ s[1] = "upload"
    BY <1>1, PairIs, Zenon DEF Uploading
  <2>2. ~Reading(s)
    BY <2>1 DEF Reading, Baselines!Readings
  <2> QED  BY <2>1, <2>2, Zenon DEF StepFits
<1>2. CASE \E c \in Baselines!Commands(f) : \E i \in DOMAIN c : s = c[i]
  BY <1>2, CommandsFit, Zenon DEF CommandFits
<1> QED  BY <1>1, <1>2, Zenon DEF StepsOf

LEMMA CommandIsSeq ==
  ASSUME NEW f \in KnownFamilies, NEW c \in Baselines!Commands(f)
  PROVE  c \in Seq(StepsOf(f)) /\ c # <<>>
<1>1. Len(c) \in 2..12 /\ c \in [1..Len(c) -> {c[i] : i \in DOMAIN c}]
  BY CommandsFit DEF CommandFits
<1>2. {c[i] : i \in DOMAIN c} \subseteq StepsOf(f)
  BY Zenon DEF StepsOf
<1> DEFINE S == StepsOf(f)
           T == {c[i] : i \in DOMAIN c}
<1> HIDE DEF S, T
<1>3. c \in Seq(S)
  <2>1. c \in [1..Len(c) -> S] /\ Len(c) \in Nat
    BY <1>1, <1>2 DEF S, T
  <2> QED  BY <2>1
<1> QED  BY <1>1, <1>3 DEF S

LEMMA OwnSteps == \A f : <<"give back", "role">> \in StepsOf(f) /\ Uploading \in StepsOf(f)
BY Zenon DEF StepsOf

LEMMA OneStep == \A S : \A g \in S : <<g>> \in Seq(S)
OBVIOUS

LEMMA GivingIs ==
  ASSUME NEW S, <<"give back", "role">> \in S
  PROVE  Giving \in Seq(S)
BY OneStep, Zenon DEF Giving

LEMMA MovesTodo ==
  ASSUME TodoInv, Moves, todo # <<>>, family' = family
  PROVE  todo' \in Seq(StepsOf(family'))
<1> DEFINE S == StepsOf(family)
<1>1. Uploading \in S /\ todo \in Seq(S) /\ Giving \in Seq(S)
  BY OwnSteps, GivingIs DEF TodoInv
<1> HIDE DEF S
<1>2. <<>> \in Seq(S) /\ Tail(todo) \in Seq(S)
  BY <1>1
<1>3. <<Uploading>> \o Tail(todo) \in Seq(S)
  BY <1>1, <1>2
<1>4. todo' \in {todo, Giving, <<>>, Tail(todo), <<Uploading>> \o Tail(todo)}
  BY AbandonsIs DEF Moves
<1> QED  BY <1>1, <1>2, <1>3, <1>4 DEF S

LEMMA HeadIs ==
  ASSUME TodoInv, todo # <<>>
  PROVE  /\ Baselines!Step \in StepsOf(family) /\ StepFits(family, Baselines!Step)
         /\ Baselines!Step = todo[1] /\ 1 \in DOMAIN todo
<1> DEFINE S == StepsOf(family)
<1>1. todo \in Seq(S)
  BY DEF TodoInv
<1>2. Head(todo) \in S /\ Head(todo) = todo[1] /\ 1 \in DOMAIN todo
  <2> HIDE DEF S
  <2> QED  BY <1>1
<1> QED  BY <1>2, StepsOfFit DEF TodoInv, Baselines!Step

LEMMA TodoNext ==
  ASSUME TodoInv, Baselines!Next \/ UNCHANGED baselineVars
  PROVE  TodoInv'
<1>1. ASSUME Moves, todo # <<>>, UNCHANGED <<family, returned>>
      PROVE  TodoInv'
  BY <1>1, MovesTodo DEF TodoInv
<1>2. ASSUME UNCHANGED <<family, returned>>, todo' \in {todo, <<>>, Giving}
      PROVE  TodoInv'
  <2> DEFINE S == StepsOf(family)
  <2>1. Giving \in Seq(S) /\ todo \in Seq(S)
    BY OwnSteps, GivingIs DEF TodoInv
  <2>2. todo' \in Seq(S)
    <3>1. <<>> \in Seq(S)
      OBVIOUS
    <3> QED  BY <1>2, <2>1, <3>1, Zenon
  <2> QED  BY <1>2, <2>2 DEF TodoInv
<1>3. CASE todo # <<>> /\ (Baselines!OnObject \/ Baselines!ReadFails \/ Baselines!Verify \/ Baselines!Record)
  BY <1>1, <1>3, OnObjectMoves, ReadFailsMoves, VerifyMoves, RecordMoves DEF Untouched
<1>4. CASE Baselines!Begin
  <2>1. family' = family /\ returned' = FALSE /\ todo' \in Baselines!Commands(family)
    BY <1>4 DEF Baselines!Begin
  <2> QED  BY <2>1, CommandIsSeq DEF TodoInv
<1>5. CASE todo # <<>> /\ Baselines!EnsurePermission
  <2>1. family' = family /\ (returned' = returned \/ returned' = TRUE) /\ Moves
    BY <1>5, PermissionMoves
  <2>2. family = "gsa"
    BY <1>5, HeadIs DEF Baselines!EnsurePermission, StepFits
  <2>3. todo' \in Seq(StepsOf(family'))
    BY <1>5, <2>1, MovesTodo
  <2> QED  BY <2>1, <2>2, <2>3 DEF TodoInv
<1>6. CASE Baselines!GiveBack \/ Baselines!GivesUp \/ Baselines!Done \/ Baselines!OthersChange
           \/ UNCHANGED baselineVars
  <2>1. UNCHANGED <<family, returned>> /\ todo' \in {todo, <<>>, Giving}
    BY <1>6, Zenon DEF Baselines!GiveBack, Baselines!GivesUp, Baselines!Done, Baselines!OthersChange, baselineVars,
         Baselines!permission, Giving
  <2> QED  BY <1>2, <2>1
<1> QED  BY <1>3, <1>4, <1>5, <1>6 DEF Baselines!Next, Baselines!Takes

\* The record of the state before is made before the first change.
RecordInv ==
  /\ rollback # "tainted"
  /\ Recording /\ rollback = "none" => ~changed /\ (todo = <<>> \/ todo \in Baselines!Commands(family))

LEMMA RecordIsFirst ==
  ASSUME TodoInv, Recording, todo \in Baselines!Commands(family)
  PROVE  Baselines!Step[1] = "record" /\ ~returned
<1>1. todo[1][1] = "record"
  BY CommandsFit DEF CommandFits, Recording, KnownFamilies
<1>2. todo # <<>>
  BY CommandIsSeq DEF TodoInv
<1> QED  BY <1>1, <1>2, HeadIs DEF TodoInv, Recording

LEMMA RecordNext ==
  ASSUME TodoInv, RecordInv, Baselines!Next \/ UNCHANGED baselineVars
  PROVE  RecordInv'
<1>1. ASSUME ~(Recording /\ rollback = "none"), UNCHANGED <<family, rollback>>
      PROVE  RecordInv'
  BY <1>1 DEF RecordInv, Recording
<1>2. ASSUME UNCHANGED <<family, rollback, changed>>, todo' \in {todo, <<>>}
      PROVE  RecordInv'
  BY <1>2 DEF RecordInv, Recording
<1>3. CASE todo # <<>> /\ (Baselines!OnObject \/ Baselines!Verify \/ Baselines!EnsurePermission)
  <2>1. Baselines!Step[1] # "record" /\ UNCHANGED <<family, rollback>>
    BY <1>3, OnObjectMoves, VerifyMoves
       DEF Untouched, Baselines!OwnActions, Baselines!Readings, Baselines!Verify, Baselines!EnsurePermission
  <2>2. ~(Recording /\ rollback = "none")
    BY <1>3, <2>1, RecordIsFirst DEF RecordInv
  <2> QED  BY <1>1, <2>1, <2>2
<1>4. CASE todo # <<>> /\ Baselines!ReadFails
  <2>1. UNCHANGED <<family, rollback, changed>> /\ Baselines!Abandons
    BY <1>4 DEF Baselines!ReadFails, Baselines!Leaves
  <2>2. CASE Recording /\ rollback = "none"
    <3>1. ~returned
      BY <1>4, <2>2, RecordIsFirst DEF RecordInv
    <3> QED  BY <1>2, <2>1, <3>1, AbandonsIs
  <2> QED  BY <1>1, <2>1, <2>2
<1>5. CASE todo # <<>> /\ Baselines!Record
  <2>1. family' = family /\ rollback' = Baselines!Recorded /\ Recording
    BY <1>5, HeadIs DEF Baselines!Record, StepFits, Recording
  <2>2. CASE rollback # "none"
    BY <2>1, <2>2 DEF RecordInv, Baselines!Recorded, Recording
  <2>3. CASE rollback = "none"
    <3>1. rollback' = "original"
      BY <2>1, <2>3 DEF RecordInv, Baselines!Recorded
    <3> QED  BY <3>1 DEF RecordInv
  <2> QED  BY <2>2, <2>3
<1>6. CASE Baselines!Begin
  BY <1>6 DEF Baselines!Begin, RecordInv, Recording
<1>7. CASE todo # <<>> /\ (Baselines!GiveBack \/ Baselines!GivesUp)
  <2>1. UNCHANGED <<family, rollback, changed>> /\ todo' \in {todo, <<>>}
    BY <1>7, Zenon DEF Baselines!GiveBack, Baselines!GivesUp
  <2> QED  BY <1>2, <2>1
<1>8. CASE Baselines!Done
  <2>1. UNCHANGED <<family, rollback, changed>> /\ (~returned => todo' = todo)
    BY <1>8, Zenon DEF Baselines!Done
  <2>2. Recording => ~returned
    BY DEF Recording, TodoInv
  <2> QED  BY <1>1, <1>2, <2>1, <2>2
<1>9. CASE Baselines!OthersChange \/ UNCHANGED baselineVars
  <2>1. UNCHANGED <<family, rollback, changed, todo>>
    BY <1>9 DEF Baselines!OthersChange, baselineVars
  <2> QED  BY <1>2, <2>1
<1> QED  BY <1>3, <1>4, <1>5, <1>6, <1>7, <1>8, <1>9 DEF Baselines!Next, Baselines!Takes

LEMMA FamilyIs ==
  ASSUME Init
  PROVE  family \in KnownFamilies
BY OperatorSideAssumption DEF Init, Baselines!Init, KnownFamilies

\* Whatever step of a command fails: Kobe is a member again, unless his membership could
\* not be read, the restoration failed or a removal landed late; no temporary permission
\* stays but one whose request failed, that the tokens never carried or whose removal was
\* given up; a rollback record that was written tells the state before; no branch and no
\* confirmed deploy key stays whose removal is not reported as failed; and no passkey was
\* deleted but a marked one, unless the passkeys were exchanged between look and click.
THEOREM AllIsGivenBack == Spec => []GivenBack
<1> DEFINE Inv == /\ CycleInv /\ PermInv /\ TodoInv /\ RecordInv /\ ProbeNumbers /\ ProbeInv
                  /\ PasskeyInv
<1>1. Init => Inv
  <2>1. ASSUME Init
        PROVE  PermInv /\ TodoInv /\ RecordInv
    <3>1. Baselines!Init /\ family \in KnownFamilies
      BY <2>1, FamilyIs DEF Init
    <3>2. role # "temporary" /\ absent = 0 /\ returned = FALSE /\ todo = <<>> /\ rollback = "none" /\ changed = FALSE
      BY <3>1 DEF Baselines!Init
    <3>3. todo \in Seq(StepsOf(family))
      BY <3>2
    <3> QED  BY <3>1, <3>2, <3>3 DEF PermInv, TodoInv, RecordInv
  <2>2. ASSUME Init
        PROVE  ProbeNumbers /\ ProbeInv
    BY <2>2 DEF Init, Probe!Init, ProbeNumbers, ProbeInv
  <2>3. ASSUME Init
        PROVE  PasskeyInv
    BY <2>3, FS_EmptySet DEF Init, Passkey!Init, PasskeyInv, ClickedInv, Passkey!OnlyMarkedRemoved
  <2> QED  BY <2>1, <2>2, <2>3, CycleInit
<1>2. Inv /\ [Next]_operatorVars => Inv'
  BY EachSteps, CycleNext, PermNext, TodoNext, RecordNext, ProbesNext, ProbeNext, PasskeyNext
<1>3. Inv => GivenBack
  <2>1. ASSUME PermInv
        PROVE  Baselines!PermissionGivenBack
    BY <2>1 DEF PermInv, Baselines!PermissionGivenBack
  <2>2. ASSUME ProbeInv
        PROVE  Probe!ProbeLeavesNothing
    BY <2>2 DEF ProbeInv, Probe!ProbeLeavesNothing
  <2> QED  BY <2>1, <2>2, CyclePromises DEF GivenBack, RecordInv, Baselines!RollbackKept, PasskeyInv, ClickedInv
<1> QED  BY <1>1, <1>2, <1>3, PTL DEF Spec

-----------------------------------------------------------------------------
\* What a command of the baselines leaves.

LEMMA GivingFirst == Giving # <<>> /\ Giving[1][1] = "give back"
<1> DEFINE g == <<"give back", "role">>
<1>1. Giving = <<g>> /\ g[1] = "give back"
  BY PairIs, Zenon DEF Giving
<1> HIDE DEF g
<1>2. <<g>>[1] = g /\ <<g>> # <<>>
  OBVIOUS
<1> QED  BY <1>1, <1>2, Zenon

\* What a command has yet to make: what is missing, it has not made before.
Things == [n : 0..2, right : BOOLEAN, rest : BOOLEAN, scope : SUBSET {"own", "other"}]
ToMake(c, x) == \E i \in DOMAIN c : Creates(c[i]) /\ c[i][2] = x

MadeTyped ==
  /\ tenant \in [Baselines!Objects -> Things] /\ snapshot \in [Baselines!Objects -> Things]
  /\ born \in [Baselines!Objects -> {0, 1}]
MissingInv == \A x \in Baselines!Objects : tenant[x].n = 0 => born[x] = 0
AheadInv ==
  /\ OneCreate(todo)
  /\ Baselines!ReadsOnce(family) =>
       \A x \in Baselines!Objects : ToMake(todo, x) /\ snapshot[x].n = 0 => born[x] = 0

LEMMA FieldsOf ==
  ASSUME NEW t \in Things
  PROVE  /\ [t EXCEPT !.n = 2] \in Things /\ [t EXCEPT !.n = 2].n = 2
         /\ \A b \in BOOLEAN : [t EXCEPT !.rest = b] \in Things /\ [t EXCEPT !.rest = b].n = t.n
         /\ \A b \in BOOLEAN : [t EXCEPT !.right = b] \in Things /\ [t EXCEPT !.right = b].n = t.n
         /\ \A s \in SUBSET {"own", "other"} : [t EXCEPT !.scope = s] \in Things /\ [t EXCEPT !.scope = s].n = t.n
         /\ t.scope \in SUBSET {"own", "other"}
BY DEF Things

LEMMA FirstThings ==
  /\ Baselines!None \in Things /\ Baselines!None.n = 0
  /\ Baselines!Created \in Things /\ Baselines!Created.n = 1
BY DEF Things, Baselines!None, Baselines!Created

\* The rest of a sequence of steps, also with an upload before it.
LEMMA RestIs ==
  ASSUME NEW S, NEW c \in Seq(S), c # <<>>
  PROVE  /\ \A i \in DOMAIN Tail(c) : i + 1 \in DOMAIN c /\ i + 1 # 1 /\ Tail(c)[i] = c[i + 1]
         /\ \A i, j \in DOMAIN Tail(c) : i + 1 = j + 1 => i = j
         /\ 1 \in DOMAIN c /\ c[1] = Head(c)
<1>1. DOMAIN Tail(c) = 1..(Len(c) - 1) /\ DOMAIN c = 1..Len(c) /\ Len(c) \in Nat
  OBVIOUS
<1>2. \A i \in 1..(Len(c) - 1) : Tail(c)[i] = c[i + 1]
  OBVIOUS
<1>3. 1 \in DOMAIN c /\ c[1] = Head(c)
  OBVIOUS
<1>4. \A i \in 1..(Len(c) - 1) : i + 1 \in 1..Len(c) /\ i + 1 # 1
  BY <1>1
<1>5. \A i, j \in 1..(Len(c) - 1) : i + 1 = j + 1 => i = j
  BY <1>1
<1> QED  BY <1>1, <1>2, <1>3, <1>4, <1>5, Zenon

LEMMA RestWithUpload ==
  ASSUME NEW S, NEW c \in Seq(S), c # <<>>, NEW u \in S, NEW i \in DOMAIN (<<u>> \o Tail(c))
  PROVE  \/ i = 1 /\ (<<u>> \o Tail(c))[i] = u
         \/ i # 1 /\ i \in DOMAIN c /\ (<<u>> \o Tail(c))[i] = c[i]
<1> DEFINE t == Tail(c)
           d == <<u>> \o t
<1>1. t \in Seq(S) /\ Len(t) = Len(c) - 1 /\ Len(c) \in Nat /\ Len(c) # 0 /\ DOMAIN c = 1..Len(c)
      /\ \A k \in 1..(Len(c) - 1) : t[k] = c[k + 1]
  OBVIOUS
<1>2. <<u>> \in Seq(S) /\ Len(<<u>>) = 1 /\ <<u>>[1] = u
  OBVIOUS
<1> HIDE DEF t
<1>3. d \in Seq(S) /\ Len(d) = 1 + Len(t) /\ DOMAIN d = 1..(1 + Len(t))
  BY <1>1, <1>2, ConcatProperties, LenProperties
<1>4. d[1] = u /\ \A k \in 2..(1 + Len(t)) : d[k] = t[k - 1]
  BY <1>1, <1>2, ConcatProperties
<1>5. i \in 1..Len(c)
  BY <1>1, <1>3 DEF t
<1>6. CASE i = 1
  BY <1>4, <1>6 DEF t
<1>7. CASE i # 1
  <2>1. i \in 2..Len(c) /\ i - 1 \in 1..(Len(c) - 1) /\ (i - 1) + 1 = i
    BY <1>1, <1>5, <1>7
  <2>2. d[i] = t[i - 1] /\ t[i - 1] = c[i]
    BY <1>1, <1>4, <2>1
  <2> QED  BY <1>1, <1>5, <1>7, <2>2 DEF t
<1> QED  BY <1>6, <1>7

LEMMA NothingToMake ==
  /\ OneCreate(<<>>) /\ \A x : ~ToMake(<<>>, x)
  /\ OneCreate(Giving) /\ \A x : ~ToMake(Giving, x)
  /\ ~Creates(Uploading)
<1>1. DOMAIN Giving = {1}
  <2>1. \A g : DOMAIN <<g>> = {1}
    OBVIOUS
  <2> QED  BY <2>1, Zenon DEF Giving
<1>2. \A i \in DOMAIN Giving : ~Creates(Giving[i])
  BY <1>1, GivingFirst DEF Creates
<1>3. OneCreate(Giving) /\ \A x : ~ToMake(Giving, x)
  BY <1>2, Zenon DEF OneCreate, ToMake
<1>4. DOMAIN <<>> = {}
  OBVIOUS
<1>5. OneCreate(<<>>) /\ \A x : ~ToMake(<<>>, x)
  BY <1>4 DEF OneCreate, ToMake
<1>6. ~Creates(Uploading)
  BY DEF Creates, Uploading
<1> QED  BY <1>3, <1>5, <1>6

LEMMA RestToMake ==
  ASSUME NEW S, NEW c \in Seq(S), c # <<>>, OneCreate(c)
  PROVE  /\ OneCreate(Tail(c)) /\ \A x : ToMake(Tail(c), x) => ToMake(c, x)
         /\ Creates(Head(c)) => ~ToMake(Tail(c), Head(c)[2]) /\ ToMake(c, Head(c)[2])
<1>1. OneCreate(Tail(c))
  <2>1. ASSUME NEW i \in DOMAIN Tail(c), NEW j \in DOMAIN Tail(c),
               Creates(Tail(c)[i]), Creates(Tail(c)[j]), Tail(c)[i][2] = Tail(c)[j][2]
        PROVE  i = j
    <3>1. i + 1 \in DOMAIN c /\ j + 1 \in DOMAIN c /\ Tail(c)[i] = c[i + 1] /\ Tail(c)[j] = c[j + 1]
      BY RestIs, Zenon
    <3>2. i + 1 = j + 1
      BY <2>1, <3>1, Zenon DEF OneCreate
    <3> QED  BY <3>2, RestIs, Zenon
  <2> QED  BY <2>1, Zenon DEF OneCreate
<1>2. ASSUME NEW x, ToMake(Tail(c), x)
      PROVE  ToMake(c, x) /\ ~(Creates(Head(c)) /\ Head(c)[2] = x)
  <2>1. PICK i \in DOMAIN Tail(c) : Creates(Tail(c)[i]) /\ Tail(c)[i][2] = x
    BY <1>2, Zenon DEF ToMake
  <2>2. i + 1 \in DOMAIN c /\ Creates(c[i + 1]) /\ c[i + 1][2] = x /\ i + 1 # 1 /\ 1 \in DOMAIN c /\ c[1] = Head(c)
    BY <2>1, RestIs, Zenon
  <2> QED  BY <2>2, Zenon DEF ToMake, OneCreate
<1>3. Creates(Head(c)) => ToMake(c, Head(c)[2])
  BY RestIs, Zenon DEF ToMake
<1> QED  BY <1>1, <1>2, <1>3, Zenon

LEMMA RestToMakeWithUpload ==
  ASSUME NEW S, NEW c \in Seq(S), c # <<>>, OneCreate(c), NEW u \in S, ~Creates(u)
  PROVE  /\ OneCreate(<<u>> \o Tail(c)) /\ \A x : ToMake(<<u>> \o Tail(c), x) => ToMake(c, x)
         /\ Creates(Head(c)) => ~ToMake(<<u>> \o Tail(c), Head(c)[2])
<1> DEFINE d == <<u>> \o Tail(c)
<1>1. ASSUME NEW i \in DOMAIN d, Creates(d[i])
      PROVE  i # 1 /\ i \in DOMAIN c /\ d[i] = c[i]
  <2>1. (i = 1 /\ d[i] = u) \/ (i # 1 /\ i \in DOMAIN c /\ d[i] = c[i])
    BY RestWithUpload
  <2> HIDE DEF d
  <2>2. CASE i = 1 /\ d[i] = u
    <3>1. Creates(u)
      BY <1>1, <2>2, Zenon
    <3> QED  BY <3>1
  <2> QED  BY <2>1, <2>2, Zenon
<1> HIDE DEF d
<1>2. OneCreate(d)
  BY <1>1, Zenon DEF OneCreate
<1>3. ASSUME NEW x, ToMake(d, x)
      PROVE  ToMake(c, x) /\ ~(Creates(Head(c)) /\ Head(c)[2] = x)
  <2>1. PICK i \in DOMAIN d : Creates(d[i]) /\ d[i][2] = x
    BY <1>3, Zenon DEF ToMake
  <2>2. i # 1 /\ i \in DOMAIN c /\ d[i] = c[i]
    BY <1>1, <2>1
  <2>3. 1 \in DOMAIN c /\ c[1] = Head(c)
    BY RestIs, Zenon
  <2> QED  BY <2>1, <2>2, <2>3, Zenon DEF ToMake, OneCreate
<1> QED  BY <1>2, <1>3, Zenon DEF d

LEMMA MovesToMake ==
  ASSUME TodoInv, todo # <<>>, OneCreate(todo), Moves
  PROVE  OneCreate(todo') /\ \A x : ToMake(todo', x) => ToMake(todo, x)
<1> DEFINE S == StepsOf(family)
<1>1. todo \in Seq(S) /\ Uploading \in S /\ ~Creates(Uploading)
  BY OwnSteps, NothingToMake DEF TodoInv
<1> HIDE DEF S
<1>2. CASE todo' = todo
  BY <1>2
<1>3. CASE todo' = Tail(todo)
  BY <1>1, <1>3, RestToMake, Zenon
<1>4. CASE todo' = <<Uploading>> \o Tail(todo)
  BY <1>1, <1>4, RestToMakeWithUpload, Zenon
<1>5. CASE Baselines!Abandons
  BY <1>5, AbandonsIs, NothingToMake, Zenon
<1> QED  BY <1>2, <1>3, <1>4, <1>5, Zenon DEF Moves

\* How a step goes that makes an object: it is not made again.
Advances == Baselines!Abandons \/ todo' \in {Tail(todo), <<Uploading>> \o Tail(todo)}

LEMMA AdvancesToMake ==
  ASSUME TodoInv, todo # <<>>, OneCreate(todo), Advances, Creates(Baselines!Step)
  PROVE  ToMake(todo, Baselines!Step[2]) /\ ~ToMake(todo', Baselines!Step[2])
<1> DEFINE S == StepsOf(family)
<1>1. todo \in Seq(S) /\ Uploading \in S /\ ~Creates(Uploading) /\ Baselines!Step = Head(todo)
  BY OwnSteps, NothingToMake DEF TodoInv, Baselines!Step
<1> HIDE DEF S
<1>2. ToMake(todo, Baselines!Step[2])
  BY <1>1, RestToMake, Zenon
<1>3. CASE todo' = Tail(todo)
  BY <1>1, <1>2, <1>3, RestToMake, Zenon
<1>4. CASE todo' = <<Uploading>> \o Tail(todo)
  BY <1>1, <1>2, <1>4, RestToMakeWithUpload, Zenon
<1>5. CASE Baselines!Abandons
  BY <1>2, <1>5, AbandonsIs, NothingToMake, Zenon
<1> QED  BY <1>3, <1>4, <1>5, Zenon DEF Advances

MadeInv == MadeTyped /\ MissingInv /\ AheadInv

\* No object is made, and none is lost.
Gentle ==
  /\ tenant' \in [Baselines!Objects -> Things] /\ born' = born
  /\ \A y \in Baselines!Objects : tenant'[y].n = 0 => tenant[y].n = 0

\* The object of the step is made, which the command has not found.
Making(x) ==
  /\ x \in Baselines!Objects /\ Baselines!Seen(x).n = 0
  /\ tenant' \in [Baselines!Objects -> Things] /\ born' = [born EXCEPT ![x] = @ + 1]
  /\ \A y \in Baselines!Objects : tenant'[y].n = 0 => tenant[y].n = 0 /\ y # x

LEMMA GentleKeeps ==
  ASSUME MadeInv, Gentle, UNCHANGED <<family, snapshot>>, OneCreate(todo'),
         \A x : ToMake(todo', x) => ToMake(todo, x)
  PROVE  MadeInv'
<1>1. MadeTyped'
  BY DEF MadeInv, MadeTyped, Gentle
<1>2. MissingInv'
  BY DEF MadeInv, MissingInv, Gentle
<1>3. AheadInv'
  BY DEF MadeInv, AheadInv, Gentle, Baselines!ReadsOnce
<1> QED  BY <1>1, <1>2, <1>3 DEF MadeInv

LEMMA MakingKeeps ==
  ASSUME MadeInv, NEW x, Making(x), UNCHANGED <<family, snapshot>>, OneCreate(todo'),
         \A y : ToMake(todo', y) => ToMake(todo, y), ToMake(todo, x), ~ToMake(todo', x)
  PROVE  MadeInv'
<1>1. born[x] = 0
  BY DEF MadeInv, MissingInv, AheadInv, Making, Baselines!Seen
<1>2. born' \in [Baselines!Objects -> {0, 1}] /\ \A y \in Baselines!Objects : y # x => born'[y] = born[y]
  BY <1>1 DEF MadeInv, MadeTyped, Making
<1>3. MadeTyped'
  BY <1>2 DEF MadeInv, MadeTyped, Making
<1>4. MissingInv'
  BY <1>2 DEF MadeInv, MissingInv, Making
<1>5. AheadInv'
  <2>1. ASSUME Baselines!ReadsOnce(family), NEW y \in Baselines!Objects, ToMake(todo', y), snapshot[y].n = 0
        PROVE  born'[y] = 0
    <3>1. y # x
      BY <2>1
    <3>2. born[y] = 0
      BY <2>1 DEF MadeInv, AheadInv
    <3> QED  BY <1>2, <3>1, <3>2
  <2> QED  BY <2>1, Zenon DEF AheadInv, Baselines!ReadsOnce
<1> QED  BY <1>3, <1>4, <1>5 DEF MadeInv

LEMMA BecomesIs ==
  ASSUME MadeTyped, NEW x, NEW thing, Baselines!Becomes(x, thing), x \in Baselines!Objects => thing \in Things
  PROVE  /\ tenant' \in [Baselines!Objects -> Things]
         /\ \A y \in Baselines!Objects : tenant'[y] = IF y = x THEN thing ELSE tenant[y]
BY DEF MadeTyped, Baselines!Becomes

LEMMA GentleBecomes ==
  ASSUME MadeTyped, NEW x, NEW thing, Baselines!Becomes(x, thing), born' = born,
         x \in Baselines!Objects => thing \in Things /\ (thing.n = 0 => tenant[x].n = 0)
  PROVE  Gentle
BY BecomesIs DEF Gentle

LEMMA GentleLeaves ==
  ASSUME MadeTyped, Baselines!Leaves, born' = born
  PROVE  Gentle
BY DEF MadeTyped, Baselines!Leaves, Gentle

LEMMA GentleRequest ==
  ASSUME MadeTyped, NEW x, NEW thing, Baselines!Request(x, thing) \/ Baselines!InBetween(x, thing), born' = born,
         x \in Baselines!Objects => thing \in Things /\ (thing.n = 0 => tenant[x].n = 0)
  PROVE  Gentle
BY GentleBecomes, GentleLeaves, Zenon DEF Baselines!Request, Baselines!InBetween

LEMMA GentleOutcome ==
  ASSUME MadeTyped, Baselines!Refuses \/ Baselines!Skips, born' = born
  PROVE  Gentle
BY GentleLeaves, Zenon DEF Baselines!Refuses, Baselines!Skips

LEMMA EditsOf ==
  ASSUME NEW t \in Things
  PROVE  \A thing \in {[t EXCEPT !.rest = TRUE], [t EXCEPT !.right = TRUE], [t EXCEPT !.scope = {"own"}],
                       [t EXCEPT !.scope = t.scope \ {"other"}], [t EXCEPT !.scope = t.scope \cup {"own"}]} :
           thing \in Things /\ (thing.n = 0 => t.n = 0)
<1>1. {"own"} \in SUBSET {"own", "other"} /\ t.scope \ {"other"} \in SUBSET {"own", "other"}
      /\ t.scope \cup {"own"} \in SUBSET {"own", "other"}
  BY FieldsOf
<1>2. [t EXCEPT !.rest = TRUE] \in Things /\ [t EXCEPT !.rest = TRUE].n = t.n
  BY FieldsOf, Zenon
<1>3. [t EXCEPT !.right = TRUE] \in Things /\ [t EXCEPT !.right = TRUE].n = t.n
  BY FieldsOf, Zenon
<1>4. [t EXCEPT !.scope = {"own"}] \in Things /\ [t EXCEPT !.scope = {"own"}].n = t.n
  BY <1>1, FieldsOf, Zenon
<1>5. [t EXCEPT !.scope = t.scope \ {"other"}] \in Things /\ [t EXCEPT !.scope = t.scope \ {"other"}].n = t.n
  BY <1>1, FieldsOf, Zenon
<1>6. [t EXCEPT !.scope = t.scope \cup {"own"}] \in Things /\ [t EXCEPT !.scope = t.scope \cup {"own"}].n = t.n
  BY <1>1, FieldsOf, Zenon
<1> QED  BY <1>2, <1>3, <1>4, <1>5, <1>6, Zenon

\* What the steps make of an object is one again, as many as before.
LEMMA EditsKeep ==
  ASSUME MadeTyped, NEW x \in Baselines!Objects
  PROVE  \A thing \in {[tenant[x] EXCEPT !.rest = TRUE], [tenant[x] EXCEPT !.right = TRUE],
                       [tenant[x] EXCEPT !.scope = {"own"}], Baselines!Evicted(x), Baselines!Admitted(x)} :
           thing \in Things /\ (thing.n = 0 => tenant[x].n = 0)
<1>1. tenant[x] \in Things
  BY DEF MadeTyped
<1> QED  BY <1>1, EditsOf, Zenon DEF Baselines!Evicted, Baselines!Admitted

LEMMA EnsureMakes ==
  ASSUME MadeTyped, NEW x, Baselines!Ensure(x)
  PROVE  Gentle \/ (Making(x) /\ Advances)
<1>1. CASE (Baselines!Refuses \/ Baselines!Skips) /\ UNCHANGED born
  BY <1>1, GentleOutcome
<1>2. CASE Baselines!Leaves /\ UNCHANGED born
  BY <1>2, GentleLeaves
<1>3. CASE /\ Baselines!Seen(x).n = 0 /\ Baselines!Becomes(x, Baselines!WithNew(x)) /\ Baselines!Made(x)
           /\ \/ IF x = "app" THEN Baselines!Uploads(x) ELSE Baselines!StepDone
              \/ Baselines!Abandons
  <2>1. Advances
    <3>1. CASE x = "app" /\ Baselines!Uploads(x)
      BY <3>1, Zenon DEF Baselines!Uploads, Uploading, Advances
    <3>2. CASE Baselines!StepDone
      BY <3>2, Zenon DEF Baselines!StepDone, Advances
    <3>3. CASE Baselines!Abandons
      BY <3>3 DEF Advances
    <3> QED  BY <1>3, <3>1, <3>2, <3>3, Zenon
  <2>2. CASE x \in Baselines!Objects
    <3>1. tenant[x] \in Things
      BY <2>2 DEF MadeTyped
    <3>2. Baselines!WithNew(x) \in Things /\ Baselines!WithNew(x).n # 0
      BY <3>1, FieldsOf, FirstThings DEF Baselines!WithNew, Baselines!Double
    <3>3. Making(x)
      BY <1>3, <2>2, <3>2, BecomesIs DEF Making, Baselines!Made
    <3> QED  BY <2>1, <3>3
  <2>3. CASE x \notin Baselines!Objects
    <3>1. born' = born
      BY <1>3, <2>3 DEF Baselines!Made, MadeTyped
    <3> QED  BY <1>3, <2>3, <3>1, GentleBecomes, Zenon
  <2> QED  BY <2>2, <2>3
<1> QED  BY <1>1, <1>2, <1>3, Zenon DEF Baselines!Ensure, Baselines!ByName

LEMMA EditsAreGentle ==
  ASSUME MadeTyped, NEW x, born' = born,
         \/ Baselines!Upload(x) \/ Baselines!Members(x) \/ Baselines!Reassign(x) \/ Baselines!Assign(x)
         \/ Baselines!Include(x) \/ Baselines!RefuseExisting(x) \/ Baselines!ExpectPolicy(x)
         \/ Baselines!EnablePolicy(x) \/ Baselines!PatchPasskey(x) \/ Baselines!Overwrite(x)
  PROVE  Gentle
<1> DEFINE Edited == {[tenant[x] EXCEPT !.rest = TRUE], [tenant[x] EXCEPT !.right = TRUE],
                      [tenant[x] EXCEPT !.scope = {"own"}], Baselines!Evicted(x), Baselines!Admitted(x)}
<1>1. /\ [tenant[x] EXCEPT !.rest = TRUE] \in Edited /\ [tenant[x] EXCEPT !.right = TRUE] \in Edited
      /\ [tenant[x] EXCEPT !.scope = {"own"}] \in Edited
      /\ Baselines!Evicted(x) \in Edited /\ Baselines!Admitted(x) \in Edited
  BY Zenon
<1>2. \A thing \in Edited : x \in Baselines!Objects => thing \in Things /\ (thing.n = 0 => tenant[x].n = 0)
  BY EditsKeep, Zenon
<1> HIDE DEF Edited
<1>3. ASSUME NEW thing \in Edited, Baselines!Request(x, thing) \/ Baselines!InBetween(x, thing) \/ Baselines!Becomes(x, thing)
      PROVE  Gentle
  <2>1. x \in Baselines!Objects => thing \in Things /\ (thing.n = 0 => tenant[x].n = 0)
    BY <1>2, Zenon
  <2> QED  BY <1>3, <2>1, GentleRequest, GentleBecomes, Zenon
<1>4. CASE Baselines!Refuses \/ Baselines!Skips
  BY <1>4, GentleOutcome
<1>5. CASE Baselines!Leaves
  BY <1>5, GentleLeaves
<1>6. CASE Baselines!Upload(x) \/ Baselines!Assign(x) \/ Baselines!Include(x) \/ Baselines!Overwrite(x) \/ Baselines!EnablePolicy(x)
  BY <1>1, <1>3, <1>4, <1>6, Zenon
     DEF Baselines!Upload, Baselines!Assign, Baselines!Include, Baselines!Overwrite, Baselines!EnablePolicy
<1>7. CASE Baselines!Members(x) \/ Baselines!Reassign(x)
  BY <1>1, <1>3, <1>4, <1>7, Zenon DEF Baselines!Members, Baselines!Reassign
<1>8. CASE Baselines!RefuseExisting(x) \/ Baselines!ExpectPolicy(x)
  BY <1>4, <1>8, Zenon DEF Baselines!RefuseExisting, Baselines!ExpectPolicy
<1>9. CASE Baselines!PatchPasskey(x)
  BY <1>1, <1>3, <1>4, <1>5, <1>9, Zenon DEF Baselines!PatchPasskey
<1> QED  BY <1>6, <1>7, <1>8, <1>9, Zenon

\* A step on an object makes it, and goes on, or makes nothing.
LEMMA OnObjectMakes ==
  ASSUME MadeTyped, Baselines!OnObject
  PROVE  Gentle \/ (Making(Baselines!Step[2]) /\ Advances /\ Creates(Baselines!Step))
<1> DEFINE x == Baselines!Step[2]
<1>1. CASE Baselines!Step[1] \in {"ensure", "create"} /\ Baselines!Ensure(x)
  <2>1. Creates(Baselines!Step)
    BY <1>1, Zenon DEF Creates
  <2> QED  BY <1>1, <2>1, EnsureMakes, Zenon
<1>2. CASE /\ UNCHANGED born
           /\ \/ Baselines!Upload(x) \/ Baselines!Members(x) \/ Baselines!Reassign(x) \/ Baselines!Assign(x)
              \/ Baselines!Include(x) \/ Baselines!RefuseExisting(x) \/ Baselines!ExpectPolicy(x)
              \/ Baselines!EnablePolicy(x) \/ Baselines!PatchPasskey(x) \/ Baselines!Overwrite(x)
  BY <1>2, EditsAreGentle, Zenon
<1> QED  BY <1>1, <1>2, Zenon DEF Baselines!OnObject

LEMMA OthersMake ==
  ASSUME MadeInv, Baselines!OthersChange, family \in Families
  PROVE  MadeInv'
<1>1. UNCHANGED <<family, todo, snapshot>>
  BY DEF Baselines!OthersChange
<1>2. PICK x \in Baselines!ObjectsOf(family) :
        /\ tenant[x].n = 1
        /\ \E thing \in {Baselines!None, Baselines!Double(tenant[x]), [tenant[x] EXCEPT !.right = FALSE],
                         [tenant[x] EXCEPT !.scope = @ \cup {"other"}]} :
             /\ tenant' = [tenant EXCEPT ![x] = thing]
             /\ born' = IF thing = Baselines!None THEN [born EXCEPT ![x] = 0] ELSE born
  BY Zenon DEF Baselines!OthersChange
<1>3. x \in Baselines!Objects
  BY Zenon DEF Baselines!Objects
<1>4. tenant[x] \in Things
  BY <1>3 DEF MadeInv, MadeTyped
<1>5. PICK thing \in {Baselines!None, Baselines!Double(tenant[x]), [tenant[x] EXCEPT !.right = FALSE],
                      [tenant[x] EXCEPT !.scope = @ \cup {"other"}]} :
        /\ tenant' = [tenant EXCEPT ![x] = thing]
        /\ born' = IF thing = Baselines!None THEN [born EXCEPT ![x] = 0] ELSE born
  BY <1>2, Zenon
<1> DEFINE t == tenant[x]
<1>6. thing \in Things /\ (thing.n # 0 \/ thing = Baselines!None)
  <2>1. t \in Things /\ t.n = 1
    BY <1>2, <1>4
  <2>2. thing \in {Baselines!None, [t EXCEPT !.n = 2], [t EXCEPT !.right = FALSE], [t EXCEPT !.scope = t.scope \cup {"other"}]}
    BY <1>5, Zenon DEF Baselines!Double
  <2> HIDE DEF t
  <2>3. t.scope \cup {"other"} \in SUBSET {"own", "other"}
    BY <2>1, FieldsOf
  <2>4. [t EXCEPT !.n = 2] \in Things /\ [t EXCEPT !.n = 2].n # 0
    BY <2>1, FieldsOf
  <2>5. [t EXCEPT !.right = FALSE] \in Things /\ [t EXCEPT !.right = FALSE].n # 0
    <3>1. [t EXCEPT !.right = FALSE] \in Things /\ [t EXCEPT !.right = FALSE].n = t.n
      BY <2>1, FieldsOf, Zenon
    <3> QED  BY <2>1, <3>1
  <2>6. [t EXCEPT !.scope = t.scope \cup {"other"}] \in Things /\ [t EXCEPT !.scope = t.scope \cup {"other"}].n # 0
    <3>1. [t EXCEPT !.scope = t.scope \cup {"other"}] \in Things /\ [t EXCEPT !.scope = t.scope \cup {"other"}].n = t.n
      BY <2>1, <2>3, FieldsOf, Zenon
    <3> QED  BY <2>1, <3>1
  <2> QED  BY <2>2, <2>4, <2>5, <2>6, FirstThings, Zenon
<1>7. thing = Baselines!None => thing.n = 0
  BY FirstThings
<1>8. /\ tenant' \in [Baselines!Objects -> Things] /\ tenant'[x] = thing
      /\ \A y \in Baselines!Objects : y # x => tenant'[y] = tenant[y]
  BY <1>3, <1>5, <1>6 DEF MadeInv, MadeTyped
<1>9. /\ born' \in [Baselines!Objects -> {0, 1}] /\ (thing.n = 0 => born'[x] = 0)
      /\ \A y \in Baselines!Objects : born'[y] = born[y] \/ born'[y] = 0
  BY <1>3, <1>5, <1>7, <1>6 DEF MadeInv, MadeTyped
<1>10. MadeTyped'
  BY <1>1, <1>8, <1>9 DEF MadeInv, MadeTyped
<1>11. MissingInv'
  BY <1>8, <1>9 DEF MadeInv, MissingInv
<1>12. AheadInv'
  BY <1>1, <1>9 DEF MadeInv, AheadInv, Baselines!ReadsOnce
<1> QED  BY <1>10, <1>11, <1>12 DEF MadeInv

LEMMA MadeNext ==
  ASSUME MadeInv, TodoInv, family \in Families, Baselines!Next \/ UNCHANGED baselineVars
  PROVE  MadeInv'
<1>1. OneCreate(todo)
  BY DEF MadeInv, AheadInv
<1>2. ASSUME Gentle, UNCHANGED <<family, snapshot>>, todo' = todo \/ todo' = <<>> \/ todo' = Giving
      PROVE  MadeInv'
  <2>1. OneCreate(todo') /\ \A x : ToMake(todo', x) => ToMake(todo, x)
    BY <1>1, <1>2, NothingToMake, Zenon
  <2> QED  BY <1>2, <2>1, GentleKeeps
<1>3. ASSUME Gentle, Moves, todo # <<>>, UNCHANGED <<family, snapshot>>
      PROVE  MadeInv'
  BY <1>1, <1>3, MovesToMake, GentleKeeps
<1>4. CASE todo # <<>> /\ Baselines!OnObject
  <2>1. Moves /\ UNCHANGED <<family, snapshot>>
    BY <1>4, OnObjectMoves DEF Untouched
  <2>2. CASE Making(Baselines!Step[2]) /\ Advances /\ Creates(Baselines!Step)
    <3> DEFINE x == Baselines!Step[2]
    <3>1. ToMake(todo, x) /\ ~ToMake(todo', x)
      BY <1>1, <1>4, <2>2, AdvancesToMake
    <3>2. OneCreate(todo') /\ \A y : ToMake(todo', y) => ToMake(todo, y)
      BY <1>1, <1>4, <2>1, MovesToMake
    <3>3. Making(x)
      BY <2>2
    <3> HIDE DEF x
    <3> QED  BY <2>1, <3>1, <3>2, <3>3, MakingKeeps
  <2> QED  BY <1>3, <1>4, <2>1, <2>2, OnObjectMakes DEF MadeInv
<1>5. CASE todo # <<>> /\ (Baselines!Verify \/ Baselines!Record \/ Baselines!ReadFails \/ Baselines!EnsurePermission)
  <2>1. Moves /\ UNCHANGED <<family, snapshot, born>>
    BY <1>5, VerifyMoves, RecordMoves, ReadFailsMoves, PermissionMoves, Zenon
       DEF Untouched, Baselines!Verify, Baselines!Record, Baselines!ReadFails, Baselines!EnsurePermission
  <2>2. Baselines!Leaves
    BY <1>5, Zenon DEF Baselines!Verify, Baselines!Record, Baselines!ReadFails, Baselines!EnsurePermission,
         Baselines!RequestRole, Baselines!Refuses, Baselines!Skips
  <2> QED  BY <1>3, <1>5, <2>1, <2>2, GentleLeaves DEF MadeInv
<1>6. CASE Baselines!Begin
  <2>1. UNCHANGED <<family, tenant, born>> /\ snapshot' = tenant /\ todo' \in Baselines!Commands(family)
    BY <1>6 DEF Baselines!Begin
  <2>2. OneCreate(todo')
    BY <2>1, CommandsFit DEF TodoInv, CommandFits
  <2>3. MadeTyped' /\ MissingInv'
    BY <2>1 DEF MadeInv, MadeTyped, MissingInv
  <2>4. AheadInv'
    BY <2>1, <2>2 DEF MadeInv, MissingInv, AheadInv
  <2> QED  BY <2>3, <2>4 DEF MadeInv
<1>7. CASE Baselines!GiveBack \/ Baselines!GivesUp \/ Baselines!Done \/ UNCHANGED baselineVars
  <2>1. UNCHANGED <<family, snapshot, tenant, born>> /\ (todo' = todo \/ todo' = <<>> \/ todo' = Giving)
    BY <1>7, Zenon DEF Baselines!GiveBack, Baselines!GivesUp, Baselines!Done, baselineVars, Giving
  <2>2. Gentle
    BY <2>1 DEF Gentle, MadeInv, MadeTyped
  <2> QED  BY <1>2, <2>1, <2>2
<1>8. CASE Baselines!OthersChange
  BY <1>8, OthersMake
<1> QED  BY <1>4, <1>5, <1>6, <1>7, <1>8, Zenon DEF Baselines!Next, Baselines!Takes

\* What is still to come of a command; in the end only readings, and the permission.
StepsIn(c) == {c[i] : i \in DOMAIN c}
OnlyReads(c) == \A s \in StepsIn(c) : Reading(s)
AtItsEnd(c) == OnlyReads(c) \/ c = Giving
Alive == (Baselines!Doing /\ ended # "failed") \/ ended = "done"

\* A command has each of its readings still before it, or what that one read still holds and
\* no step but a reading comes after it; a reading that others made void is not counted.
VerifyInv ==
  /\ ReadsLast(todo)
  /\ \A s \in vouched : Reading(s) /\ s[2] \in Baselines!Objects
  /\ ended = "done" => todo \in {<<>>, Giving}
  /\ Baselines!Doing /\ ended = "failed" => todo = Giving
  /\ Alive => \A s \in vouched : s \in StepsIn(todo) \/ (Baselines!Holds(s) /\ AtItsEnd(todo))

LEMMA NothingToRead ==
  /\ StepsIn(<<>>) = {} /\ ReadsLast(<<>>) /\ OnlyReads(<<>>)
  /\ ReadsLast(Giving) /\ \A s \in StepsIn(Giving) : ~Reading(s)
  /\ ~Reading(Uploading)
<1>1. DOMAIN Giving = {1}
  <2>1. \A g : DOMAIN <<g>> = {1}
    OBVIOUS
  <2> QED  BY <2>1, Zenon DEF Giving
<1>2. \A i \in DOMAIN Giving : ~Reading(Giving[i])
  BY <1>1, GivingFirst DEF Reading, Baselines!Readings
<1>3. ReadsLast(Giving) /\ \A s \in StepsIn(Giving) : ~Reading(s)
  BY <1>2, Zenon DEF ReadsLast, StepsIn
<1>4. DOMAIN <<>> = {}
  OBVIOUS
<1>5. ReadsLast(<<>>) /\ StepsIn(<<>>) = {}
  BY <1>4 DEF ReadsLast, StepsIn
<1>6. ~Reading(Uploading)
  BY DEF Reading, Baselines!Readings, Uploading
<1> QED  BY <1>3, <1>5, <1>6, Zenon DEF OnlyReads

\* The rest of a command after its first step, and with an upload in its place.
LEMMA RestToRead ==
  ASSUME NEW S, NEW c \in Seq(S), c # <<>>, ReadsLast(c)
  PROVE  /\ ReadsLast(Tail(c))
         /\ StepsIn(c) \subseteq StepsIn(Tail(c)) \union {Head(c)} /\ Head(c) \in StepsIn(c)
         /\ Reading(Head(c)) => OnlyReads(c) /\ OnlyReads(Tail(c))
<1>1. DOMAIN Tail(c) = 1..(Len(c) - 1) /\ DOMAIN c = 1..Len(c) /\ Len(c) \in Nat /\ Len(c) # 0
  OBVIOUS
<1>2. c[1] = Head(c) /\ \A i \in 1..(Len(c) - 1) : Tail(c)[i] = c[i + 1]
  OBVIOUS
<1> DEFINE n == Len(c)
           t == Tail(c)
<1> HIDE DEF n, t
<1>3. DOMAIN t = 1..(n - 1) /\ DOMAIN c = 1..n /\ n \in Nat /\ n # 0 /\ \A i \in 1..(n - 1) : t[i] = c[i + 1]
  BY <1>1, <1>2 DEF n, t
<1>4. \A i \in 1..n : i # 1 => i - 1 \in 1..(n - 1) /\ (i - 1) + 1 = i
  BY <1>3
<1>5. 1 \in 1..n /\ \A i \in 1..(n - 1) : i + 1 \in 1..n
  BY <1>3
<1>6. \A i \in 1..n : i # 1 => t[i - 1] = c[i]
  BY <1>3, <1>4
<1>7. StepsIn(c) \subseteq StepsIn(t) \union {c[1]} /\ StepsIn(t) \subseteq StepsIn(c) /\ c[1] \in StepsIn(c)
  <2>1. ASSUME NEW i \in 1..n
        PROVE  c[i] \in StepsIn(t) \union {c[1]}
    <3>1. CASE i = 1
      BY <3>1
    <3>2. CASE i # 1
      BY <1>3, <1>4, <1>6, <3>2, Zenon DEF StepsIn
    <3> QED  BY <3>1, <3>2
  <2>2. StepsIn(t) \subseteq StepsIn(c)
    BY <1>3, <1>5, Zenon DEF StepsIn
  <2> QED  BY <1>3, <1>5, <2>1, <2>2, Zenon DEF StepsIn
<1>8. Reading(c[1]) => OnlyReads(c)
  <2>1. \A i \in 1..n : i = 1 \/ 1 < i
    BY <1>3
  <2> QED  BY <1>3, <1>5, <2>1, Zenon DEF OnlyReads, StepsIn, ReadsLast
<1>9. ReadsLast(t)
  <2>1. ASSUME NEW i \in 1..(n - 1), NEW j \in 1..(n - 1), i < j, Reading(t[i])
        PROVE  Reading(t[j])
    <3>1. i + 1 < j + 1
      BY <2>1
    <3>2. Reading(c[i + 1]) /\ i + 1 \in 1..n /\ j + 1 \in 1..n /\ t[j] = c[j + 1]
      BY <1>3, <1>5, <2>1, Zenon
    <3> QED  BY <1>3, <3>1, <3>2, Zenon DEF ReadsLast
  <2> QED  BY <1>3, <2>1, Zenon DEF ReadsLast
<1>10. OnlyReads(c) => OnlyReads(t)
  BY <1>7, Zenon DEF OnlyReads
<1> QED  BY <1>2, <1>7, <1>8, <1>9, <1>10, Zenon DEF t

LEMMA RestToReadWithUpload ==
  ASSUME NEW S, NEW c \in Seq(S), c # <<>>, ReadsLast(c), NEW u \in S, ~Reading(u)
  PROVE  /\ ReadsLast(<<u>> \o Tail(c))
         /\ StepsIn(c) \subseteq StepsIn(<<u>> \o Tail(c)) \union {Head(c)}
<1> DEFINE d == <<u>> \o Tail(c)
           n == Len(c)
<1>1. \A i \in DOMAIN d : \/ i = 1 /\ d[i] = u
                          \/ i # 1 /\ i \in DOMAIN c /\ d[i] = c[i]
  BY RestWithUpload
<1>2. DOMAIN d = 1..n /\ DOMAIN c = 1..n /\ n \in Nat /\ c[1] = Head(c)
  <2>1. Tail(c) \in Seq(S) /\ Len(Tail(c)) = Len(c) - 1 /\ Len(c) \in Nat /\ Len(c) # 0 /\ c[1] = Head(c)
        /\ DOMAIN c = 1..Len(c)
    OBVIOUS
  <2>2. <<u>> \in Seq(S) /\ Len(<<u>>) = 1
    OBVIOUS
  <2>3. d \in Seq(S) /\ Len(d) = 1 + Len(Tail(c))
    BY <2>1, <2>2, ConcatProperties
  <2>4. DOMAIN d = 1..Len(d)
    BY <2>3, LenProperties
  <2> QED  BY <2>1, <2>3, <2>4
<1> HIDE DEF d, n
<1>3. ReadsLast(d)
  <2>1. ASSUME NEW i \in 1..n, NEW j \in 1..n, i < j, Reading(d[i])
        PROVE  Reading(d[j])
    <3>1. i # 1
      BY <1>1, <1>2, <2>1, Zenon
    <3>2. j # 1
      BY <1>2, <2>1
    <3>3. d[i] = c[i] /\ d[j] = c[j]
      BY <1>1, <1>2, <3>1, <3>2, Zenon
    <3> QED  BY <1>2, <2>1, <3>3, Zenon DEF ReadsLast
  <2> QED  BY <1>2, <2>1, Zenon DEF ReadsLast
<1>4. StepsIn(c) \subseteq StepsIn(d) \union {c[1]}
  BY <1>1, <1>2, Zenon DEF StepsIn
<1> QED  BY <1>2, <1>3, <1>4, Zenon DEF d

\* The readings are of objects.
LEMMA ReadingsAre ==
  ASSUME NEW f \in KnownFamilies, f \in Families, NEW s \in StepsOf(f), Reading(s)
  PROVE  s[2] \in Baselines!Objects
<1>1. s[2] \notin {"role", "all"}
  BY StepsOfFit DEF StepFits
<1>2. s # <<"give back", "role">> /\ s # Uploading
  <2>1. ~Reading(<<"give back", "role">>)
    BY DEF Reading, Baselines!Readings
  <2> QED  BY <2>1, NothingToRead
<1>3. s \in UNION {{c[i] : i \in DOMAIN c} : c \in Baselines!Commands(f)}
  BY <1>2, Zenon DEF StepsOf
<1>4. s[2] \in Baselines!ObjectsOf(f)
  BY <1>1, <1>3, Zenon DEF Baselines!ObjectsOf
<1> QED  BY <1>4, Zenon DEF Baselines!Objects

\* A command that is given up owes nothing of its readings any more.
LEMMA AbandonedReads ==
  ASSUME VerifyInv, Baselines!Abandons, vouched' = vouched
  PROVE  VerifyInv'
<1>1. ended' = "failed" /\ (todo' = Giving \/ (todo' = <<>> /\ command' = "none"))
  BY AbandonsIs
<1>2. ReadsLast(todo')
  BY <1>1, NothingToRead
<1>3. ~Alive'
  BY <1>1 DEF Alive, Baselines!Doing
<1> QED  BY <1>1, <1>2, <1>3 DEF VerifyInv, Baselines!Doing

LEMMA VerifyMovesOn ==
  ASSUME VerifyInv, TodoInv, Moves, todo # <<>>, Baselines!Doing, vouched' = vouched,
         ~Reading(Baselines!Step), Baselines!Step[1] # "give back"
  PROVE  VerifyInv'
<1> DEFINE S == StepsOf(family)
<1>1. todo \in Seq(S) /\ Uploading \in S /\ Baselines!Step = Head(todo) /\ ~Reading(Uploading)
  BY OwnSteps, NothingToRead DEF TodoInv, Baselines!Step
<1> HIDE DEF S
<1>2. todo # Giving
  BY HeadIs, GivingFirst
<1>3. ended # "done" /\ ended # "failed"
  BY <1>2 DEF VerifyInv
<1>4. ~OnlyReads(todo)
  BY <1>1, RestToRead, Zenon DEF VerifyInv, OnlyReads
<1>5. \A s \in vouched : s \in StepsIn(todo) /\ s # Baselines!Step
  BY <1>2, <1>3, <1>4 DEF VerifyInv, Alive, AtItsEnd
<1>6. ASSUME UNCHANGED <<command, ended>>, todo' \in {todo, Tail(todo), <<Uploading>> \o Tail(todo)}
      PROVE  VerifyInv'
  <2>1. ReadsLast(todo') /\ StepsIn(todo) \subseteq StepsIn(todo') \union {Baselines!Step}
    <3>1. CASE todo' = todo
      BY <3>1 DEF VerifyInv
    <3>2. CASE todo' = Tail(todo)
      BY <1>1, <3>2, RestToRead, Zenon DEF VerifyInv
    <3>3. CASE todo' = <<Uploading>> \o Tail(todo)
      BY <1>1, <3>3, RestToReadWithUpload, Zenon DEF VerifyInv
    <3> QED  BY <1>6, <3>1, <3>2, <3>3
  <2>2. \A s \in vouched' : s \in StepsIn(todo')
    BY <1>5, <2>1
  <2> QED  BY <1>3, <1>6, <2>1, <2>2 DEF VerifyInv
<1> QED  BY <1>6, AbandonedReads DEF Moves

\* A reading that finds what it should.
LEMMA ReadingHolds ==
  ASSUME VerifyInv, TodoInv, todo # <<>>, Baselines!Doing, Reading(Baselines!Step), Baselines!Holds(Baselines!Step),
         family \in Families, UNCHANGED <<tenant, command, ended>>, todo' = Tail(todo),
         vouched' = vouched \union {Baselines!Step}
  PROVE  VerifyInv'
<1> DEFINE S == StepsOf(family)
<1>1. todo \in Seq(S) /\ Baselines!Step = Head(todo)
  BY DEF TodoInv, Baselines!Step
<1> HIDE DEF S
<1>2. ReadsLast(todo') /\ StepsIn(todo) \subseteq StepsIn(todo') \union {Baselines!Step} /\ OnlyReads(todo')
  BY <1>1, RestToRead, Zenon DEF VerifyInv
<1>3. todo # Giving
  BY HeadIs, GivingFirst DEF Reading, Baselines!Readings
<1>4. ended # "done" /\ ended # "failed"
  BY <1>3 DEF VerifyInv
<1>5. Baselines!Step[2] \in Baselines!Objects
  BY HeadIs, ReadingsAre DEF TodoInv
<1>6. ASSUME NEW s
      PROVE  Baselines!Holds(s)' <=> Baselines!Holds(s)
  BY DEF Baselines!Holds, Baselines!Shaped, Baselines!Scoped
<1>7. \A s \in vouched : s \in StepsIn(todo) \/ Baselines!Holds(s)
  BY <1>4 DEF VerifyInv, Alive
<1>8. \A s \in vouched' : s \in StepsIn(todo') \/ (Baselines!Holds(s)' /\ AtItsEnd(todo'))
  BY <1>2, <1>6, <1>7, Zenon DEF AtItsEnd
<1>9. \A s \in vouched' : Reading(s) /\ s[2] \in Baselines!Objects
  BY <1>5 DEF VerifyInv
<1>10. ended' # "done" /\ ended' # "failed"
  BY <1>4
<1> QED  BY <1>2, <1>8, <1>9, <1>10, Zenon DEF VerifyInv

\* What other administrators do to an object makes void what was read of it.
LEMMA OthersVoid ==
  ASSUME VerifyInv, MadeTyped, Baselines!OthersChange
  PROVE  VerifyInv'
<1>1. UNCHANGED <<command, todo, ended>>
  BY DEF Baselines!OthersChange
<1>2. PICK x \in Baselines!ObjectsOf(family) :
             /\ \E thing \in {Baselines!None, Baselines!Double(tenant[x]), [tenant[x] EXCEPT !.right = FALSE],
                              [tenant[x] EXCEPT !.scope = @ \cup {"other"}]} :
                  tenant' = [tenant EXCEPT ![x] = thing]
             /\ vouched' = {s \in vouched : s[2] # x}
  BY Zenon DEF Baselines!OthersChange
<1>3. ASSUME NEW s \in vouched'
      PROVE  s \in vouched /\ tenant'[s[2]] = tenant[s[2]]
  <2>1. s \in vouched /\ s[2] # x /\ s[2] \in Baselines!Objects
    BY <1>2, <1>3 DEF VerifyInv
  <2> QED  BY <1>2, <2>1 DEF MadeTyped
<1>4. ASSUME NEW s \in vouched', Baselines!Holds(s)
      PROVE  Baselines!Holds(s)'
  BY <1>3, <1>4 DEF Baselines!Holds, Baselines!Shaped, Baselines!Scoped
<1>5. (Alive' <=> Alive) /\ (Baselines!Doing' <=> Baselines!Doing)
  BY <1>1 DEF Alive, Baselines!Doing
<1> QED  BY <1>1, <1>3, <1>4, <1>5 DEF VerifyInv

LEMMA VerifyStays ==
  ASSUME VerifyInv, UNCHANGED <<tenant, command, todo, ended, vouched>>
  PROVE  VerifyInv'
<1>1. ASSUME NEW s
      PROVE  Baselines!Holds(s)' <=> Baselines!Holds(s)
  BY DEF Baselines!Holds, Baselines!Shaped, Baselines!Scoped
<1>2. (Alive' <=> Alive) /\ (Baselines!Doing' <=> Baselines!Doing)
  BY DEF Alive, Baselines!Doing
<1> QED  BY <1>1, <1>2 DEF VerifyInv

LEMMA VerifyNext ==
  ASSUME VerifyInv, TodoInv, MadeTyped, family \in Families, Baselines!Next \/ UNCHANGED baselineVars
  PROVE  VerifyInv'
<1>1. CASE todo # <<>> /\ Baselines!Doing /\ (Baselines!OnObject \/ Baselines!EnsurePermission \/ Baselines!Record)
  <2>1. Moves /\ vouched' = vouched
    <3>1. CASE Baselines!OnObject
      BY <3>1, OnObjectMoves, Zenon DEF Baselines!OnObject
    <3>2. CASE Baselines!Record
      BY <3>2, RecordMoves, Zenon DEF Baselines!Record
    <3>3. CASE Baselines!EnsurePermission
      BY <3>3, PermissionMoves, Zenon DEF Baselines!EnsurePermission
    <3> QED  BY <1>1, <3>1, <3>2, <3>3
  <2>2. ~Reading(Baselines!Step) /\ Baselines!Step[1] # "give back"
    BY <1>1 DEF Baselines!OnObject, Baselines!OwnActions, Baselines!Record, Baselines!EnsurePermission, Reading,
         Baselines!Readings
  <2> QED  BY <1>1, <2>1, <2>2, VerifyMovesOn
<1>2. CASE Baselines!ReadFails
  BY <1>2, AbandonedReads DEF Baselines!ReadFails
<1>3. CASE todo # <<>> /\ Baselines!Doing /\ Baselines!Verify
  <2>1. CASE Baselines!Refuses /\ vouched' = vouched
    BY <2>1, AbandonedReads DEF Baselines!Refuses
  <2>2. CASE Baselines!Holds(Baselines!Step) /\ Baselines!Skips /\ vouched' = vouched \union {Baselines!Step}
    <3>1. UNCHANGED <<tenant, command, ended>> /\ todo' = Tail(todo)
      BY <2>2, Zenon DEF Baselines!Skips, Baselines!Leaves, Baselines!Continues, Baselines!StepDone
    <3>2. Reading(Baselines!Step)
      BY <1>3 DEF Baselines!Verify, Reading
    <3> QED  BY <1>3, <2>2, <3>1, <3>2, ReadingHolds
  <2> QED  BY <1>3, <2>1, <2>2, Zenon DEF Baselines!Verify
<1>4. CASE Baselines!Begin
  <2>1. PICK c \in Baselines!Commands(family) :
          todo' = c /\ vouched' = {c[i] : i \in {k \in DOMAIN c : c[k][1] \in Baselines!Readings}}
    BY <1>4, Zenon DEF Baselines!Begin
  <2>2. ended' = "none"
    BY <1>4 DEF Baselines!Begin
  <2>3. ReadsLast(todo')
    BY <2>1, CommandsFit DEF TodoInv, CommandFits
  <2>4. ASSUME NEW s \in vouched'
        PROVE  s \in StepsIn(todo') /\ Reading(s) /\ s[2] \in Baselines!Objects
    <3>1. PICK i \in DOMAIN c : s = c[i] /\ c[i][1] \in Baselines!Readings
      BY <2>1, Zenon
    <3>2. Reading(s)
      BY <3>1 DEF Reading
    <3>3. s \in StepsIn(c)
      BY <3>1, Zenon DEF StepsIn
    <3>4. s \in StepsIn(todo')
      BY <2>1, <3>3 DEF StepsIn
    <3>5. {c[k] : k \in DOMAIN c} \subseteq StepsOf(family)
      BY Zenon DEF StepsOf
    <3>6. s \in StepsOf(family)
      BY <3>3, <3>5, Zenon DEF StepsIn
    <3> QED  BY <3>2, <3>4, <3>6, ReadingsAre DEF TodoInv
  <2> QED  BY <2>2, <2>3, <2>4 DEF VerifyInv
<1>5. ASSUME Baselines!Doing, UNCHANGED <<tenant, vouched>>, command' = "none", todo' = <<>>,
             todo = <<>> \/ todo = Giving, ended' = "failed" \/ Alive
      PROVE  VerifyInv'
  <2>1. \A s \in vouched : Reading(s)
    BY DEF VerifyInv
  <2>2. \A s \in vouched : s \notin StepsIn(todo)
    BY <1>5, <2>1, NothingToRead
  <2>3. ASSUME NEW s
        PROVE  Baselines!Holds(s)' <=> Baselines!Holds(s)
    BY <1>5 DEF Baselines!Holds, Baselines!Shaped, Baselines!Scoped
  <2>4. ended' # "failed" => \A s \in vouched' : Baselines!Holds(s)' /\ AtItsEnd(todo')
    BY <1>5, <2>2, <2>3, NothingToRead DEF VerifyInv, AtItsEnd
  <2>5. Alive' => ended' # "failed"
    BY <1>5 DEF Alive, Baselines!Doing
  <2>6. ReadsLast(todo') /\ ~Baselines!Doing'
    BY <1>5, NothingToRead DEF Baselines!Doing
  <2> QED  BY <1>5, <2>4, <2>5, <2>6 DEF VerifyInv
<1>6. CASE todo # <<>> /\ Baselines!Doing /\ Baselines!GiveBack
  <2>1. /\ UNCHANGED <<tenant, ended, vouched>> /\ Baselines!Step[1] = "give back"
        /\ UNCHANGED <<command, todo>> \/ (command' = "none" /\ todo' = <<>>)
    BY <1>6, Zenon DEF Baselines!GiveBack
  <2>2. CASE UNCHANGED <<command, todo>>
    BY <2>1, <2>2, VerifyStays
  <2>3. CASE command' = "none" /\ todo' = <<>>
    <3>1. CASE ended \in {"done", "failed"}
      <4>1. todo = Giving
        BY <1>6, <3>1 DEF VerifyInv
      <4>2. ended' = "failed" \/ Alive
        BY <2>1, <3>1 DEF Alive
      <4> QED  BY <1>5, <1>6, <2>1, <2>3, <4>1, <4>2
    <3>2. CASE ended \notin {"done", "failed"}
      <4>1. ~Alive' /\ ~Baselines!Doing' /\ ReadsLast(todo')
        BY <2>1, <2>3, <3>2, NothingToRead DEF Alive, Baselines!Doing
      <4> QED  BY <2>1, <3>2, <4>1 DEF VerifyInv
    <3> QED  BY <3>1, <3>2
  <2> QED  BY <2>1, <2>2, <2>3
<1>7. CASE Baselines!GivesUp
  <2>1. command' = "none" /\ todo' = <<>> /\ ended' = "failed" /\ UNCHANGED vouched
    BY <1>7 DEF Baselines!GivesUp
  <2>2. ~Alive' /\ ~Baselines!Doing' /\ ReadsLast(todo')
    BY <2>1, NothingToRead DEF Alive, Baselines!Doing
  <2> QED  BY <2>1, <2>2 DEF VerifyInv
<1>8. CASE Baselines!Done
  <2>1. /\ Baselines!Doing /\ todo = <<>> /\ ended' = "done" /\ UNCHANGED <<tenant, vouched>>
        /\ (todo' = Giving /\ UNCHANGED command) \/ (command' = "none" /\ UNCHANGED todo)
    BY <1>8, Zenon DEF Baselines!Done, Giving
  <2>2. Alive
    BY <2>1, GivingFirst DEF VerifyInv, Alive
  <2>3. CASE command' = "none" /\ todo' = <<>>
    BY <1>5, <2>1, <2>2, <2>3
  <2>4. CASE todo' = Giving
    <3>1. \A s \in vouched : Baselines!Holds(s)
      BY <2>1, <2>2, NothingToRead DEF VerifyInv
    <3>2. ASSUME NEW s
          PROVE  Baselines!Holds(s)' <=> Baselines!Holds(s)
      BY <2>1 DEF Baselines!Holds, Baselines!Shaped, Baselines!Scoped
    <3>3. \A s \in vouched' : Baselines!Holds(s)' /\ AtItsEnd(todo')
      BY <2>1, <2>4, <3>1, <3>2 DEF AtItsEnd
    <3> QED  BY <2>1, <2>4, <3>3, NothingToRead DEF VerifyInv
  <2> QED  BY <2>1, <2>3, <2>4
<1>9. CASE Baselines!OthersChange
  BY <1>9, OthersVoid
<1>10. CASE UNCHANGED baselineVars
  <2>1. UNCHANGED <<tenant, command, todo, ended, vouched>>
    BY <1>10 DEF baselineVars
  <2> QED  BY <2>1, VerifyStays
<1> QED  BY <1>1, <1>2, <1>3, <1>4, <1>6, <1>7, <1>8, <1>9, <1>10, Zenon DEF Baselines!Next, Baselines!Takes

LEMMA MadeFirst ==
  ASSUME Init
  PROVE  MadeInv /\ VerifyInv
<1>1. Baselines!Init
  BY DEF Init
<1>2. ASSUME NEW x \in Baselines!Objects
      PROVE  [Baselines!Created EXCEPT !.right = (x # "product"), !.scope = IF x = "profile" THEN {"other"} ELSE {}] \in Things
  <2> DEFINE c == Baselines!Created
             s == IF x = "profile" THEN {"other"} ELSE {}
             b == x # "product"
  <2>1. c \in Things /\ b \in BOOLEAN /\ s \in SUBSET {"own", "other"}
    BY FirstThings
  <2> HIDE DEF c, s, b
  <2>2. [c EXCEPT !.right = b, !.scope = s] \in Things
    BY <2>1 DEF Things
  <2> QED  BY <2>2 DEF c, s, b
<1>3. tenant \in [Baselines!Objects -> Things]
  BY <1>1, <1>2, FirstThings DEF Baselines!Init
<1>4. snapshot = tenant /\ born = [x \in Baselines!Objects |-> 0] /\ todo = <<>> /\ command = "none" /\ ended = "none"
  BY <1>1 DEF Baselines!Init
<1>5. MadeTyped /\ MissingInv
  BY <1>3, <1>4 DEF MadeTyped, MissingInv
<1>6. AheadInv
  BY <1>4, NothingToMake DEF AheadInv
<1>7. VerifyInv
  BY <1>1, <1>4, NothingToRead DEF VerifyInv, Baselines!Doing, Baselines!Init
<1> QED  BY <1>5, <1>6, <1>7 DEF MadeInv

LEMMA FamilyStays ==
  ASSUME Baselines!Next \/ UNCHANGED baselineVars
  PROVE  family' = family
<1>1. CASE Baselines!Next
  BY <1>1, OnObjectMoves, ReadFailsMoves, VerifyMoves, RecordMoves, Zenon
     DEF Baselines!Next, Baselines!Takes, Baselines!Begin, Baselines!Done, Baselines!OthersChange, Untouched,
         Baselines!EnsurePermission, Baselines!GiveBack, Baselines!GivesUp
<1>2. CASE UNCHANGED baselineVars
  BY <1>2 DEF baselineVars
<1> QED  BY <1>1, <1>2

\* A command started again after a lost answer or a partial failure makes no second object,
\* and one that ended well has read every part of its baseline exact, in readings between
\* which others change the tenant; what it read still holds of the objects that nobody
\* changed after their reading.  (The TLS command makes no such readings.)
THEOREM BaselinesAreExact == Spec => []BaselinesExact
<1> DEFINE Inv == TodoInv /\ MadeInv /\ VerifyInv /\ family \in Families
<1>1. Init => Inv
  <2>1. ASSUME Init
        PROVE  TodoInv /\ family \in Families
    <3>1. Baselines!Init /\ family \in KnownFamilies
      BY <2>1, FamilyIs DEF Init
    <3>2. todo = <<>> /\ returned = FALSE /\ family \in Families
      BY <3>1 DEF Baselines!Init
    <3>3. todo \in Seq(StepsOf(family))
      BY <3>2
    <3> QED  BY <3>1, <3>2, <3>3 DEF TodoInv
  <2> QED  BY <2>1, MadeFirst
<1>2. Inv /\ [Next]_operatorVars => Inv'
  BY EachSteps, FamilyStays, TodoNext, MadeNext, VerifyNext DEF MadeInv
<1>3. Inv => BaselinesExact
  <2>1. ASSUME MadeTyped
        PROVE  Baselines!MadeOnce
    BY <2>1 DEF MadeTyped, Baselines!MadeOnce
  <2>2. ASSUME VerifyInv
        PROVE  Baselines!DoneMeansExact
    <3>1. ended = "done" => \A s \in vouched : s \notin StepsIn(todo)
      BY <2>2, NothingToRead DEF VerifyInv
    <3> QED  BY <2>2, <3>1 DEF VerifyInv, Alive, Baselines!DoneMeansExact
  <2> QED  BY <2>1, <2>2 DEF MadeInv, BaselinesExact
<1> QED  BY <1>1, <1>2, <1>3, PTL DEF Spec

-----------------------------------------------------------------------------
\* The types.

\* What the cycle may find or send, and what it has delivered; a throw leaves its try block.
Present == {"member", "app", "token", "marker"}
Mutations == {"install app", "create token", "configure", "drop token", "leave group", "restore group",
              "drop tokens", "delete app"}
Deliveries == {<<>>, <<"deliver 1">>, <<"deliver 1", "deliver 2">>}
Thrown == {"drop token"} \union Ending \union {"final", "ended"}

CycleShape ==
  /\ there \subseteq Present /\ authorized \subseteq {"app", "token", "group"} /\ astray \subseteq Mutations
  /\ receiver \in Deliveries
  /\ thrown => step \in Thrown

LEMMA MutationKeepsPresent ==
  ASSUME there \subseteq Present, NEW m \in Mutations
  PROVE  Cycle!Effect(m) \subseteq Present
BY DEF Present, Mutations, Cycle!Effect

LEMMA ThrownStays ==
  ASSUME thrown => step \in Thrown, thrown \in BOOLEAN, step \in UnderWay,
         (Cycle!Goes /\ ~(thrown /\ step = "drop token")) \/ Cycle!Throws
  PROVE  thrown' => step' \in Thrown
<1>1. CASE Went /\ ~(thrown /\ step = "drop token")
  <2>1. ASSUME thrown
        PROVE  step' \in Thrown
    <3>1. step \in Ending
      BY <1>1, <2>1 DEF Thrown, UnderWay, UpToFirst, UpToSecond, Ending
    <3>2. step' \in After
      BY <1>1, <3>1 DEF Went, GoesOn, Ending
    <3> QED  BY <3>2 DEF Thrown, After, Ending
  <2> QED  BY <1>1, <2>1 DEF Went
<1>2. CASE Threw
  <2>1. step' = "drop token" \/ step' \in {"restore group"} \union After
    BY <1>2 DEF Threw, CleansUp, UnderWay, Ending
  <2> QED  BY <2>1 DEF Thrown, After, Ending
<1> QED  BY <1>1, <1>2, GoesOrThrows

LEMMA DeliveryKeeps ==
  ASSUME CycleInv, CycleShape, step \in {"deliver 1", "deliver 2"}
  PROVE  Append(receiver, step) \in Deliveries
<1>1. ~thrown
  BY DEF CycleShape, Thrown, Ending
<1>2. CASE step = "deliver 1"
  <2>1. receiver = <<>>
    BY <1>1, <1>2 DEF CycleInv, DeliveriesInv, UpToFirst
  <2> QED  BY <1>2, <2>1, BothDeliveries, Zenon DEF Deliveries
<1>3. CASE step = "deliver 2"
  <2>1. receiver = <<"deliver 1">>
    BY <1>1, <1>3, Zenon DEF CycleInv, DeliveriesInv, UpToSecond
  <2> QED  BY <1>3, <2>1, BothDeliveries, Zenon DEF Deliveries
<1> QED  BY <1>2, <1>3

LEMMA CycleShapeNext ==
  ASSUME CycleInv, CycleShape, Cycle!Next \/ UNCHANGED cycleVars
  PROVE  CycleShape'
<1>1. /\ there \subseteq Present /\ authorized \subseteq {"app", "token", "group"} /\ astray \subseteq Mutations
      /\ receiver \in Deliveries /\ (thrown => step \in Thrown) /\ thrown \in BOOLEAN
  BY DEF CycleShape, CycleInv, CycleTyped
<1>2. \A m \in Mutations : Cycle!Effect(m) \subseteq Present
  BY <1>1, MutationKeepsPresent
<1>3. CASE Cycle!Mutate
  <2>1. step \in Mutations /\ step \in UnderWay
    BY <1>3, MutatesIsUnderWay DEF Cycle!Mutate, Cycle!Mutates, Mutations
  <2>2. there' \in {there, Cycle!Effect(step)} /\ astray' \in {astray, astray \union {step}}
        /\ \E heard \in BOOLEAN : Cycle!MutationReturns(step, heard)
    BY <1>3, Zenon DEF Cycle!Mutate
  <2>3. UNCHANGED <<receiver, authorized>>
    BY <2>2 DEF Cycle!MutationReturns
  <2>4. (Cycle!Goes /\ ~(thrown /\ step = "drop token")) \/ Cycle!Throws
    BY <2>2, Zenon DEF Cycle!MutationReturns
  <2>5. thrown' => step' \in Thrown
    BY <1>1, <2>1, <2>4, ThrownStays
  <2> QED  BY <1>1, <1>2, <2>1, <2>2, <2>3, <2>5 DEF CycleShape
<1>4. CASE Cycle!ReadFails
  <2>1. step \in UnderWay
    BY <1>4 DEF Cycle!ReadFails, CycleInv, StepKnown
  <2>2. there' = there \/ (Cycle!Mutates(step) /\ there' = Cycle!Effect(step))
    BY <1>4 DEF Cycle!ReadFails
  <2>3. there' \subseteq Present
    BY <1>1, <1>2, <2>2 DEF Cycle!Mutates, Mutations
  <2>4. UNCHANGED <<receiver, authorized, astray>> /\ Cycle!Throws
    BY <1>4 DEF Cycle!ReadFails
  <2>5. thrown' => step' \in Thrown
    BY <1>1, <2>1, <2>4, ThrownStays
  <2> QED  BY <1>1, <2>3, <2>4, <2>5 DEF CycleShape
<1>5. CASE Cycle!Land
  <2>1. PICK m \in astray : there' = Cycle!Effect(m) /\ astray' = astray \ {m}
    BY <1>5 DEF Cycle!Land
  <2>2. UNCHANGED <<receiver, authorized, thrown, step>>
    BY <1>5 DEF Cycle!Land
  <2> QED  BY <1>1, <1>2, <2>1, <2>2 DEF CycleShape
<1>6. CASE \/ Cycle!Authorize \/ Cycle!Precheck \/ Cycle!Nudge \/ Cycle!AwaitBanned \/ Cycle!Recheck
           \/ Cycle!Deliver
  <2>1. UNCHANGED <<there, astray>> /\ step \in UnderWay /\ step # "drop token"
    BY <1>6 DEF Cycle!Authorize, Cycle!Precheck, Cycle!Nudge, Cycle!AwaitBanned, Cycle!Recheck, Cycle!Deliver,
         UnderWay, UpToFirst, UpToSecond, Ending
  <2>2. Cycle!Goes \/ Cycle!Throws
    BY <1>6, Zenon DEF Cycle!Authorize, Cycle!Precheck, Cycle!Nudge, Cycle!AwaitBanned, Cycle!Recheck, Cycle!Deliver
  <2>3. thrown' => step' \in Thrown
    BY <1>1, <2>1, <2>2, ThrownStays
  <2>4. authorized' \subseteq {"app", "token", "group"}
    <3>1. CASE Cycle!Authorize
      <4>1. authorized' = authorized \union {Cycle!Authorizes(step)} /\ step \in {"authorize app", "authorize token", "authorize group"}
        BY <3>1 DEF Cycle!Authorize
      <4>2. Cycle!Authorizes(step) \in {"app", "token", "group"}
        BY <4>1 DEF Cycle!Authorizes
      <4> QED  BY <1>1, <4>1, <4>2
    <3>2. CASE authorized' = authorized
      BY <1>1, <3>2
    <3> QED  BY <1>6, <3>1, <3>2, Zenon DEF Cycle!Precheck, Cycle!Nudge, Cycle!AwaitBanned, Cycle!Recheck, Cycle!Deliver
  <2>5. receiver' \in Deliveries
    <3>1. receiver' = receiver \/ (receiver' = Append(receiver, step) /\ step \in {"deliver 1", "deliver 2"})
      BY <1>6 DEF Cycle!Authorize, Cycle!Precheck, Cycle!Nudge, Cycle!AwaitBanned, Cycle!Recheck, Cycle!Deliver
    <3> QED  BY <1>1, <3>1, DeliveryKeeps
  <2> QED  BY <1>1, <2>1, <2>3, <2>4, <2>5 DEF CycleShape
<1>7. CASE Cycle!FinalChecks
  <2>1. UNCHANGED <<there, receiver, astray, authorized, thrown>> /\ step' = "ended"
    BY <1>7 DEF Cycle!FinalChecks
  <2> QED  BY <1>1, <2>1 DEF CycleShape, Thrown
<1>8. CASE Cycle!ScimReads \/ Cycle!ScimWrites \/ UNCHANGED cycleVars
  <2>1. UNCHANGED <<there, receiver, astray, authorized, thrown, step>>
    BY <1>8 DEF Cycle!ScimReads, Cycle!ScimWrites, cycleVars
  <2> QED  BY <1>1, <2>1 DEF CycleShape
<1> QED  BY <1>3, <1>4, <1>5, <1>6, <1>7, <1>8 DEF Cycle!Next

LEMMA StepsAreListed ==
  UnderWay \subseteq {Cycle!Order[i] : i \in DOMAIN Cycle!Order} \union {Cycle!Finally[i] : i \in DOMAIN Cycle!Finally}
<1> DEFINE O == {Cycle!Order[i] : i \in DOMAIN Cycle!Order}
           F == {Cycle!Finally[i] : i \in DOMAIN Cycle!Finally}
<1>1. {1, 2, 3, 4, 5, 6, 7, 8, 9, 10, 11, 12, 13, 14} \subseteq 1..14 /\ {1, 2, 3, 4, 5} \subseteq 1..5
  OBVIOUS
<1>2. \A i \in 1..14 : Cycle!Order[i] \in O
  BY OrderIs, Zenon
<1>3. \A i \in 1..5 : Cycle!Finally[i] \in F
  BY FinallyIs, Zenon
<1> HIDE DEF O, F
<1>4. {"precheck", "authorize app", "install app", "authorize token", "create token", "configure", "drop token",
       "deliver 1", "authorize group", "leave group", "nudge", "await ban", "recheck", "deliver 2"} \subseteq O
  BY <1>1, <1>2, OrderIs
<1>5. {"restore group", "nudge again", "await return", "drop tokens", "delete app"} \subseteq F
  BY <1>1, <1>3, FinallyIs
<1>6. UnderWay \subseteq O \union F
  BY <1>4, <1>5 DEF UnderWay, UpToFirst, UpToSecond, Ending
<1> QED  BY <1>6 DEF O, F

LEMMA CycleTypes ==
  ASSUME CycleInv, CycleShape
  PROVE  Cycle!TypeOK
<1>1. Len(receiver) <= 2
  <2>1. \A a, b : Len(<<>>) <= 2 /\ Len(<<a>>) <= 2 /\ Len(<<a, b>>) <= 2
    OBVIOUS
  <2> QED  BY <2>1, Zenon DEF CycleShape, Deliveries
<1>2. step \in {Cycle!Order[i] : i \in DOMAIN Cycle!Order} \union {Cycle!Finally[i] : i \in DOMAIN Cycle!Finally}
                 \union {"final", "ended"}
  BY StepsAreListed, Zenon DEF CycleInv, StepKnown
<1> QED  BY <1>1, <1>2, Zenon DEF CycleInv, CycleShape, CycleTyped, Present, Cycle!TypeOK

\* The baselines: a command that runs has not yet read the absence five times.
PermTyped ==
  /\ role \in {"none", "standing", "temporary"} /\ absent \in 0..5 /\ deletes \in 0..3
  /\ ended \in {"none", "failed", "done"} /\ command \in {"none", "runs"}
  /\ Baselines!Doing => absent < 5

LEMMA PermTypedMoves ==
  ASSUME PermTyped, Moves, absent' = absent, deletes' = deletes, role' \in {role, "temporary"}
  PROVE  PermTyped'
<1>1. ended' \in {ended, "failed"} /\ command' \in {command, "none"}
  BY AbandonsIs, Zenon DEF Moves
<1> QED  BY <1>1 DEF PermTyped, Baselines!Doing

LEMMA PermTypedNext ==
  ASSUME PermTyped, Baselines!Next \/ UNCHANGED baselineVars
  PROVE  PermTyped'
<1>1. CASE Baselines!OnObject \/ Baselines!ReadFails \/ Baselines!Verify \/ Baselines!Record
  BY <1>1, OnObjectMoves, ReadFailsMoves, VerifyMoves, RecordMoves, PermTypedMoves DEF Untouched
<1>2. CASE Baselines!Begin
  <2>1. role' = role /\ absent' = 0 /\ deletes' = 0 /\ ended' = "none" /\ command' = "runs"
    BY <1>2 DEF Baselines!Begin
  <2> QED  BY <2>1 DEF PermTyped
<1>3. CASE Baselines!EnsurePermission
  <2>1. absent' = absent /\ deletes' = deletes /\ role' \in {role, "temporary"} /\ Moves
    BY <1>3, PermissionMoves
  <2> QED  BY <2>1, PermTypedMoves
<1>4. CASE Baselines!Doing /\ Baselines!GiveBack
  <2>1. ended' = ended /\ absent < 5 /\ deletes \in 0..3
    BY <1>4 DEF Baselines!GiveBack, PermTyped
  <2>2. CASE deletes = 0 /\ Baselines!Removed /\ UNCHANGED <<absent, command>>
    BY <2>1, <2>2 DEF PermTyped, Baselines!Removed, Baselines!Doing
  <2>3. CASE /\ absent' = absent + 1 /\ UNCHANGED <<role, deletes>>
             /\ (absent' = Baselines!Confirmed /\ command' = "none") \/ (absent' # Baselines!Confirmed /\ command' = command)
    BY <2>1, <2>3 DEF PermTyped, Baselines!Confirmed, Baselines!Doing
  <2>4. CASE absent' = 0 /\ command' = command /\ ((deletes < 3 /\ Baselines!Removed) \/ UNCHANGED <<role, deletes>>)
    BY <2>1, <2>4 DEF PermTyped, Baselines!Removed, Baselines!Doing
  <2> QED  BY <1>4, <2>2, <2>3, <2>4, Zenon DEF Baselines!GiveBack
<1>5. CASE Baselines!GivesUp
  <2>1. UNCHANGED <<role, absent, deletes>> /\ ended' = "failed" /\ command' = "none"
    BY <1>5 DEF Baselines!GivesUp
  <2> QED  BY <2>1 DEF PermTyped, Baselines!Doing
<1>6. CASE Baselines!Done
  <2>1. UNCHANGED <<role, absent, deletes>> /\ ended' = "done" /\ (command' = command \/ command' = "none")
    BY <1>6, Zenon DEF Baselines!Done, Baselines!permission
  <2> QED  BY <2>1 DEF PermTyped, Baselines!Doing
<1>7. CASE Baselines!OthersChange \/ UNCHANGED baselineVars
  <2>1. UNCHANGED <<role, absent, deletes, command>> /\ ended' = ended
    BY <1>7, Zenon DEF Baselines!OthersChange, Baselines!permission, baselineVars
  <2> QED  BY <2>1 DEF PermTyped, Baselines!Doing
<1> QED  BY <1>1, <1>2, <1>3, <1>4, <1>5, <1>6, <1>7, Zenon DEF Baselines!Next, Baselines!Takes

LEMMA BaselineTypes ==
  ASSUME MadeTyped, PermTyped
  PROVE  Baselines!TypeOK
<1>1. ASSUME NEW x \in Baselines!Objects
      PROVE  tenant[x].n \in 0..2 /\ tenant[x].scope \subseteq {"own", "other"}
  <2>1. tenant[x] \in Things
    BY DEF MadeTyped
  <2> QED  BY <2>1 DEF Things
<1> QED  BY <1>1, Zenon DEF PermTyped, Baselines!TypeOK

LEMMA BoundsAre ==
  /\ MaxProofs \in Nat /\ MaxSessions \in Nat /\ MaxProbes \in Nat /\ MaxClones \in Nat
  /\ MaxPasskeys \in Nat /\ MaxModes \in Nat
BY OperatorSideAssumption

\* The single sign-on proof owns, and records, one session at most.
AtMostOne(S) == \A a, b \in S : a = b

SsoTyped ==
  /\ vm \in {"off", "starting", "running"} /\ guest \in {"clean", "staged", "proved"}
  /\ {late, aged, tidying, staged, proof, guestError} \subseteq BOOLEAN
  /\ leg \in {"idle", "readying", "connecting", "inspecting", "staging", "proving", "tidyGuest",
              "tidySessions", "deleting"}
  /\ ssoEnd \in {"none", "good", "failed", "died"}
  /\ opened \in 0..MaxSessions /\ proofs \in 0..MaxProofs
SessionsTyped ==
  /\ desk \subseteq Sso!Sessions /\ doomed \subseteq Sso!Sessions
  /\ owned \subseteq Sso!Sessions /\ receipt \subseteq Sso!Sessions
  /\ AtMostOne(owned) /\ AtMostOne(receipt)

LEMMA SsoTypedNext ==
  ASSUME SsoTyped, Sso!Next \/ UNCHANGED ssoVars
  PROVE  SsoTyped'
<1> USE BoundsAre DEF SsoTyped, Sso!host, Sso!files, Sso!locals, Sso!Ends, Sso!To
<1>1. CASE Sso!SessionOpens \/ Sso!SessionActive \/ Sso!SessionEnds \/ Sso!VmRuns
  BY <1>1 DEF Sso!SessionOpens, Sso!SessionActive, Sso!SessionEnds, Sso!VmRuns
<1>2. CASE Sso!StagingLands \/ Sso!FifteenMinutes
  BY <1>2 DEF Sso!StagingLands, Sso!FifteenMinutes
<1>3. CASE Sso!RunStarts
  <2>1. vm' \in {"off", "starting", "running"}
    BY <1>3 DEF Sso!RunStarts
  <2>2. proofs' \in 0..MaxProofs
    BY <1>3 DEF Sso!RunStarts
  <2>3. {late', aged', tidying', staged', proof', guestError'} \subseteq BOOLEAN
    BY <1>3 DEF Sso!RunStarts
  <2>4. opened' = opened /\ guest' = guest /\ leg' \in {"readying", "idle"} /\ ssoEnd' \in {ssoEnd, "failed"}
    BY <1>3 DEF Sso!RunStarts
  <2> QED  BY <2>1, <2>2, <2>3, <2>4
<1>11. CASE Sso!BecomesReady
  BY <1>11 DEF Sso!BecomesReady
<1>4. CASE Sso!Observe
  BY <1>4 DEF Sso!Observe
<1>5. CASE Sso!Inspect \/ Sso!Stage
  BY <1>5 DEF Sso!Inspect, Sso!Stage
<1>6. CASE Sso!Prove
  BY <1>6 DEF Sso!Prove
<1>7. CASE Sso!TidyGuest \/ Sso!TidySessions \/ Sso!DeleteSession
  BY <1>7 DEF Sso!TidyGuest, Sso!TidySessions, Sso!DeleteSession
<1>8. CASE Sso!SessionsGone \/ Sso!Dies
  BY <1>8 DEF Sso!SessionsGone, Sso!Dies, Sso!Verdict
<1>9. CASE Sso!CleanupStarts
  <2>1. proofs' \in 0..MaxProofs
    BY <1>9 DEF Sso!CleanupStarts
  <2>2. {late', aged', tidying', staged', proof', guestError'} \subseteq BOOLEAN
    BY <1>9 DEF Sso!CleanupStarts
  <2>3. UNCHANGED <<vm, guest, opened, ssoEnd>> /\ leg' = "tidyGuest"
    BY <1>9 DEF Sso!CleanupStarts
  <2> QED  BY <2>1, <2>2, <2>3
<1>10. CASE UNCHANGED ssoVars
  BY <1>10 DEF ssoVars
<1> QED  BY <1>1, <1>2, <1>3, <1>4, <1>5, <1>6, <1>7, <1>8, <1>9, <1>10, <1>11 DEF Sso!Next

LEMMA SessionsTypedNext ==
  ASSUME SsoTyped, SessionsTyped, Sso!Next \/ UNCHANGED ssoVars
  PROVE  SessionsTyped'
<1> USE BoundsAre DEF SessionsTyped, AtMostOne, Sso!host, Sso!files, Sso!locals
<1>1. CASE Sso!SessionOpens
  <2>1. /\ UNCHANGED <<owned, receipt, doomed>>
        /\ \E who \in {"actor", "other"} :
             \/ desk' = desk \union {[id |-> 0, who |-> who]}
             \/ desk' = desk \union {[id |-> opened + 1, who |-> who]} /\ opened < MaxSessions
    BY <1>1 DEF Sso!SessionOpens
  <2>2. \A who \in {"actor", "other"} :
          /\ [id |-> 0, who |-> who] \in Sso!Sessions
          /\ opened < MaxSessions => [id |-> opened + 1, who |-> who] \in Sso!Sessions
    BY DEF SsoTyped, Sso!Sessions
  <2> QED  BY <2>1, <2>2
<1>2. CASE Sso!SessionActive
  <2>1. UNCHANGED <<owned, receipt, doomed>> /\ opened < MaxSessions
        /\ \E s \in desk : desk' = (desk \ {s}) \union {[s EXCEPT !.id = opened + 1]}
    BY <1>2 DEF Sso!SessionActive
  <2>2. \A s \in Sso!Sessions : [s EXCEPT !.id = opened + 1] \in Sso!Sessions
    BY <2>1 DEF SsoTyped, Sso!Sessions
  <2> QED  BY <2>1, <2>2
<1>3. CASE Sso!SessionEnds
  BY <1>3 DEF Sso!SessionEnds
<1>4. CASE Sso!Observe
  BY <1>4 DEF Sso!Observe
<1>5. CASE Sso!RunStarts \/ Sso!CleanupStarts
  BY <1>5 DEF Sso!RunStarts, Sso!CleanupStarts
<1>6. CASE Sso!TidySessions
  BY <1>6 DEF Sso!TidySessions
<1>7. CASE Sso!DeleteSession
  BY <1>7 DEF Sso!DeleteSession
<1>8. CASE \/ Sso!VmRuns \/ Sso!StagingLands \/ Sso!FifteenMinutes \/ Sso!BecomesReady \/ Sso!Inspect
           \/ Sso!Stage \/ Sso!Prove \/ Sso!TidyGuest \/ Sso!SessionsGone \/ Sso!Dies \/ UNCHANGED ssoVars
  <2>1. UNCHANGED <<desk, owned, receipt, doomed>>
    BY <1>8 DEF Sso!VmRuns, Sso!StagingLands, Sso!FifteenMinutes, Sso!BecomesReady, Sso!Inspect, Sso!Stage,
         Sso!Prove, Sso!TidyGuest, Sso!SessionsGone, Sso!Dies, ssoVars
  <2> QED  BY <2>1
<1> QED  BY <1>1, <1>2, <1>3, <1>4, <1>5, <1>6, <1>7, <1>8 DEF Sso!Next

LEMMA OneAtMost ==
  ASSUME NEW S, AtMostOne(S)
  PROVE  Sso!Cardinality(S) <= 1
<1>1. Sso!Cardinality(S) = Cardinality(S)
  BY DEF Sso!Cardinality, Cardinality
<1>2. CASE S = {}
  BY <1>1, <1>2, FS_EmptySet
<1>3. ASSUME NEW a \in S
      PROVE  Cardinality(S) <= 1
  <2>1. S = {a}
    BY DEF AtMostOne
  <2>2. Cardinality({a}) = 1
    BY FS_Singleton
  <2> QED  BY <2>1, <2>2
<1> QED  BY <1>1, <1>2, <1>3

LEMMA SsoTypes ==
  ASSUME SsoTyped, SessionsTyped
  PROVE  Sso!TypeOK
<1>1. Sso!Cardinality(receipt) <= 1 /\ Sso!Cardinality(owned) <= 1
  BY OneAtMost DEF SessionsTyped
<1> QED  BY <1>1 DEF SsoTyped, SessionsTyped, Sso!TypeOK

\* A run of the probe that has begun has a number.
Strides == {"idle", "creating", "listing", "checking", "cloning", "pushing", "branch", "key",
            "verifying", "finallyBranch", "finallyKey", "end"}
ProbeThings ==
  /\ deployKeys \subseteq 1..MaxProbes /\ branches \subseteq 1..MaxProbes /\ unlanded \subseteq 1..MaxProbes
  /\ probe \in 0..MaxProbes /\ stride \in Strides /\ (stride # "idle" => probe >= 1)
ProbeEndings == {"none", "good", "failed", "cleanup failed", "died"}
ProbeFlags ==
  /\ keyId \in BOOLEAN /\ branchMayExist \in BOOLEAN /\ confirmed \in BOOLEAN /\ probeOk \in BOOLEAN
  /\ probeErrors \subseteq {"branch", "key"} /\ clones \in 0..MaxClones
  /\ probeEnd \in ProbeEndings

LEMMA ProbeThingsNext ==
  ASSUME ProbeThings, Probe!Next \/ UNCHANGED probeVars
  PROVE  ProbeThings'
<1> USE BoundsAre DEF ProbeThings, Strides, Probe!remote, Probe!To
<1>1. stride # "idle" => probe \in 1..MaxProbes
  OBVIOUS
<1>2. CASE Probe!PostLands
  BY <1>2 DEF Probe!PostLands
<1>3. CASE Probe!ProbeStarts
  BY <1>3 DEF Probe!ProbeStarts
<1>4. CASE Probe!CreateKey
  BY <1>1, <1>4 DEF Probe!CreateKey
<1>5. CASE Probe!Push
  BY <1>1, <1>5 DEF Probe!Push
<1>6. CASE Probe!RemoveBranch \/ Probe!FinallyBranch
  BY <1>6 DEF Probe!RemoveBranch, Probe!FinallyBranch, Probe!BranchRemoved, Probe!BranchRemovalFails
<1>7. CASE Probe!RemoveKey \/ Probe!FinallyKey
  BY <1>7 DEF Probe!RemoveKey, Probe!FinallyKey, Probe!KeyRemoved, Probe!KeyRemovalFails
<1>8. CASE Probe!ListByTitle \/ Probe!CheckKey \/ Probe!Clone \/ Probe!Verify
  BY <1>8 DEF Probe!ListByTitle, Probe!CheckKey, Probe!Clone, Probe!Verify
<1>9. CASE Probe!ProbeEnds \/ Probe!ProbeDies
  BY <1>9 DEF Probe!ProbeEnds, Probe!ProbeDies
<1>10. CASE UNCHANGED probeVars
  BY <1>10 DEF probeVars
<1> QED  BY <1>2, <1>3, <1>4, <1>5, <1>6, <1>7, <1>8, <1>9, <1>10 DEF Probe!Next

LEMMA ProbeFlagsNext ==
  ASSUME ProbeFlags, Probe!Next \/ UNCHANGED probeVars
  PROVE  ProbeFlags'
<1> USE BoundsAre DEF ProbeFlags, Probe!knows
<1>10. "none" \in ProbeEndings
  BY Zenon DEF ProbeEndings
<1>1. CASE Probe!PostLands \/ Probe!CreateKey \/ Probe!ListByTitle
  BY <1>1 DEF Probe!PostLands, Probe!CreateKey, Probe!ListByTitle
<1>2. CASE Probe!ProbeStarts
  <2>1. 0 \in 0..MaxClones
    OBVIOUS
  <2>2. /\ keyId' = FALSE /\ branchMayExist' = FALSE /\ confirmed' = FALSE /\ probeOk' = FALSE
        /\ clones' = 0 /\ probeErrors' = {} /\ probeEnd' = "none"
    BY <1>2, Zenon DEF Probe!ProbeStarts
  <2> QED  BY <1>10, <2>1, <2>2, Zenon
<1>3. CASE Probe!CheckKey \/ Probe!Push
  BY <1>3 DEF Probe!CheckKey, Probe!Push
<1>4. CASE Probe!Clone
  BY <1>4 DEF Probe!Clone
<1>5. CASE Probe!RemoveBranch \/ Probe!FinallyBranch
  BY <1>5 DEF Probe!RemoveBranch, Probe!FinallyBranch, Probe!BranchRemoved, Probe!BranchRemovalFails
<1>6. CASE Probe!RemoveKey \/ Probe!FinallyKey
  BY <1>6 DEF Probe!RemoveKey, Probe!FinallyKey, Probe!KeyRemoved, Probe!KeyRemovalFails
<1>7. CASE Probe!Verify
  <2>1. probeOk' \in BOOLEAN /\ UNCHANGED <<keyId, branchMayExist, confirmed, clones, probeErrors, probeEnd>>
    BY <1>7 DEF Probe!Verify
  <2> QED  BY <2>1
<1>8. CASE Probe!ProbeEnds \/ Probe!ProbeDies
  <2>1. /\ UNCHANGED <<keyId, branchMayExist, confirmed, clones, probeErrors, probeOk>>
        /\ probeEnd' \in ProbeEndings
    BY <1>8, Zenon DEF Probe!ProbeEnds, Probe!ProbeDies, ProbeEndings
  <2> QED  BY <2>1
<1>9. CASE UNCHANGED probeVars
  BY <1>9 DEF probeVars
<1> QED  BY <1>1, <1>2, <1>3, <1>4, <1>5, <1>6, <1>7, <1>8, <1>9 DEF Probe!Next

LEMMA ProbeTypes ==
  ASSUME ProbeThings, ProbeFlags
  PROVE  Probe!TypeOK
BY Zenon DEF ProbeThings, ProbeFlags, ProbeEndings, Strides, Probe!TypeOK

\* The passkeys.
PasskeyKeys == [n : 1..MaxPasskeys, mark : {"run", "default", "own"}]

LEMMA PasskeyTypedNext ==
  ASSUME Passkey!TypeOK, Passkey!Next \/ UNCHANGED passkeyVars
  PROVE  Passkey!TypeOK'
<1> USE BoundsAre DEF Passkey!account, Passkey!clicked
<1> DEFINE Others == {"none", "register", "cleanup"}
           Pages == {"none", "signing in", "register", "naming", "cleanup", "looked", "dialog", "waiting"}
           Clicked == removed \subseteq PasskeyKeys /\ target \subseteq PasskeyKeys /\ swapped \subseteq PasskeyKeys
<1>1. /\ passkeys \subseteq PasskeyKeys /\ inventory \subseteq PasskeyKeys /\ Clicked
      /\ numbered \in 0..MaxPasskeys /\ modes \in 0..MaxModes /\ mode \in Others /\ onPage \in Pages
  BY DEF Passkey!TypeOK, PasskeyKeys
<1>2. SUFFICES /\ (passkeys' \subseteq PasskeyKeys /\ inventory' \subseteq PasskeyKeys /\ Clicked')
               /\ numbered' \in 0..MaxPasskeys /\ modes' \in 0..MaxModes /\ mode' \in Others /\ onPage' \in Pages
  BY DEF Passkey!TypeOK, PasskeyKeys
<1>3. ASSUME NEW mark \in {"run", "default", "own"}, Passkey!Made(mark)
      PROVE  passkeys' \subseteq PasskeyKeys /\ numbered' \in 0..MaxPasskeys
  <2> HIDE DEF Pages, Others
  <2>1. numbered + 1 \in 1..MaxPasskeys /\ numbered + 1 \in 0..MaxPasskeys
    BY <1>1, <1>3 DEF Passkey!Made
  <2>2. [n |-> numbered + 1, mark |-> mark] \in PasskeyKeys
    BY <2>1, Zenon DEF PasskeyKeys
  <2>3. numbered' = numbered + 1 /\ passkeys' = passkeys \union {[n |-> numbered + 1, mark |-> mark]}
    BY <1>3, Zenon DEF Passkey!Made
  <2> QED  BY <1>1, <2>1, <2>2, <2>3
<1>4. CASE Passkey!ActorAdds
  BY <1>1, <1>3, <1>4 DEF Passkey!ActorAdds
<1>5. CASE Passkey!ActorRemoves \/ Passkey!GraphSees
  BY <1>1, <1>5 DEF Passkey!ActorRemoves, Passkey!GraphSees
<1>6. CASE Passkey!ModeStarts
  <2>1. modes \in 0..MaxModes /\ modes < MaxModes => modes + 1 \in 0..MaxModes
    OBVIOUS
  <2>2. modes < MaxModes /\ modes' = modes + 1 /\ UNCHANGED <<passkeys, inventory, numbered, removed, target, swapped>>
    BY <1>6, Zenon DEF Passkey!ModeStarts
  <2>3. mode' \in {"register", "cleanup"} /\ onPage' = "signing in"
    BY <1>6, Zenon DEF Passkey!ModeStarts
  <2>4. mode' \in Others /\ onPage' \in Pages
    BY <2>3, Zenon
  <2> HIDE DEF Pages, Others
  <2> QED  BY <1>1, <2>1, <2>2, <2>4
<1>7. CASE Passkey!ModeStops \/ Passkey!Confirms
  BY <1>1, <1>7 DEF Passkey!ModeStops, Passkey!Confirms
<1>8. CASE Passkey!SignsIn
  BY <1>1, <1>8 DEF Passkey!SignsIn
<1>9. CASE Passkey!Registers
  BY <1>1, <1>3, <1>9 DEF Passkey!Registers
<1>10. CASE Passkey!Names
  <2>1. \A k \in PasskeyKeys : [k EXCEPT !.mark = "run"] \in PasskeyKeys
    BY DEF PasskeyKeys
  <2>2. \E k \in passkeys : passkeys' = (passkeys \ {k}) \union {[k EXCEPT !.mark = "run"]}
    BY <1>10 DEF Passkey!Names
  <2>3. UNCHANGED <<inventory, numbered, removed, target, swapped, modes>> /\ mode' = "none" /\ onPage' = "none"
    BY <1>10 DEF Passkey!Names
  <2> QED  BY <1>1, <2>1, <2>2, <2>3
<1>11. CASE Passkey!Looks \/ Passkey!Clicks \/ Passkey!Deletes
  BY <1>1, <1>11 DEF Passkey!Looks, Passkey!Clicks, Passkey!Deletes
<1>12. CASE UNCHANGED passkeyVars
  BY <1>1, <1>12 DEF passkeyVars
<1> QED  BY <1>4, <1>5, <1>6, <1>7, <1>8, <1>9, <1>10, <1>11, <1>12 DEF Passkey!Next

LEMMA LabVariables ==
  ASSUME LabCore, LabTyped
  PROVE  Lab!TypeOK
<1>1. LabPhase /\ LabSent
  BY DEF LabCore
<1>4. deployed \in 0..4 /\ cleaned \in 0..7
  BY <1>1, Zenon DEF LabPhase
<1>2. pendingOp \in Lab!PlanOperations \union {"none"}
  <2>1. CASE deployed < 4 /\ cleaned = 0 /\ pendingOp = Lab!Deployment[deployed + 1]
    <3>1. deployed + 1 \in 1..4
      BY <1>4, <2>1
    <3> QED  BY <2>1, <3>1, DeploymentIs, Zenon DEF Lab!PlanOperations, Lab!Elements
  <2>2. CASE cleaned < 7 /\ pendingOp = Lab!Cleanup[cleaned + 1]
    <3>1. cleaned + 1 \in 1..7
      BY <1>4, <2>2
    <3> QED  BY <2>2, <3>1, CleanupIs, Zenon DEF Lab!PlanOperations, Lab!Elements
  <2> QED  BY <1>1, <2>1, <2>2, Zenon DEF LabPhase
<1>3. deployed \in 0..Len(Lab!Deployment) /\ cleaned \in 0..Len(Lab!Cleanup)
  BY <1>1, DeploymentIs, CleanupIs, Zenon DEF LabPhase
<1> QED  BY <1>1, <1>2, <1>3 DEF LabSent, LabTyped, LabThings, LabModes, Lab!TypeOK

\* The variables of every part have their types, whichever part runs.
THEOREM OperatorSideTyped == Spec => []TypeOK
<1> DEFINE Inv == /\ part \in Parts
                  /\ LabCore /\ LabTyped /\ CycleInv /\ CycleShape
                  /\ TodoInv /\ MadeInv /\ family \in Families /\ PermTyped
                  /\ SsoTyped /\ SessionsTyped /\ ProbeThings /\ ProbeFlags /\ Passkey!TypeOK
<1>1. Init => Inv
  <2>1. ASSUME Init
        PROVE  part \in Parts /\ TodoInv /\ family \in Families /\ PermTyped
    <3>1. Baselines!Init /\ family \in KnownFamilies /\ part \in Parts
      BY <2>1, FamilyIs DEF Init
    <3>2. todo = <<>> /\ returned = FALSE /\ family \in Families /\ command = "none" /\ ended = "none"
          /\ absent = 0 /\ deletes = 0 /\ role \in {"none", "standing"}
      BY <3>1, Zenon DEF Baselines!Init
    <3>3. todo \in Seq(StepsOf(family))
      BY <3>2
    <3> QED  BY <3>1, <3>2, <3>3 DEF TodoInv, PermTyped, Baselines!Doing
  <2>2. ASSUME Init
        PROVE  CycleShape
    <3>1. receiver = <<>> /\ astray = {} /\ authorized = {} /\ thrown = FALSE /\ there \subseteq Present
      BY <2>2 DEF Init, Cycle!Init, Present
    <3> QED  BY <3>1, Zenon DEF CycleShape, Deliveries
  <2>3. ASSUME Init
        PROVE  SsoTyped /\ SessionsTyped
    <3>1. Sso!Init
      BY <2>3 DEF Init
    <3>2. 0 \in 0..MaxSessions /\ 0 \in 0..MaxProofs
      BY BoundsAre
    <3> QED  BY <3>1, <3>2, Zenon DEF Sso!Init, SsoTyped, SessionsTyped, AtMostOne
  <2>4. ASSUME Init
        PROVE  ProbeThings /\ ProbeFlags
    <3>1. Probe!Init /\ "none" \in ProbeEndings
      BY <2>4, Zenon DEF Init, ProbeEndings
    <3>2. 0 \in 0..MaxProbes /\ 0 \in 0..MaxClones
      BY BoundsAre
    <3> QED  BY <3>1, <3>2, Zenon DEF Probe!Init, ProbeThings, ProbeFlags, Strides
  <2>5. ASSUME Init
        PROVE  Passkey!TypeOK
    BY <2>5, BoundsAre DEF Init, Passkey!Init, Passkey!TypeOK
  <2> QED  BY <2>1, <2>2, <2>3, <2>4, <2>5, LabStart, ReportsStart, CycleInit, MadeFirst
<1>2. Inv /\ [Next]_operatorVars => Inv'
  <2> SUFFICES ASSUME Inv, [Next]_operatorVars
               PROVE  Inv'
    OBVIOUS
  <2>1. /\ Lab!Next \/ UNCHANGED labVars
        /\ Cycle!Next \/ UNCHANGED cycleVars
        /\ Baselines!Next \/ UNCHANGED baselineVars
        /\ Sso!Next \/ UNCHANGED ssoVars
        /\ Probe!Next \/ UNCHANGED probeVars
        /\ Passkey!Next \/ UNCHANGED passkeyVars
        /\ UNCHANGED part
    BY EachSteps
  <2>2. LabCore' /\ LabTyped' /\ CycleInv' /\ CycleShape'
    BY <2>1, LabNext, LabTypedNext, CycleNext, CycleShapeNext
  <2>3. TodoInv' /\ MadeInv' /\ family' = family /\ PermTyped'
    BY <2>1, TodoNext, MadeNext, FamilyStays, PermTypedNext
  <2>4. SsoTyped' /\ SessionsTyped'
    BY <2>1, SsoTypedNext, SessionsTypedNext
  <2>5. ProbeThings' /\ ProbeFlags' /\ Passkey!TypeOK'
    BY <2>1, ProbeThingsNext, ProbeFlagsNext, PasskeyTypedNext
  <2> QED  BY <2>1, <2>2, <2>3, <2>4, <2>5
<1>3. PageInv /\ ExerciseInv /\ Inv => TypeOK
  <2>1. PageInv /\ ExerciseInv => Page!TypeOK /\ Exercise!TypeOK
    BY DEF PageInv, PageTyped, ExerciseInv
  <2> QED  BY <2>1, LabVariables, CycleTypes, BaselineTypes, SsoTypes, ProbeTypes DEF TypeOK, MadeInv
<1> QED  BY <1>1, <1>2, <1>3, PageAlways, ExerciseAlways, PTL DEF Spec

=============================================================================
