----------------------- MODULE SharedOperationJournal -----------------------
(***************************************************************************)
(* The shared operation journal (api/shared-operation-journal.ts): one row *)
(* of an Azure table per operation tuple, read and conditionally written   *)
(* by concurrent calls of several processes.  The module follows one row.  *)
(*                                                                         *)
(* A call is one invocation of acquireDispatch, recordTerminal,            *)
(* recordAmbiguous, resolveAmbiguous or retireTerminal.  It alternates     *)
(* with the table service.  A write is a request put on the wire; it lands *)
(* in a step of its own, before or after its caller stopped waiting for    *)
(* it; its reply may be lost, and is heard in a third step, when the row   *)
(* may have moved on.  A read is one step (the row as it is, or no answer) *)
(* together with what the code computes from it: nobody can see any of     *)
(* that before the call's next request lands or the call has returned.     *)
(***************************************************************************)
EXTENDS Naturals

CONSTANTS
  Calls,             \* the invocations of the journal
  Owners, NoOwner,   \* lease owner aliases, and the empty alias
  Times,             \* instants the callers' clocks may show
  Leases,            \* lease durations the callers may ask for
  Retention,         \* the configured retention
  MayCall,           \* [Calls -> SUBSET Operations]: what each call may be
  CreateReturnsEtag, \* FALSE: a successful insert may come back with no ETag
  MayDamage          \* TRUE: another program may spoil the row

Operations == {"acquireDispatch", "recordTerminal", "recordAmbiguous",
               "resolveAmbiguous", "retireTerminal"}

ASSUME JournalAssumption ==
  /\ NoOwner \notin Owners
  /\ Times \subseteq Nat \ {0} /\ Leases \subseteq Nat \ {0}
  /\ Retention \in Nat \ {0}
  /\ MayCall \in [Calls -> SUBSET Operations]
  /\ CreateReturnsEtag \in BOOLEAN /\ MayDamage \in BOOLEAN

VARIABLES
  row,        \* the row the table service holds
  lastEtag,   \* ETags are unique: the last one the service issued
  wire,       \* write requests that have not reached the service
  pc,         \* per call: what it waits for
  args,       \* per call: its arguments
  write,      \* per call: the last write it sent
  reply,      \* per call: the reply on its way back to it
  result,     \* per call: what it returned
  applied,    \* history: the calls whose last write the service applied
  held,       \* history, per running call: what the row was since it began
  executor    \* history: the owner under which this life of the row executed

vars == <<row, lastEtag, wire, pc, args, write, reply, result, applied, held, executor>>

-----------------------------------------------------------------------------
\* Records.  The time 0 stands for the empty string; `born' (the ETag of the
\* row's first version) tells one life of the row from the next and is never
\* looked at by the code.

TerminalStates == {"succeeded", "failed"}
AmbiguityReasons == {"conditional-write-uncertain", "executing-lease-expired"}

NoRecord == [state |-> "absent", version |-> 0, owner |-> NoOwner,
             expires |-> 0, retain |-> 0, terminalAt |-> 0, reason |-> "",
             etag |-> 0, born |-> 0]

\* The shapes parseStored accepts; it refuses every other row as corrupt.
WellFormed(r) ==
  \/ /\ r.state \in {"prepared", "executing"}
     /\ r.owner # NoOwner /\ r.expires # 0 /\ r.terminalAt = 0 /\ r.reason = ""
  \/ /\ r.state \in TerminalStates
     /\ r.owner = NoOwner /\ r.expires = 0 /\ r.terminalAt # 0 /\ r.reason = ""
  \/ /\ r.state = "ambiguous"
     /\ r.owner = NoOwner /\ r.expires = 0 /\ r.terminalAt = 0
     /\ r.reason \in AmbiguityReasons

\* Faulty variant: an uncertain write is believed without comparing.
MatchesAnything(r, body) == TRUE

\* The stored record is the one a write intended, whatever its ETag.
MatchesStored(r, body) ==
  /\ r.state = body.state /\ r.version = body.version
  /\ r.owner = body.owner /\ r.expires = body.expires
  /\ r.retain = body.retain /\ r.terminalAt = body.terminalAt
  /\ r.reason = body.reason

-----------------------------------------------------------------------------
\* What each operation stores over the record r it read.

NewEntity(a) ==
  [state |-> "prepared", version |-> 1, owner |-> a.owner,
   expires |-> a.now + a.lease, retain |-> a.now + Retention,
   terminalAt |-> 0, reason |-> "", etag |-> 0, born |-> 0]

\* The next version of r.
Successor(r, state, owner, expires, retain, terminalAt, reason) ==
  [state |-> state, version |-> r.version + 1, owner |-> owner,
   expires |-> expires, retain |-> retain, terminalAt |-> terminalAt,
   reason |-> reason, etag |-> r.etag, born |-> r.born]

TakenOver(r, a) ==
  Successor(r, r.state, a.owner, a.now + a.lease, r.retain, r.terminalAt, r.reason)

Executing(r, a) ==
  Successor(r, "executing", r.owner, a.now + a.lease, r.retain, r.terminalAt, r.reason)

\* Faulty variants: a reason parseStored does not know, an owner left in place,
\* an expired execution that may be claimed again.
AmbiguousMisspelt(r, reason) ==
  Successor(r, "ambiguous", NoOwner, 0, r.retain, r.terminalAt, "lease-expired")
AmbiguousStillOwned(r, reason) ==
  Successor(r, "ambiguous", r.owner, r.expires, r.retain, r.terminalAt, reason)
PreparedAgain(r, reason) ==
  Successor(r, "prepared", r.owner, r.expires, r.retain, r.terminalAt, r.reason)

Ambiguous(r, reason) ==
  Successor(r, "ambiguous", NoOwner, 0, r.retain, r.terminalAt, reason)

\* Faulty variant: the terminal record still names its lease.
TerminalStillLeased(r, a) ==
  Successor(r, a.choice, r.owner, r.expires, a.now + Retention, a.now, "")

Terminal(r, a) ==
  Successor(r, a.choice, NoOwner, 0, a.now + Retention, a.now, "")

\* Faulty variant: the resolved record keeps the reason of its ambiguity.
ResolvedStillAmbiguous(r, a) ==
  Successor(r, a.choice, r.owner, r.expires, a.now + Retention, a.now, r.reason)

Resolved(r, a) ==
  Successor(r, a.choice, r.owner, r.expires, a.now + Retention, a.now, "")

-----------------------------------------------------------------------------
\* Control: a call sends its next write, or returns.

\* Faulty variant: the SDK resends a write that got no answer.
OneRetry == 1

\* The SDK's own retries, switched off where the client is constructed.
MaxRetries == 0

Request(c) == [call |-> c, kind |-> write[c].kind, base |-> write[c].base,
               body |-> write[c].body]

NoWrite == [kind |-> "none", intent |-> "none", base |-> NoRecord,
            body |-> NoRecord, retries |-> 0]

NoReply == [says |-> "none", record |-> NoRecord]

Send(c, kind, intent, base, body) ==
  /\ pc' = [pc EXCEPT ![c] = "writing"]
  /\ write' = [write EXCEPT ![c] =
       [kind |-> kind, intent |-> intent, base |-> base, body |-> body, retries |-> 0]]
  /\ wire' = wire \union {[call |-> c, kind |-> kind, base |-> base, body |-> body]}
  /\ reply' = [reply EXCEPT ![c] = NoReply]
  /\ applied' = applied \ {c}
  /\ UNCHANGED result

Return(c, kind, reason, r) ==
  /\ pc' = [pc EXCEPT ![c] = "done"]
  /\ result' = [result EXCEPT ![c] = [kind |-> kind, reason |-> reason, record |-> r]]
  /\ reply' = [reply EXCEPT ![c] = NoReply]
  /\ UNCHANGED <<wire, write, applied>>

Refuse(c, reason, r) == Return(c, "refused", reason, r)
Corrupt(c) == Return(c, "corrupt", "", NoRecord)

StartExecuting(c, r) ==
  Send(c, "replace", "start", r, Executing(r, args[c]))

\* Faulty variant: the owner of a lease is not compared.
AnyOwner(c, r) == TRUE

Mine(c, r) == r.owner = args[c].owner
Live(c, r) == r.expires > args[c].now

\* acquireDispatch on a record r that is already there.
ClaimExisting(c, r) ==
  LET mine == Mine(c, r)
      live == Live(c, r)
  IN \/ /\ r.state \in TerminalStates
        /\ Refuse(c, "terminal-tombstone", r)
     \/ /\ r.state = "ambiguous" \/ (r.state = "executing" /\ live /\ ~mine)
        /\ Refuse(c, "requires-reconciliation", r)
     \/ /\ r.state = "executing" /\ live /\ mine
        /\ Return(c, "dispatch", "", r)
     \/ /\ r.state = "executing" /\ ~live
        /\ Send(c, "replace", "expire", r,
                Ambiguous(r, "executing-lease-expired"))
     \/ /\ r.state = "prepared" /\ live /\ ~mine
        /\ Refuse(c, "owned-by-another", r)
     \/ /\ r.state = "prepared" /\ ~live /\ ~mine
        /\ Send(c, "replace", "takeover", r, TakenOver(r, args[c]))
     \/ /\ r.state = "prepared" /\ mine
        /\ StartExecuting(c, r)

\* A replacement is known to be stored, as record r.
Recorded(c, r) ==
  LET intent == write[c].intent
  IN \/ intent = "takeover" /\ StartExecuting(c, r)
     \/ intent = "start" /\ Return(c, "dispatch", "", r)
     \/ intent = "expire" /\ Return(c, "refused", "requires-reconciliation", r)
     \/ /\ intent \notin {"takeover", "start", "expire"}
        /\ Return(c, "recorded", "", r)

\* A replacement neither confirmed nor refused.  To a claimant whose move to
\* executing or to ambiguous it was, that is a matter for the reconciler.
Unconfirmed(c) ==
  Refuse(c, IF write[c].intent \in {"start", "expire"}
            THEN "requires-reconciliation" ELSE "store-unavailable", NoRecord)

-----------------------------------------------------------------------------
\* The history variables: no guard reads them.

Remember ==
  /\ held' = [c \in Calls |-> IF pc'[c] \in {"idle", "done"} THEN {}
                              ELSE held[c] \union {row'}]
  /\ executor' = CASE row'.state = "executing" -> row'.owner
                   [] row'.state = "absent"    -> NoOwner
                   [] OTHER                    -> executor

-----------------------------------------------------------------------------
\* The caller's steps

NoResult == [kind |-> "none", reason |-> "", record |-> NoRecord]
NoArgs == [op |-> "none", owner |-> NoOwner, now |-> 0, lease |-> 0,
           expected |-> 0, choice |-> ""]

\* ETags the callers have learnt, all from earlier results.
KnownEtags ==
  {result[c].record.etag : c \in {d \in Calls : result[d].record # NoRecord}}

\* What call c may be invoked with; a clock is whatever its process reads.
Arguments(c) ==
  {a \in   [op : {"acquireDispatch"}, owner : Owners, now : Times,
            lease : Leases, expected : {0}, choice : {""}]
    \union [op : {"recordTerminal"}, owner : Owners, now : Times,
            lease : {0}, expected : KnownEtags, choice : TerminalStates]
    \union [op : {"recordAmbiguous"}, owner : Owners, now : {0},
            lease : {0}, expected : KnownEtags, choice : AmbiguityReasons]
    \union [op : {"resolveAmbiguous"}, owner : {NoOwner}, now : Times,
            lease : {0}, expected : KnownEtags, choice : TerminalStates]
    \union [op : {"retireTerminal"}, owner : {NoOwner}, now : Times,
            lease : {0}, expected : KnownEtags, choice : {""}]
   : a.op \in MayCall[c]}

Invoke(c) ==
  /\ pc[c] = "idle"
  /\ \E a \in Arguments(c) : args' = [args EXCEPT ![c] = a]
  /\ pc' = [pc EXCEPT ![c] = "reading"]
  /\ UNCHANGED <<row, lastEtag, wire, write, reply, result, applied>>
  /\ Remember

\* What #read makes of the row; the read itself may fail.
Seen ==
  CASE row.state = "absent" -> "missing"
    [] WellFormed(row)      -> "record"
    [] OTHER                -> "corrupt"

\* Faulty variant: the ETag alone decides.
AllowedByEtag(c, r) == r.etag = args[c].expected

\* The guard of each transition on the record r that its call read.
Allowed(c, r) ==
  /\ r.etag = args[c].expected
  /\ CASE args[c].op \in {"recordTerminal", "recordAmbiguous"} ->
             r.state = "executing" /\ Mine(c, r)
       [] args[c].op = "resolveAmbiguous" -> r.state = "ambiguous"
       [] OTHER -> r.state \in TerminalStates /\ r.retain <= args[c].now

\* What a call does about the record it read first.
ApplyTo(c, r) ==
  LET a == args[c]
      allowed == Allowed(c, r)
  IN \/ /\ a.op = "acquireDispatch"
        /\ ClaimExisting(c, r)
     \/ /\ a.op # "acquireDispatch" /\ ~allowed
        /\ Refuse(c, "invalid-state", r)
     \/ /\ a.op = "recordTerminal" /\ allowed
        /\ Send(c, "replace", "terminal", r, Terminal(r, a))
     \/ /\ a.op = "recordAmbiguous" /\ allowed
        /\ Send(c, "replace", "ambiguous", r, Ambiguous(r, a.choice))
     \/ /\ a.op = "resolveAmbiguous" /\ allowed
        /\ Send(c, "replace", "resolve", r, Resolved(r, a))
     \/ /\ a.op = "retireTerminal" /\ allowed
        /\ Send(c, "delete", "retire", r, NoRecord)

\* The first read of every operation.
FirstRead(c) ==
  /\ pc[c] = "reading"
  /\ \/ Seen = "record" /\ ApplyTo(c, row)
     \/ /\ Seen = "missing" /\ args[c].op = "acquireDispatch"
        /\ Send(c, "create", "create", NoRecord, NewEntity(args[c]))
     \/ /\ Seen = "missing" /\ args[c].op # "acquireDispatch"
        /\ Refuse(c, "invalid-state", NoRecord)
     \/ Seen = "corrupt" /\ Corrupt(c)
     \/ Refuse(c, "store-unavailable", NoRecord)
  /\ UNCHANGED <<row, lastEtag, args>>

Resend(c) ==
  /\ write' = [write EXCEPT ![c].retries = @ + 1]
  /\ wire' = wire \union {Request(c)}
  /\ UNCHANGED pc

\* The request broke off, or its reply tells neither success nor a conflict: the
\* client resends while it has retries left, then the call reads the row to learn
\* what became of its write.
GiveUp(c) ==
  /\ pc[c] = "writing"
  /\ IF write[c].retries < MaxRetries
     THEN Resend(c)
     ELSE /\ pc' = [pc EXCEPT ![c] = "rechecking"]
          /\ UNCHANGED <<write, wire>>
  /\ reply' = [reply EXCEPT ![c] = NoReply]
  /\ UNCHANGED <<row, lastEtag, args, result, applied>>

\* What the call makes of the reply: the record it stored is the body it sent
\* under the ETag of the reply.
Hear(c) ==
  LET kind == write[c].kind
      stored == reply[c].says = "stored"
      MoveTo(label) == /\ pc' = [pc EXCEPT ![c] = label]
                       /\ reply' = [reply EXCEPT ![c] = NoReply]
                       /\ UNCHANGED <<wire, write, result, applied>>
  IN /\ pc[c] = "writing" /\ reply[c].says # "none"
     /\ \/ stored /\ kind = "create" /\ StartExecuting(c, reply[c].record)
        \/ stored /\ kind = "create" /\ ~CreateReturnsEtag /\ MoveTo("unnamed")
        \/ /\ stored /\ kind = "replace" /\ WellFormed(write[c].body)
           /\ Recorded(c, reply[c].record)
        \/ stored /\ kind = "delete" /\ Return(c, "recorded", "", write[c].base)
        \/ ~stored /\ MoveTo("conflicted")
     /\ UNCHANGED <<row, lastEtag, args>>

\* Faulty variant: the read is repeated until it shows the write.
RecheckUntilStored(c) ==
  /\ pc[c] = "rechecking" /\ write[c].kind = "replace"
  /\ Seen = "record" /\ MatchesStored(row, write[c].body)
  /\ Recorded(c, row)
  /\ UNCHANGED <<row, lastEtag, args>>

\* The one read after an uncertain write: accepted if it shows the row as the
\* write would have left it.  The last refusals need no condition: a read that
\* gets no answer ends in the same one as a read that shows something else.
Recheck(c) ==
  /\ pc[c] = "rechecking"
  /\ LET kind == write[c].kind
         stored == Seen = "record" /\ MatchesStored(row, write[c].body)
     IN \/ kind = "create" /\ stored /\ StartExecuting(c, row)
        \/ kind = "replace" /\ stored /\ Recorded(c, row)
        \/ /\ kind = "delete" /\ Seen = "missing"
           /\ Return(c, "recorded", "", write[c].base)
        \/ Seen = "corrupt" /\ Corrupt(c)
        \/ kind = "create" /\ Refuse(c, "requires-reconciliation", NoRecord)
        \/ kind = "replace" /\ Unconfirmed(c)
        \/ kind = "delete" /\ Refuse(c, "store-unavailable", NoRecord)
        \/ /\ kind = "delete" /\ Seen = "record"
           /\ Refuse(c, "store-unavailable", row)
  /\ UNCHANGED <<row, lastEtag, args>>

\* The read after a 409 or 412.  Only an insert goes on from it.
AfterConflict(c) ==
  /\ pc[c] = "conflicted"
  /\ LET kind == write[c].kind
     IN \/ kind = "create" /\ Seen = "record" /\ ClaimExisting(c, row)
        \/ kind # "create" /\ Seen = "record" /\ Refuse(c, "conditional-conflict", row)
        \/ kind = "delete" /\ Seen = "missing" /\ Refuse(c, "conditional-conflict", NoRecord)
        \/ Seen = "corrupt" /\ Corrupt(c)
        \/ kind = "replace" /\ Unconfirmed(c)
        \/ kind # "replace" /\ Refuse(c, "store-unavailable", NoRecord)
  /\ UNCHANGED <<row, lastEtag, args>>

\* The read after an insert that succeeded without telling its ETag: whatever
\* record it shows is taken for the one inserted.
AfterUnnamedCreate(c) ==
  /\ pc[c] = "unnamed"
  /\ \/ Seen = "record" /\ StartExecuting(c, row)
     \/ Seen = "corrupt" /\ Corrupt(c)
     \/ Refuse(c, "requires-reconciliation", NoRecord)
  /\ UNCHANGED <<row, lastEtag, args>>

-----------------------------------------------------------------------------
\* The table service

\* A request reaches the service, maybe long after its caller gave up on it.
Applies(w) == IF w.kind = "create" THEN row.state = "absent"
              ELSE row.state # "absent" /\ row.etag = w.base.etag

Stored(w) ==
  IF w.kind = "delete" THEN NoRecord
  ELSE [state |-> w.body.state, version |-> w.body.version, owner |-> w.body.owner,
        expires |-> w.body.expires, retain |-> w.body.retain,
        terminalAt |-> w.body.terminalAt, reason |-> w.body.reason,
        etag |-> lastEtag + 1,
        born |-> IF w.kind = "create" THEN lastEtag + 1 ELSE w.body.born]

\* Its reply goes back to the caller, if that still waits for it, or gets lost.
\* A 404, to a write of a row that is gone, tells the caller nothing.
ReplyTo(w) ==
  [says |-> IF Applies(w) THEN "stored" ELSE "refused",
   record |-> IF Applies(w) THEN Stored(w) ELSE NoRecord]

Land(w) ==
  LET c == w.call
      waits == pc[c] = "writing" /\ w = Request(c)
  IN /\ IF Applies(w)
        THEN /\ row' = Stored(w)
             /\ lastEtag' = IF w.kind = "delete" THEN lastEtag ELSE lastEtag + 1
        ELSE UNCHANGED <<row, lastEtag>>
     /\ wire' = wire \ {w}
     /\ applied' = IF Applies(w) /\ w = Request(c) THEN applied \union {c} ELSE applied
     /\ \/ UNCHANGED reply
        \/ /\ waits /\ (w.kind = "create" \/ row.state # "absent")
           /\ reply' = [reply EXCEPT ![c] = ReplyTo(w)]
     /\ UNCHANGED <<pc, args, write, result>>
     /\ Remember

\* Another program rewrites the row into one that parseStored refuses.
Damaged(r) ==
  [state |-> "damaged", version |-> r.version, owner |-> r.owner,
   expires |-> r.expires, retain |-> r.retain, terminalAt |-> r.terminalAt,
   reason |-> r.reason, etag |-> lastEtag + 1, born |-> r.born]

Damage ==
  /\ MayDamage
  /\ row.state \notin {"absent", "damaged"}
  /\ row' = Damaged(row)
  /\ lastEtag' = lastEtag + 1
  /\ UNCHANGED <<wire, pc, args, write, reply, result, applied>>
  /\ Remember

-----------------------------------------------------------------------------
Init ==
  /\ row = NoRecord /\ lastEtag = 0 /\ wire = {} /\ applied = {}
  /\ executor = NoOwner
  /\ pc = [c \in Calls |-> "idle"]
  /\ args = [c \in Calls |-> NoArgs]
  /\ write = [c \in Calls |-> NoWrite]
  /\ reply = [c \in Calls |-> NoReply]
  /\ result = [c \in Calls |-> NoResult]
  /\ held = [c \in Calls |-> {}]

\* The call gets the answer it waits for, or its request breaks off.
Continue(c) ==
  /\ \/ FirstRead(c) \/ GiveUp(c) \/ Hear(c)
     \/ Recheck(c) \/ AfterConflict(c) \/ AfterUnnamedCreate(c)
  /\ Remember

Next ==
  \/ \E c \in Calls : Invoke(c) \/ Continue(c)
  \/ \E w \in wire : Land(w)
  \/ Damage

Spec == Init /\ [][Next]_vars

-----------------------------------------------------------------------------
Dispatched == {c \in Calls : result[c].kind = "dispatch"}

Aliases == Owners \union {NoOwner}
Reasons == {""} \union AmbiguityReasons
Choices == Reasons \union TerminalStates

RecordStates ==
  {"absent", "prepared", "executing", "ambiguous", "damaged"} \union TerminalStates

Records ==
  [state : RecordStates, version : Nat, owner : Aliases,
   expires : Nat, retain : Nat, terminalAt : Nat,
   reason : Reasons, etag : Nat, born : Nat]

Writes ==
  [kind : {"none", "create", "replace", "delete"},
   intent : {"none", "create", "takeover", "start", "expire", "terminal",
             "ambiguous", "resolve", "retire"},
   base : Records, body : Records, retries : Nat]

Results ==
  [kind : {"none", "dispatch", "recorded", "refused", "corrupt"},
   reason : {"", "owned-by-another", "terminal-tombstone",
             "requires-reconciliation", "conditional-conflict",
             "store-unavailable", "invalid-state"},
   record : Records]

Replies == [says : {"none", "stored", "refused"}, record : Records]

Requests ==
  [call : Calls, kind : {"create", "replace", "delete"}, base : Records, body : Records]

ArgumentRecords ==
  [op : Operations \union {"none"}, owner : Aliases, now : Nat, lease : Nat,
   expected : Nat, choice : Choices]

TypeOK ==
  /\ row \in Records
  /\ lastEtag \in Nat
  /\ wire \subseteq Requests
  /\ pc \in [Calls -> {"idle", "reading", "writing", "rechecking", "conflicted",
                       "unnamed", "done"}]
  /\ args \in [Calls -> ArgumentRecords]
  /\ write \in [Calls -> Writes]
  /\ reply \in [Calls -> Replies]
  /\ result \in [Calls -> Results]
  /\ applied \subseteq Calls
  /\ held \in [Calls -> SUBSET Records]
  /\ executor \in Aliases

\* A row nobody else has touched is one the journal itself can read back: no
\* sequence of calls, lost replies and late writes makes parseStored refuse
\* what the journal stored.
JournalWritesReadable ==
  row.state \in {"absent", "damaged"} \/ WellFormed(row)

\* In one life of the row, every call that was told to dispatch was made by
\* the same owner, whatever the clocks, the lost replies and the late writes.
OneOwnerPerLife ==
  \A c, d \in Dispatched :
    result[c].record.born = result[d].record.born => args[c].owner = args[d].owner

\* The write whose refusal a call reports as `conditional-conflict' has not been
\* applied and never will be: it lost to somebody else's write, not to a copy of
\* itself.  (An earlier write of the same claim, its insert or takeover, may
\* stand: it is the move to executing that was refused then.)
ConflictMeansNotApplied ==
  \A c \in Calls :
    result[c].reason = "conditional-conflict" => c \notin applied /\ Request(c) \notin wire

\* What a transition was asked to make of the record.
Asked(a, r) ==
  IF a.op = "recordAmbiguous" THEN r.state = "ambiguous" /\ r.reason = a.choice
  ELSE r.state = a.choice

\* A call that reports a dispatch or a transition reports a record that the row
\* really was at some moment of the call, though the row may have moved on since:
\* for a dispatch an executing record of the caller, with a lease that runs on the
\* caller's clock; for a transition the state that was asked for; and a retirement
\* is reported only if the row was absent at some moment of the call.
AnswersProvedByStore ==
  [][\A c \in Calls :
       LET answer == result'[c] IN
       /\ answer.kind = "dispatch" /\ result[c].kind = "none" =>
            /\ answer.record \in held[c]
            /\ answer.record.state = "executing"
            /\ answer.record.owner = args[c].owner
            /\ answer.record.expires > args[c].now
       /\ answer.kind = "recorded" /\ result[c].kind = "none" =>
            IF args[c].op = "retireTerminal" THEN NoRecord \in held[c]
            ELSE answer.record \in held[c] /\ Asked(args[c], answer.record)]_vars

\* What the ledger sees of the journal.
PhaseOf(r) == CASE r.state = "prepared"  -> "claimed"
                [] r.state = "executing" -> "held"
                [] r.state = "ambiguous" -> "doubtful"
                [] OTHER                 -> r.state

HolderOf(r) == IF r.state = "prepared" THEN r.owner ELSE executor

ToldOf(r) == IF r.state = "absent" THEN {}
             ELSE {args[c].owner : c \in {d \in Dispatched : result[d].record.born = r.born}}

\* The journal keeps the promise of the ledger.
Ledger ==
  INSTANCE DispatchLedger WITH
    phase <- PhaseOf(row), holder <- HolderOf(row), told <- ToldOf(row)

ImplementsLedger == Ledger!LedgerSpec

\* Only the call whose own write moved the row to executing is told to dispatch;
\* a call that finds an executing row is not.  docs/shared-operation-journal.md
\* says so ("an executing lease, including an expired one, returns
\* requires-reconciliation and never becomes executable again"); the code
\* dispatches again when the row names the caller's alias.
OnlyTransitionDispatches == \A c \in Dispatched : write[c].intent = "start"

\* A call returns once its own requests are answered or broken off, even if no
\* other call ever goes on and the service loses everything else.  That they are
\* is the condition and not a promise of the code: the table client is given no
\* timeout, and a request that is never answered holds its call.
CallsReturn ==
  \A c \in Calls : WF_vars(Continue(c)) => (pc[c] # "idle" ~> pc[c] = "done")
=============================================================================
