-------------------- MODULE SharedOperationJournalProofs --------------------
(***************************************************************************)
(* Proofs about SharedOperationJournal, for any number of calls, owners,   *)
(* clocks and leases.                                                      *)
(*                                                                         *)
(* A step of the journal either changes the row and may put a reply on its *)
(* way (RowStep), or takes one call further, which sends a write, returns  *)
(* or moves on (CallStep).  The lemmas named after the operations show     *)
(* that each of them is such a step: what a call sends is computed from a  *)
(* version of the row it was shown, and what it is told to dispatch is an  *)
(* executing version of its own.                                           *)
(***************************************************************************)
EXTENDS SharedOperationJournal, TLAPS

-----------------------------------------------------------------------------
\* Types

LEMMA FieldsTyped ==
  ASSUME NEW r \in Records
  PROVE  /\ r.state \in RecordStates /\ r.version \in Nat /\ r.owner \in Aliases
         /\ r.expires \in Nat /\ r.retain \in Nat /\ r.terminalAt \in Nat
         /\ r.reason \in Reasons /\ r.etag \in Nat /\ r.born \in Nat
BY DEF Records

LEMMA NoRecordTyped == NoRecord \in Records
BY DEF NoRecord, Records, RecordStates, Aliases, Reasons

LEMMA SuccessorTyped ==
  ASSUME NEW r \in Records, NEW state \in RecordStates, NEW owner \in Aliases,
         NEW expires \in Nat, NEW retain \in Nat, NEW terminalAt \in Nat,
         NEW reason \in Reasons
  PROVE  Successor(r, state, owner, expires, retain, terminalAt, reason) \in Records
BY DEF Records, Successor

LEMMA BodiesTyped ==
  ASSUME NEW r \in Records, NEW a \in ArgumentRecords
  PROVE  /\ NewEntity(a) \in Records
         /\ TakenOver(r, a) \in Records
         /\ Executing(r, a) \in Records
         /\ \A reason \in AmbiguityReasons : Ambiguous(r, reason) \in Records
         /\ a.choice \in TerminalStates =>
              Terminal(r, a) \in Records /\ Resolved(r, a) \in Records
<1> USE JournalAssumption, FieldsTyped
<1>1. a.now \in Nat /\ a.lease \in Nat /\ a.owner \in Aliases
  BY DEF ArgumentRecords
<1>2. a.now + a.lease \in Nat /\ a.now + Retention \in Nat
  BY <1>1
<1>3. {"prepared", "executing", "ambiguous"} \union TerminalStates \subseteq RecordStates
  BY DEF RecordStates
<1>4. NewEntity(a) \in Records
  BY <1>1, <1>2 DEF NewEntity, Records, RecordStates, Reasons
<1>5. TakenOver(r, a) \in Records
  BY <1>1, <1>2, SuccessorTyped DEF TakenOver
<1>6. Executing(r, a) \in Records
  BY <1>1, <1>2, <1>3, SuccessorTyped DEF Executing
<1>7. NoOwner \in Aliases /\ "" \in Reasons /\ AmbiguityReasons \subseteq Reasons
  BY DEF Aliases, Reasons
<1>8. ASSUME NEW reason \in AmbiguityReasons
      PROVE  Ambiguous(r, reason) \in Records
  BY <1>3, <1>7, SuccessorTyped DEF Ambiguous
<1>9. a.choice \in TerminalStates => Terminal(r, a) \in Records
  BY <1>1, <1>2, <1>3, <1>7, SuccessorTyped DEF Terminal
<1>10. a.choice \in TerminalStates => Resolved(r, a) \in Records
  BY <1>1, <1>2, <1>3, <1>7, SuccessorTyped DEF Resolved
<1> QED
  BY <1>4, <1>5, <1>6, <1>8, <1>9, <1>10

-----------------------------------------------------------------------------
\* The inductive invariant

\* What the arguments of a call are, by its operation.
LegalArguments(a) ==
  /\ a.op \in Operations
  /\ a.op \in {"acquireDispatch", "recordTerminal", "recordAmbiguous"} => a.owner \in Owners
  /\ a.op # "recordAmbiguous" => a.now # 0
  /\ a.op \in {"recordTerminal", "resolveAmbiguous"} => a.choice \in TerminalStates
  /\ a.op = "recordAmbiguous" => a.choice \in AmbiguityReasons

\* The moves a replacement makes from the record b it was computed from.
LegalMove(b, n) ==
  /\ WellFormed(b) /\ WellFormed(n) /\ n.born = b.born
  /\ \/ b.state = "prepared" /\ n.state = "prepared"
     \/ b.state = "prepared" /\ n.state = "executing" /\ n.owner = b.owner
     \/ b.state = "executing" /\ n.state \in {"ambiguous"} \union TerminalStates
     \/ b.state = "ambiguous" /\ n.state \in TerminalStates

LegalRequest(kind, b, n) ==
  \/ kind = "create" /\ WellFormed(n) /\ n.state = "prepared"
  \/ kind = "replace" /\ LegalMove(b, n)
  \/ kind = "delete" /\ b.state \in TerminalStates

\* What a call's write says about the call.
LegalIntent(c, kind, intent, n) ==
  /\ intent \in {"create", "takeover", "start", "expire"} => args[c].op = "acquireDispatch"
  /\ kind = "create" <=> intent = "create"
  /\ kind = "delete" <=> intent = "retire"
  /\ intent \in {"create", "takeover"} => n.state = "prepared" /\ n.owner = args[c].owner
  /\ intent = "start" => n.state = "executing" /\ n.owner = args[c].owner

\* The row is what one of the journal's writes, or a damage, left there.
RowOK ==
  /\ JournalWritesReadable
  /\ row.etag <= lastEtag /\ row.born <= lastEtag
  /\ row.state # "absent" => row.etag > 0 /\ row.born > 0

\* While a life of the row executes, and after, its executor is on record.
ExecutorOK ==
  /\ row.state = "executing" => executor = row.owner
  /\ row.state \in {"absent", "prepared"} => executor = NoOwner

\* An ETag names one version of the row: the row r is the record q if it
\* bears its ETag, and no later row will, as e is the last one issued.
Names(q, r, e) ==
  q.etag <= e /\ (r.state # "absent" /\ r.etag = q.etag => r = q)

\* A request that would be applied was computed from the very record it is
\* applied to.
WireOK ==
  \A w \in wire :
    /\ LegalRequest(w.kind, w.base, w.body)
    /\ w.kind # "create" => Names(w.base, row, lastEtag)

CallOK ==
  \A c \in Calls :
    /\ pc[c] # "unnamed"
    /\ pc[c] # "idle" => LegalArguments(args[c])
    /\ pc[c] \in {"writing", "rechecking", "conflicted"} =>
         /\ LegalRequest(write[c].kind, write[c].base, write[c].body)
         /\ LegalIntent(c, write[c].kind, write[c].intent, write[c].body)

\* The record r has the fields of the body n.
Bears(r, n) ==
  /\ r.state = n.state /\ r.owner = n.owner /\ r.expires = n.expires /\ r.reason = n.reason

\* A reply is for a call that waits for it, and tells of the record its write left.
ReplyOK ==
  \A c \in Calls :
    /\ reply[c].says # "none" => pc[c] = "writing"
    /\ reply[c].says = "stored" /\ write[c].kind # "delete" =>
         /\ WellFormed(reply[c].record) /\ Bears(reply[c].record, write[c].body)
         /\ Names(reply[c].record, row, lastEtag)

\* The row q, executed under the owner e, does not contradict a dispatch that
\* reported the record r: as long as q is the row r was a version of, it is past
\* "prepared", and it executed for the same owner.
Upholds(q, e, r) ==
  q.state # "absent" /\ q.born = r.born => q.state # "prepared" /\ e = r.owner

\* A call is told to dispatch, or the reply that will tell it so is on its way.
Promised(c) == reply[c].says = "stored" /\ write[c].intent = "start"
Granted == {c \in Calls : result[c].kind = "dispatch" \/ Promised(c)}
GrantOf(c) == IF result[c].kind = "dispatch" THEN result[c].record ELSE reply[c].record

GrantsOK ==
  \A c \in Calls :
    /\ result[c].kind # "none" => pc[c] = "done"
    /\ c \in Granted =>
         /\ GrantOf(c).owner = args[c].owner
         /\ GrantOf(c).born <= lastEtag
         /\ Upholds(row, executor, GrantOf(c))

OneGrantPerLife ==
  \A c, d \in Granted : GrantOf(c).born = GrantOf(d).born => args[c].owner = args[d].owner

IInv ==
  /\ TypeOK /\ RowOK /\ ExecutorOK /\ WireOK /\ CallOK /\ ReplyOK
  /\ GrantsOK /\ OneGrantPerLife

-----------------------------------------------------------------------------
\* The two halves of a step

\* What a step does to the row.
RowStep ==
  \/ UNCHANGED <<row, lastEtag>>
  \/ \E w \in wire :
       /\ Applies(w)
       /\ row' = Stored(w)
       /\ lastEtag' = IF w.kind = "delete" THEN lastEtag ELSE lastEtag + 1
  \/ /\ row.state # "absent"
     /\ row' = Damaged(row)
     /\ lastEtag' = lastEtag + 1

Kinds == {"create", "replace", "delete"}
Intents == {"create", "takeover", "start", "expire", "terminal", "ambiguous",
            "resolve", "retire"}

\* The call sends a write computed from a version of the row it was shown.
Sends(c) ==
  \E kind \in Kinds, intent \in Intents, base \in Records, body \in Records :
    /\ Send(c, kind, intent, base, body)
    /\ LegalRequest(kind, base, body)
    /\ LegalIntent(c, kind, intent, body)
    /\ kind # "create" => Names(base, row, lastEtag)

\* What a call may be told to dispatch: the executing row of its own alias, or
\* what the reply it was promised tells of.
Grantable(c, r) ==
  /\ r.owner = args[c].owner
  /\ \/ r = row /\ row.state = "executing"
     \/ Promised(c) /\ r = reply[c].record

Returns(c) ==
  \E answer \in Results :
    /\ Return(c, answer.kind, answer.reason, answer.record)
    /\ answer.kind # "none"
    /\ answer.kind = "dispatch" => Grantable(c, answer.record)

\* The call reads the row next, to learn what became of its write.
LooksAgain(c) ==
  /\ pc[c] = "writing"
  /\ \E label \in {"rechecking", "conflicted"} : pc' = [pc EXCEPT ![c] = label]
  /\ reply' = [reply EXCEPT ![c] = NoReply]
  /\ UNCHANGED <<wire, write, result, applied>>

Proceeds(c) == Sends(c) \/ Returns(c)

CallStep(c) ==
  /\ pc[c] \notin {"idle", "done"}
  /\ Proceeds(c) \/ LooksAgain(c)
  /\ Remember
  /\ UNCHANGED <<row, lastEtag, args>>

\* No call moves; one that waits for the reply to the request that lands may get
\* it on its way.
QuietStep ==
  /\ wire' \subseteq wire /\ applied' \subseteq Calls
  /\ \/ UNCHANGED reply
     \/ \E w \in wire :
          /\ pc[w.call] = "writing" /\ w = Request(w.call)
          /\ Applies(w) => row' = Stored(w)
          /\ reply' = [reply EXCEPT ![w.call] = ReplyTo(w)]
  /\ UNCHANGED <<pc, args, write, result>>

-----------------------------------------------------------------------------
\* Calls: what each operation sends or returns

LEMMA SendsIs ==
  ASSUME NEW c, NEW kind \in Kinds, NEW intent \in Intents,
         NEW base \in Records, NEW body \in Records,
         Send(c, kind, intent, base, body),
         LegalRequest(kind, base, body), LegalIntent(c, kind, intent, body),
         kind # "create" => Names(base, row, lastEtag)
  PROVE  Proceeds(c)
BY DEF Proceeds, Sends

\* An answer that is no dispatch asks nothing of the row.
LEMMA AnswersIs ==
  ASSUME NEW c, NEW r \in Records,
         NEW kind \in {"recorded", "refused", "corrupt"},
         NEW reason \in {"", "owned-by-another", "terminal-tombstone",
             "requires-reconciliation", "conditional-conflict",
             "store-unavailable", "invalid-state"},
         Return(c, kind, reason, r)
  PROVE  Proceeds(c)
<1> DEFINE answer == [kind |-> kind, reason |-> reason, record |-> r]
<1>1. answer \in Results
  BY DEF Results
<1>2. Return(c, answer.kind, answer.reason, answer.record)
  OBVIOUS
<1>3. answer.kind # "none" /\ answer.kind # "dispatch"
  OBVIOUS
<1> HIDE DEF answer
<1> QED
  BY <1>1, <1>2, <1>3 DEF Proceeds, Returns

LEMMA DispatchIs ==
  ASSUME NEW c, NEW r \in Records, Return(c, "dispatch", "", r), Grantable(c, r)
  PROVE  Proceeds(c)
<1> DEFINE answer == [kind |-> "dispatch", reason |-> "", record |-> r]
<1>1. answer \in Results
  BY DEF Results
<1>2. Return(c, answer.kind, answer.reason, answer.record)
  OBVIOUS
<1>3. answer.kind = "dispatch" /\ answer.record = r
  OBVIOUS
<1> HIDE DEF answer
<1> QED
  BY <1>1, <1>2, <1>3 DEF Proceeds, Returns

LEMMA RefuseIs ==
  ASSUME NEW c, NEW r \in Records,
         NEW reason \in {"owned-by-another", "terminal-tombstone",
             "requires-reconciliation", "conditional-conflict",
             "store-unavailable", "invalid-state"},
         Refuse(c, reason, r)
  PROVE  Proceeds(c)
BY AnswersIs DEF Refuse

LEMMA CorruptIs ==
  ASSUME NEW c, Corrupt(c)
  PROVE  Proceeds(c)
BY AnswersIs, NoRecordTyped DEF Corrupt

\* Whatever the journal computes from a readable record is readable.
LEMMA MovesLegal ==
  ASSUME NEW r \in Records, WellFormed(r), NEW a \in ArgumentRecords, LegalArguments(a)
  PROVE  /\ a.op = "acquireDispatch" /\ r.state = "prepared" =>
              /\ LegalMove(r, TakenOver(r, a))
              /\ TakenOver(r, a).state = "prepared" /\ TakenOver(r, a).owner = a.owner
              /\ LegalMove(r, Executing(r, a))
              /\ Executing(r, a).state = "executing" /\ Executing(r, a).owner = r.owner
         /\ r.state = "executing" =>
              /\ \A reason \in AmbiguityReasons : LegalMove(r, Ambiguous(r, reason))
              /\ a.op = "recordTerminal" => LegalMove(r, Terminal(r, a))
         /\ r.state = "ambiguous" /\ a.op = "resolveAmbiguous" => LegalMove(r, Resolved(r, a))
<1>1. a.now \in Nat /\ a.lease \in Nat
  BY DEF ArgumentRecords
<1>2. a.op # "recordAmbiguous" => a.now # 0 /\ a.now + a.lease # 0
  BY <1>1 DEF LegalArguments
<1>3. NoOwner \notin Owners
  BY JournalAssumption
<1>4. ASSUME a.op = "acquireDispatch", r.state = "prepared"
      PROVE  /\ LegalMove(r, TakenOver(r, a))
             /\ TakenOver(r, a).state = "prepared" /\ TakenOver(r, a).owner = a.owner
  <2> DEFINE n == TakenOver(r, a)
  <2>1. /\ n.state = r.state /\ n.owner = a.owner /\ n.born = r.born
        /\ n.expires = a.now + a.lease
        /\ n.terminalAt = r.terminalAt /\ n.reason = r.reason
    BY DEF TakenOver, Successor
  <2>2. a.owner \in Owners
    BY <1>4 DEF LegalArguments
  <2> HIDE DEF n
  <2>3. n.owner # NoOwner /\ n.expires # 0
    BY <2>1, <2>2, <1>2, <1>3, <1>4
  <2>4. WellFormed(n)
    BY <2>1, <2>3, <1>4 DEF WellFormed, TerminalStates
  <2>5. LegalMove(r, n)
    BY <2>1, <2>4, <1>4 DEF LegalMove
  <2> QED
    BY <2>1, <2>5, <1>4 DEF n
<1>5. ASSUME a.op = "acquireDispatch", r.state = "prepared"
      PROVE  /\ LegalMove(r, Executing(r, a))
             /\ Executing(r, a).state = "executing" /\ Executing(r, a).owner = r.owner
  <2> DEFINE n == Executing(r, a)
  <2>1. /\ n.state = "executing" /\ n.owner = r.owner /\ n.born = r.born
        /\ n.expires = a.now + a.lease
        /\ n.terminalAt = r.terminalAt /\ n.reason = r.reason
    BY DEF Executing, Successor
  <2> HIDE DEF n
  <2>2. n.expires # 0
    BY <2>1, <1>2, <1>5
  <2>3. WellFormed(n)
    BY <2>1, <2>2, <1>5 DEF WellFormed, TerminalStates
  <2>4. LegalMove(r, n)
    BY <2>1, <2>3, <1>5 DEF LegalMove
  <2> QED
    BY <2>1, <2>4 DEF n
<1>6. ASSUME r.state = "executing", NEW reason \in AmbiguityReasons
      PROVE  LegalMove(r, Ambiguous(r, reason))
  <2> DEFINE n == Ambiguous(r, reason)
  <2>1. /\ n.state = "ambiguous" /\ n.owner = NoOwner /\ n.born = r.born
        /\ n.expires = 0 /\ n.terminalAt = r.terminalAt /\ n.reason = reason
    BY DEF Ambiguous, Successor
  <2> HIDE DEF n
  <2>2. WellFormed(n)
    BY <2>1, <1>6 DEF WellFormed, TerminalStates
  <2>3. LegalMove(r, n)
    BY <2>1, <2>2, <1>6 DEF LegalMove
  <2> QED
    BY <2>3 DEF n
<1>7. ASSUME r.state = "executing", a.op = "recordTerminal"
      PROVE  LegalMove(r, Terminal(r, a))
  <2> DEFINE n == Terminal(r, a)
  <2>1. /\ n.state = a.choice /\ n.owner = NoOwner /\ n.born = r.born
        /\ n.expires = 0 /\ n.terminalAt = a.now /\ n.reason = ""
    BY DEF Terminal, Successor
  <2> HIDE DEF n
  <2>2. n.state \in TerminalStates /\ n.terminalAt # 0
    BY <2>1, <1>2, <1>7 DEF LegalArguments
  <2>3. WellFormed(n)
    BY <2>1, <2>2 DEF WellFormed
  <2>4. LegalMove(r, n)
    BY <2>1, <2>2, <2>3, <1>7 DEF LegalMove
  <2> QED
    BY <2>4 DEF n
<1>8. ASSUME r.state = "ambiguous", a.op = "resolveAmbiguous"
      PROVE  LegalMove(r, Resolved(r, a))
  <2> DEFINE n == Resolved(r, a)
  <2>1. /\ n.state = a.choice /\ n.owner = r.owner /\ n.born = r.born
        /\ n.expires = r.expires /\ n.terminalAt = a.now /\ n.reason = ""
    BY DEF Resolved, Successor
  <2> HIDE DEF n
  <2>2. n.state \in TerminalStates /\ n.terminalAt # 0
    BY <2>1, <1>2, <1>8 DEF LegalArguments
  <2>3. r.owner = NoOwner /\ r.expires = 0
    BY <1>8 DEF WellFormed, TerminalStates
  <2>4. WellFormed(n)
    BY <2>1, <2>2, <2>3 DEF WellFormed
  <2>5. LegalMove(r, n)
    BY <2>1, <2>2, <2>4, <1>8 DEF LegalMove
  <2> QED
    BY <2>5 DEF n
<1> QED
  BY <1>4, <1>5, <1>6, <1>7, <1>8

LEMMA EntityLegal ==
  ASSUME NEW a \in ArgumentRecords, LegalArguments(a), a.op = "acquireDispatch"
  PROVE  /\ WellFormed(NewEntity(a))
         /\ NewEntity(a).state = "prepared" /\ NewEntity(a).owner = a.owner
<1> DEFINE n == NewEntity(a)
<1>1. /\ n.state = "prepared" /\ n.owner = a.owner /\ n.expires = a.now + a.lease
      /\ n.terminalAt = 0 /\ n.reason = ""
  BY DEF NewEntity
<1>2. a.now \in Nat /\ a.lease \in Nat
  BY DEF ArgumentRecords
<1>3. a.now # 0 /\ a.owner \in Owners
  BY DEF LegalArguments
<1> HIDE DEF n
<1>4. n.expires # 0 /\ n.owner # NoOwner
  <2>1. a.now + a.lease # 0
    BY <1>2, <1>3
  <2>2. NoOwner \notin Owners
    BY JournalAssumption
  <2> QED
    BY <1>1, <1>3, <2>1, <2>2
<1>5. WellFormed(n)
  BY <1>1, <1>4 DEF WellFormed
<1> QED
  BY <1>1, <1>5 DEF n

\* A call that has started has legal arguments.
LEMMA ArgumentsLegal ==
  ASSUME TypeOK, CallOK, NEW c \in Calls, pc[c] # "idle"
  PROVE  args[c] \in ArgumentRecords /\ LegalArguments(args[c])
BY DEF TypeOK, CallOK

LEMMA StartExecutingIs ==
  ASSUME TypeOK, CallOK, NEW c \in Calls, pc[c] # "idle",
         args[c].op = "acquireDispatch", NEW r \in Records,
         WellFormed(r), r.state = "prepared", r.owner = args[c].owner, Names(r, row, lastEtag),
         StartExecuting(c, r)
  PROVE  Proceeds(c)
<1> DEFINE n == Executing(r, args[c])
<1>1. n \in Records /\ LegalMove(r, n) /\ n.state = "executing" /\ n.owner = r.owner
  BY ArgumentsLegal, BodiesTyped, MovesLegal
<1>2. Send(c, "replace", "start", r, n)
  BY DEF StartExecuting
<1> HIDE DEF n
<1>3. LegalRequest("replace", r, n) /\ LegalIntent(c, "replace", "start", n)
  BY <1>1 DEF LegalRequest, LegalIntent
<1> QED
  BY <1>1, <1>2, <1>3, SendsIs DEF Kinds, Intents

LEMMA ClaimExistingIs ==
  ASSUME TypeOK, CallOK, NEW c \in Calls, pc[c] # "idle",
         args[c].op = "acquireDispatch", NEW r \in Records, WellFormed(r), r = row,
         Names(r, row, lastEtag), ClaimExisting(c, r)
  PROVE  Proceeds(c)
<1>1. args[c] \in ArgumentRecords /\ LegalArguments(args[c])
  BY ArgumentsLegal
<1>2. CASE \E reason \in {"terminal-tombstone", "requires-reconciliation",
                        "owned-by-another"} : Refuse(c, reason, r)
  BY <1>2, RefuseIs
<1>3. CASE r.state = "executing" /\ Mine(c, r) /\ Return(c, "dispatch", "", r)
  BY <1>3, DispatchIs DEF Mine, Grantable
<1>4. CASE /\ r.state = "executing"
           /\ Send(c, "replace", "expire", r,
                   Ambiguous(r, "executing-lease-expired"))
  <2> DEFINE n == Ambiguous(r, "executing-lease-expired")
  <2>1. "executing-lease-expired" \in AmbiguityReasons
    BY DEF AmbiguityReasons
  <2>2. n \in Records /\ LegalMove(r, n)
    BY <1>1, <1>4, <2>1, BodiesTyped, MovesLegal
  <2>3. Send(c, "replace", "expire", r, n)
    BY <1>4
  <2> HIDE DEF n
  <2>4. LegalRequest("replace", r, n) /\ LegalIntent(c, "replace", "expire", n)
    BY <2>2 DEF LegalRequest, LegalIntent
  <2> QED
    BY <2>2, <2>3, <2>4, SendsIs DEF Kinds, Intents
<1>5. CASE /\ r.state = "prepared"
           /\ Send(c, "replace", "takeover", r, TakenOver(r, args[c]))
  <2> DEFINE n == TakenOver(r, args[c])
  <2>1. /\ n \in Records /\ LegalMove(r, n)
        /\ n.state = "prepared" /\ n.owner = args[c].owner
    BY <1>1, <1>5, BodiesTyped, MovesLegal
  <2>2. Send(c, "replace", "takeover", r, n)
    BY <1>5
  <2> HIDE DEF n
  <2>3. LegalRequest("replace", r, n) /\ LegalIntent(c, "replace", "takeover", n)
    BY <2>1 DEF LegalRequest, LegalIntent
  <2> QED
    BY <2>1, <2>2, <2>3, SendsIs DEF Kinds, Intents
<1>6. CASE r.state = "prepared" /\ Mine(c, r) /\ StartExecuting(c, r)
  BY <1>6, StartExecutingIs DEF Mine
<1> QED
  BY <1>2, <1>3, <1>4, <1>5, <1>6 DEF ClaimExisting

\* The record r is the one the call's replacement stored.
LEMMA RecordedIs ==
  ASSUME TypeOK, CallOK, NEW c \in Calls, pc[c] \in {"writing", "rechecking"},
         write[c].kind = "replace", NEW r \in Records, WellFormed(r), Names(r, row, lastEtag),
         r.state = write[c].body.state, r.owner = write[c].body.owner,
         r = row \/ (reply[c].says = "stored" /\ r = reply[c].record),
         Recorded(c, r)
  PROVE  Proceeds(c)
<1>1. LegalIntent(c, write[c].kind, write[c].intent, write[c].body)
  BY DEF CallOK
<1>2. pc[c] # "idle"
  OBVIOUS
<1>3. CASE write[c].intent = "takeover"
  BY <1>1, <1>2, <1>3, StartExecutingIs DEF Recorded, LegalIntent
<1>4. CASE write[c].intent = "start"
  <2>1. r.state = "executing" /\ r.owner = args[c].owner
    BY <1>1, <1>4 DEF LegalIntent
  <2>2. Grantable(c, r)
    BY <1>4, <2>1 DEF Grantable, Promised
  <2> QED  BY <1>4, <2>2, DispatchIs DEF Recorded
<1>5. CASE write[c].intent = "expire"
  BY <1>5, AnswersIs DEF Recorded
<1>6. CASE write[c].intent \notin {"takeover", "start", "expire"}
  BY <1>6, AnswersIs DEF Recorded
<1> QED
  BY <1>3, <1>4, <1>5, <1>6

LEMMA UnconfirmedIs ==
  ASSUME NEW c, Unconfirmed(c)
  PROVE  Proceeds(c)
<1>1. \E reason \in {"requires-reconciliation", "store-unavailable"} :
        Refuse(c, reason, NoRecord)
  BY DEF Unconfirmed
<1> QED
  BY <1>1, RefuseIs, NoRecordTyped

LEMMA ApplyToIs ==
  ASSUME TypeOK, CallOK, NEW c \in Calls, pc[c] # "idle",
         NEW r \in Records, WellFormed(r), r = row, Names(r, row, lastEtag), ApplyTo(c, r)
  PROVE  Proceeds(c)
<1>1. args[c] \in ArgumentRecords /\ LegalArguments(args[c])
  BY ArgumentsLegal
<1>2. CASE args[c].op = "acquireDispatch" /\ ClaimExisting(c, r)
  BY <1>2, ClaimExistingIs
<1>3. CASE Refuse(c, "invalid-state", r)
  BY <1>3, RefuseIs
<1>4. CASE /\ args[c].op = "recordTerminal" /\ Allowed(c, r)
           /\ Send(c, "replace", "terminal", r, Terminal(r, args[c]))
  <2> DEFINE n == Terminal(r, args[c])
  <2>1. r.state = "executing" /\ args[c].choice \in TerminalStates
    BY <1>1, <1>4 DEF Allowed, LegalArguments
  <2>2. n \in Records /\ LegalMove(r, n)
    BY <1>1, <1>4, <2>1, BodiesTyped, MovesLegal
  <2>3. Send(c, "replace", "terminal", r, n)
    BY <1>4
  <2> HIDE DEF n
  <2>4. LegalRequest("replace", r, n) /\ LegalIntent(c, "replace", "terminal", n)
    BY <2>2 DEF LegalRequest, LegalIntent
  <2> QED
    BY <2>2, <2>3, <2>4, SendsIs DEF Kinds, Intents
<1>5. CASE /\ args[c].op = "recordAmbiguous" /\ Allowed(c, r)
           /\ Send(c, "replace", "ambiguous", r, Ambiguous(r, args[c].choice))
  <2> DEFINE n == Ambiguous(r, args[c].choice)
  <2>1. r.state = "executing" /\ args[c].choice \in AmbiguityReasons
    BY <1>1, <1>5 DEF Allowed, LegalArguments
  <2>2. n \in Records /\ LegalMove(r, n)
    BY <1>1, <2>1, BodiesTyped, MovesLegal
  <2>3. Send(c, "replace", "ambiguous", r, n)
    BY <1>5
  <2> HIDE DEF n
  <2>4. LegalRequest("replace", r, n) /\ LegalIntent(c, "replace", "ambiguous", n)
    BY <2>2 DEF LegalRequest, LegalIntent
  <2> QED
    BY <2>2, <2>3, <2>4, SendsIs DEF Kinds, Intents
<1>6. CASE /\ args[c].op = "resolveAmbiguous" /\ Allowed(c, r)
           /\ Send(c, "replace", "resolve", r, Resolved(r, args[c]))
  <2> DEFINE n == Resolved(r, args[c])
  <2>1. r.state = "ambiguous" /\ args[c].choice \in TerminalStates
    BY <1>1, <1>6 DEF Allowed, LegalArguments
  <2>2. n \in Records /\ LegalMove(r, n)
    BY <1>1, <1>6, <2>1, BodiesTyped, MovesLegal
  <2>3. Send(c, "replace", "resolve", r, n)
    BY <1>6
  <2> HIDE DEF n
  <2>4. LegalRequest("replace", r, n) /\ LegalIntent(c, "replace", "resolve", n)
    BY <2>2 DEF LegalRequest, LegalIntent
  <2> QED
    BY <2>2, <2>3, <2>4, SendsIs DEF Kinds, Intents
<1>7. CASE /\ args[c].op = "retireTerminal" /\ Allowed(c, r)
           /\ Send(c, "delete", "retire", r, NoRecord)
  <2>1. r.state \in TerminalStates
    BY <1>7 DEF Allowed
  <2>2. LegalRequest("delete", r, NoRecord) /\ LegalIntent(c, "delete", "retire", NoRecord)
    BY <2>1 DEF LegalRequest, LegalIntent
  <2> QED
    BY <1>7, <2>2, SendsIs, NoRecordTyped DEF Kinds, Intents
<1> QED
  BY <1>2, <1>3, <1>4, <1>5, <1>6, <1>7 DEF ApplyTo

-----------------------------------------------------------------------------
\* The steps of a call and of the service

LEMMA SeenRecord == Seen = "record" => WellFormed(row)
BY Zenon DEF Seen

LEMMA RowNamed ==
  ASSUME TypeOK, RowOK
  PROVE  row \in Records /\ Names(row, row, lastEtag)
BY DEF TypeOK, RowOK, Names

LEMMA FirstReadIs ==
  ASSUME TypeOK, RowOK, CallOK, NEW c \in Calls, FirstRead(c)
  PROVE  Proceeds(c)
<1>1. pc[c] = "reading" /\ row \in Records /\ Names(row, row, lastEtag)
  BY RowNamed DEF FirstRead
<1>2. CASE Seen = "record" /\ ApplyTo(c, row)
  BY <1>1, <1>2, SeenRecord, ApplyToIs
<1>3. CASE /\ args[c].op = "acquireDispatch"
           /\ Send(c, "create", "create", NoRecord, NewEntity(args[c]))
  <2> DEFINE n == NewEntity(args[c])
  <2>1. args[c] \in ArgumentRecords /\ LegalArguments(args[c])
    BY <1>1, ArgumentsLegal
  <2>2. /\ n \in Records /\ WellFormed(n)
        /\ n.state = "prepared" /\ n.owner = args[c].owner
    BY <1>3, <2>1, NoRecordTyped, BodiesTyped, EntityLegal
  <2>3. Send(c, "create", "create", NoRecord, n)
    BY <1>3
  <2> HIDE DEF n
  <2>4. LegalRequest("create", NoRecord, n) /\ LegalIntent(c, "create", "create", n)
    BY <1>3, <2>2 DEF LegalRequest, LegalIntent
  <2> QED
    BY <2>2, <2>3, <2>4, NoRecordTyped, SendsIs DEF Kinds, Intents
<1>4. CASE Refuse(c, "invalid-state", NoRecord) \/ Refuse(c, "store-unavailable", NoRecord)
  BY <1>4, RefuseIs, NoRecordTyped
<1>5. CASE Corrupt(c)
  BY <1>5, CorruptIs
<1> QED
  BY <1>2, <1>3, <1>4, <1>5 DEF FirstRead

LEMMA RecheckIs ==
  ASSUME TypeOK, RowOK, CallOK, NEW c \in Calls, Recheck(c)
  PROVE  Proceeds(c)
<1>1. /\ pc[c] = "rechecking" /\ row \in Records /\ Names(row, row, lastEtag)
      /\ write[c].base \in Records
  BY RowNamed DEF Recheck, TypeOK, Writes
<1>2. /\ LegalRequest(write[c].kind, write[c].base, write[c].body)
      /\ LegalIntent(c, write[c].kind, write[c].intent, write[c].body)
  BY <1>1 DEF CallOK
<1>3. CASE /\ write[c].kind = "create" /\ Seen = "record"
           /\ MatchesStored(row, write[c].body) /\ StartExecuting(c, row)
  <2>1. /\ row.state = "prepared" /\ row.owner = args[c].owner
        /\ args[c].op = "acquireDispatch"
    BY <1>2, <1>3 DEF MatchesStored, LegalRequest, LegalIntent
  <2> QED
    BY <1>1, <1>3, <2>1, SeenRecord, StartExecutingIs
<1>4. CASE /\ write[c].kind = "replace" /\ Seen = "record"
           /\ MatchesStored(row, write[c].body) /\ Recorded(c, row)
  <2>1. row.state = write[c].body.state /\ row.owner = write[c].body.owner
    BY <1>4 DEF MatchesStored
  <2> QED
    BY <1>1, <1>4, <2>1, SeenRecord, RecordedIs
<1>5. CASE Return(c, "recorded", "", write[c].base)
  BY <1>1, <1>5, AnswersIs
<1>6. CASE Corrupt(c)
  BY <1>6, CorruptIs
<1>7. CASE Unconfirmed(c)
  BY <1>7, UnconfirmedIs
<1>8. CASE \E reason \in {"requires-reconciliation", "store-unavailable"},
                r \in {NoRecord, row} : Refuse(c, reason, r)
  BY <1>1, <1>8, RefuseIs, NoRecordTyped
<1> QED
  BY <1>3, <1>4, <1>5, <1>6, <1>7, <1>8 DEF Recheck

LEMMA AfterConflictIs ==
  ASSUME TypeOK, RowOK, CallOK, NEW c \in Calls, AfterConflict(c)
  PROVE  Proceeds(c)
<1>1. pc[c] = "conflicted" /\ row \in Records /\ Names(row, row, lastEtag)
  BY RowNamed DEF AfterConflict
<1>2. /\ LegalRequest(write[c].kind, write[c].base, write[c].body)
      /\ LegalIntent(c, write[c].kind, write[c].intent, write[c].body)
  BY <1>1 DEF CallOK
<1>3. CASE write[c].kind = "create" /\ Seen = "record" /\ ClaimExisting(c, row)
  <2>1. args[c].op = "acquireDispatch"
    BY <1>2, <1>3 DEF LegalIntent
  <2> QED
    BY <1>1, <1>3, <2>1, SeenRecord, ClaimExistingIs
<1>4. CASE Corrupt(c)
  BY <1>4, CorruptIs
<1>5. CASE Unconfirmed(c)
  BY <1>5, UnconfirmedIs
<1>6. CASE \E reason \in {"conditional-conflict", "store-unavailable"},
                r \in {NoRecord, row} : Refuse(c, reason, r)
  BY <1>1, <1>6, RefuseIs, NoRecordTyped
<1> QED
  BY <1>3, <1>4, <1>5, <1>6 DEF AfterConflict

LEMMA GiveUpIs ==
  ASSUME NEW c \in Calls, GiveUp(c), TypeOK
  PROVE  LooksAgain(c)
<1>1. write[c].retries \in Nat
  BY DEF TypeOK, Writes
<1>2. ~(write[c].retries < MaxRetries)
  BY <1>1 DEF MaxRetries
<1> QED
  BY <1>2 DEF GiveUp, LooksAgain

\* A call that hears of its write goes on from the record the reply tells of.
LEMMA HearIs ==
  ASSUME CreateReturnsEtag, TypeOK, CallOK, ReplyOK, NEW c \in Calls, Hear(c)
  PROVE  Proceeds(c) \/ LooksAgain(c)
<1>1. /\ pc[c] = "writing" /\ reply[c].record \in Records /\ write[c].base \in Records
  BY DEF Hear, TypeOK, Replies, Writes
<1>2. /\ LegalRequest(write[c].kind, write[c].base, write[c].body)
      /\ LegalIntent(c, write[c].kind, write[c].intent, write[c].body)
  BY <1>1 DEF CallOK
<1>3. ASSUME reply[c].says = "stored", write[c].kind # "delete"
      PROVE  /\ WellFormed(reply[c].record) /\ Names(reply[c].record, row, lastEtag)
             /\ reply[c].record.state = write[c].body.state
             /\ reply[c].record.owner = write[c].body.owner
  BY <1>3 DEF ReplyOK, Bears
<1>4. CASE /\ reply[c].says = "stored" /\ write[c].kind = "create"
           /\ StartExecuting(c, reply[c].record)
  <2>1. write[c].body.state = "prepared" /\ write[c].body.owner = args[c].owner
        /\ args[c].op = "acquireDispatch"
    BY <1>2, <1>4 DEF LegalRequest, LegalIntent
  <2> QED  BY <1>1, <1>3, <1>4, <2>1, StartExecutingIs
<1>5. CASE /\ reply[c].says = "stored" /\ write[c].kind = "replace"
           /\ Recorded(c, reply[c].record)
  BY <1>1, <1>3, <1>5, RecordedIs
<1>6. CASE Return(c, "recorded", "", write[c].base)
  BY <1>1, <1>6, AnswersIs
<1>7. CASE /\ pc' = [pc EXCEPT ![c] = "conflicted"]
           /\ reply' = [reply EXCEPT ![c] = NoReply]
           /\ UNCHANGED <<wire, write, result, applied>>
  BY <1>1, <1>7 DEF LooksAgain
<1> QED
  BY <1>4, <1>5, <1>6, <1>7 DEF Hear

LEMMA ContinueIs ==
  ASSUME CreateReturnsEtag, TypeOK, RowOK, CallOK, ReplyOK, NEW c \in Calls, Continue(c)
  PROVE  CallStep(c)
<1>0. Remember
  BY DEF Continue
<1>1. CASE FirstRead(c)
  BY <1>0, <1>1, FirstReadIs DEF FirstRead, CallStep
<1>2. CASE GiveUp(c)
  BY <1>0, <1>2, GiveUpIs DEF GiveUp, CallStep
<1>3. CASE Recheck(c)
  BY <1>0, <1>3, RecheckIs DEF Recheck, CallStep
<1>4. CASE AfterConflict(c)
  BY <1>0, <1>4, AfterConflictIs DEF AfterConflict, CallStep
<1>5. CASE AfterUnnamedCreate(c)
  BY <1>5 DEF AfterUnnamedCreate, CallOK
<1>6. CASE Hear(c)
  BY <1>0, <1>6, HearIs DEF Hear, CallStep
<1> QED
  BY <1>1, <1>2, <1>3, <1>4, <1>5, <1>6 DEF Continue

LEMMA StoredIs ==
  ASSUME TypeOK, NEW w \in Requests, w.kind # "delete", WellFormed(w.body)
  PROVE  /\ Stored(w) \in Records /\ WellFormed(Stored(w))
         /\ Bears(Stored(w), w.body)
         /\ Stored(w).state = w.body.state /\ Stored(w).owner = w.body.owner
         /\ Stored(w).etag = lastEtag + 1
         /\ Stored(w).born = IF w.kind = "create" THEN lastEtag + 1 ELSE w.body.born
<1> DEFINE n == Stored(w)
<1>1. w.body \in Records /\ lastEtag \in Nat
  BY DEF TypeOK, Requests
<1>2. /\ n.state = w.body.state /\ n.version = w.body.version
      /\ n.owner = w.body.owner /\ n.expires = w.body.expires
      /\ n.retain = w.body.retain /\ n.terminalAt = w.body.terminalAt
      /\ n.reason = w.body.reason /\ n.etag = lastEtag + 1
      /\ n.born = IF w.kind = "create" THEN lastEtag + 1 ELSE w.body.born
  BY DEF Stored
<1>3. n \in Records
  BY <1>1, FieldsTyped DEF Stored, Records
<1> HIDE DEF n
<1>4. WellFormed(n)
  BY <1>2 DEF WellFormed
<1> QED
  BY <1>2, <1>3, <1>4 DEF n, Bears

LEMMA LandIs ==
  ASSUME TypeOK, NEW w \in wire, Land(w)
  PROVE  RowStep /\ QuietStep /\ Remember /\ w.call \in Calls
<1>1. w \in Requests /\ w.call \in Calls
  BY DEF TypeOK, Requests
<1>2. RowStep /\ (Applies(w) => row' = Stored(w))
  BY DEF Land, RowStep
<1>3. wire' \subseteq wire /\ applied' \subseteq Calls
  BY <1>1 DEF Land, TypeOK
<1> QED
  BY <1>1, <1>2, <1>3 DEF Land, QuietStep

-----------------------------------------------------------------------------
\* The row

\* The row is left alone, or gets a fresh ETag, or goes; and nothing that
\* happens to it contradicts a dispatch it did not contradict before.
LEMMA RowStepKeeps ==
  ASSUME TypeOK, RowOK, ExecutorOK, WireOK, RowStep, Remember
  PROVE  /\ row' \in Records /\ lastEtag' \in Nat /\ lastEtag <= lastEtag'
         /\ RowOK' /\ ExecutorOK'
         /\ row' = row \/ row'.state = "absent" \/ row'.etag = lastEtag + 1
         /\ \A r \in Records :
              r.born <= lastEtag /\ Upholds(row, executor, r) => Upholds(row', executor', r)
<1>1. row \in Records /\ lastEtag \in Nat /\ wire \subseteq Requests
  BY DEF TypeOK
<1>2. /\ row'.state = "executing" => executor' = row'.owner
      /\ row'.state = "absent" => executor' = NoOwner
      /\ row'.state \notin {"executing", "absent"} => executor' = executor
  BY Zenon DEF Remember
<1>3. CASE UNCHANGED <<row, lastEtag>>
  <2>1. ExecutorOK'
    BY <1>2, <1>3 DEF ExecutorOK
  <2>2. executor' = executor
    BY <1>2, <1>3 DEF ExecutorOK
  <2> QED  BY <1>1, <1>3, <2>1, <2>2 DEF RowOK, JournalWritesReadable
<1>4. ASSUME NEW w \in wire, Applies(w), w.kind = "delete",
             row' = Stored(w), lastEtag' = lastEtag
      PROVE  /\ row' = NoRecord /\ RowOK' /\ ExecutorOK'
             /\ \A r \in Records : Upholds(row', executor', r)
  <2>1. row' = NoRecord
    BY <1>4 DEF Stored
  <2>2. row'.state = "absent" /\ row'.etag = 0 /\ row'.born = 0
    BY <2>1 DEF NoRecord
  <2>3. RowOK'
    BY <1>1, <1>4, <2>2 DEF RowOK, JournalWritesReadable
  <2>4. ExecutorOK'
    BY <1>2, <2>2 DEF ExecutorOK
  <2> QED
    BY <2>1, <2>2, <2>3, <2>4 DEF Upholds
<1>5. ASSUME NEW w \in wire, Applies(w), w.kind = "create",
             row' = Stored(w), lastEtag' = lastEtag + 1
      PROVE  /\ row' \in Records /\ RowOK' /\ ExecutorOK' /\ row'.etag = lastEtag + 1
             /\ \A r \in Records : r.born <= lastEtag => Upholds(row', executor', r)
  <2>1. /\ w \in Requests /\ WellFormed(w.body) /\ w.body.state = "prepared"
        /\ row.state = "absent"
    BY <1>1, <1>5 DEF WireOK, LegalRequest, Applies
  <2>2. /\ row' \in Records /\ WellFormed(row') /\ row'.state = "prepared"
        /\ row'.etag = lastEtag + 1 /\ row'.born = lastEtag + 1
    BY <1>5, <2>1, StoredIs
  <2>3. RowOK'
    BY <1>1, <1>5, <2>2 DEF RowOK, JournalWritesReadable
  <2>4. ExecutorOK'
    BY <1>2, <2>1, <2>2 DEF ExecutorOK
  <2>5. ASSUME NEW r \in Records, r.born <= lastEtag
        PROVE  row'.born # r.born
    BY <1>1, <2>2, <2>5, FieldsTyped
  <2> QED
    BY <2>2, <2>3, <2>4, <2>5 DEF Upholds
<1>6. ASSUME NEW w \in wire, Applies(w), w.kind = "replace",
             row' = Stored(w), lastEtag' = lastEtag + 1
      PROVE  /\ row' \in Records /\ RowOK' /\ ExecutorOK' /\ row'.etag = lastEtag + 1
             /\ \A r \in Records :
                  Upholds(row, executor, r) => Upholds(row', executor', r)
  <2>1. w \in Requests /\ LegalMove(w.base, w.body) /\ row = w.base
    BY <1>1, <1>6 DEF WireOK, LegalRequest, Applies, Names
  <2>2. /\ row' \in Records /\ WellFormed(row') /\ row'.state = w.body.state
        /\ row'.etag = lastEtag + 1 /\ row'.born = row.born
    BY <1>6, <2>1, StoredIs DEF LegalMove
  <2>3. row.state # "absent"
    BY <1>6 DEF Applies
  <2>4. RowOK'
    BY <1>1, <1>6, <2>2, <2>3, FieldsTyped DEF RowOK, JournalWritesReadable
  <2>5. /\ row'.state \in {"prepared", "executing"} => row.state = "prepared"
        /\ row'.state # "absent"
    BY <2>1, <2>2 DEF LegalMove, TerminalStates
  <2>6. ExecutorOK'
    BY <1>2, <2>5 DEF ExecutorOK
  <2> QED
    BY <1>2, <2>2, <2>3, <2>4, <2>5, <2>6 DEF Upholds
<1>7. ASSUME row.state # "absent", row' = Damaged(row), lastEtag' = lastEtag + 1
      PROVE  /\ row' \in Records /\ RowOK' /\ ExecutorOK' /\ row'.etag = lastEtag + 1
             /\ \A r \in Records :
                  Upholds(row, executor, r) => Upholds(row', executor', r)
  <2>1. row'.state = "damaged" /\ row'.etag = lastEtag + 1 /\ row'.born = row.born
    BY <1>7 DEF Damaged
  <2>2. "damaged" \in RecordStates
    BY DEF RecordStates
  <2>3. row' \in Records
    BY <1>1, <1>7, <2>2, FieldsTyped DEF Damaged, Records
  <2>4. RowOK'
    BY <1>1, <1>7, <2>1, FieldsTyped DEF RowOK, JournalWritesReadable
  <2>5. ExecutorOK'
    BY <2>1 DEF ExecutorOK
  <2> QED
    BY <1>2, <1>7, <2>1, <2>3, <2>4, <2>5 DEF Upholds
<1>8. \A w \in wire : w.kind \in {"create", "replace", "delete"}
  BY <1>1 DEF Requests
<1>9. NoRecord.state = "absent"
  BY DEF NoRecord
<1> QED
  BY <1>1, <1>3, <1>4, <1>5, <1>6, <1>7, <1>8, <1>9, NoRecordTyped DEF RowStep

\* No later row bears the ETag of a version the row once was.
LEMMA NamesKeep ==
  ASSUME TypeOK, RowOK, ExecutorOK, WireOK, RowStep, Remember,
         NEW q \in Records, Names(q, row, lastEtag)
  PROVE  Names(q, row', lastEtag')
<1>1. lastEtag \in Nat /\ q.etag \in Nat
  BY FieldsTyped DEF TypeOK
<1>2. /\ lastEtag' \in Nat /\ lastEtag <= lastEtag'
      /\ row' = row \/ row'.state = "absent" \/ row'.etag = lastEtag + 1
  BY RowStepKeeps
<1> QED
  BY <1>1, <1>2 DEF Names

\* A request on the wire keeps its base honest.
LEMMA WireKeeps ==
  ASSUME TypeOK, RowOK, ExecutorOK, WireOK, RowStep, Remember, NEW w \in wire
  PROVE  /\ LegalRequest(w.kind, w.base, w.body)
         /\ w.kind # "create" => Names(w.base, row', lastEtag')
<1>1. w.base \in Records
  BY DEF TypeOK, Requests
<1> QED
  BY <1>1, NamesKeep DEF WireOK

LEMMA GrantTyped ==
  ASSUME TypeOK, NEW d \in Calls
  PROVE  /\ GrantOf(d) \in Records
         /\ reply[d].record \in Records /\ result[d].record \in Records
BY DEF TypeOK, Results, Replies, GrantOf

\* A dispatch once granted stays upheld.
LEMMA DispatchKeeps ==
  ASSUME TypeOK, RowOK, ExecutorOK, WireOK, GrantsOK, RowStep, Remember, NEW d \in Granted
  PROVE  /\ GrantOf(d).owner = args[d].owner
         /\ GrantOf(d).born <= lastEtag'
         /\ Upholds(row', executor', GrantOf(d))
<1>0. d \in Calls
  BY DEF Granted
<1>1. GrantOf(d) \in Records /\ lastEtag \in Nat
  BY <1>0, GrantTyped DEF TypeOK
<1>2. GrantOf(d).born \in Nat
  BY <1>1, FieldsTyped
<1>3. /\ GrantOf(d).owner = args[d].owner
      /\ GrantOf(d).born <= lastEtag
      /\ Upholds(row, executor, GrantOf(d))
  BY <1>0 DEF GrantsOK
<1>4. /\ lastEtag' \in Nat /\ lastEtag <= lastEtag'
      /\ Upholds(row', executor', GrantOf(d))
  BY <1>1, <1>3, RowStepKeeps
<1> QED
  BY <1>1, <1>2, <1>3, <1>4

LEMMA HistoryTyped ==
  ASSUME TypeOK, row' \in Records, Remember
  PROVE  held' \in [Calls -> SUBSET Records] /\ executor' \in Aliases
<1>1. held' \in [Calls -> SUBSET Records]
  BY DEF Remember, TypeOK
<1>2. row'.owner \in Aliases /\ NoOwner \in Aliases /\ executor \in Aliases
  BY FieldsTyped DEF TypeOK, Aliases
<1>3. executor' \in {row'.owner, NoOwner, executor}
  BY Zenon DEF Remember
<1> QED  BY <1>1, <1>2, <1>3

\* While the row stays as it is, so does its executor.
LEMMA ExecutorStays ==
  ASSUME ExecutorOK, UNCHANGED row, Remember
  PROVE  executor' = executor
<1>1. /\ row'.state = "executing" => executor' = row'.owner
      /\ row'.state = "absent" => executor' = NoOwner
      /\ row'.state \notin {"executing", "absent"} => executor' = executor
  BY Zenon DEF Remember
<1> QED  BY <1>1 DEF ExecutorOK

-----------------------------------------------------------------------------
\* The invariant is kept by each kind of step

\* Grants only go: the calls granted a dispatch after the step were granted the
\* same before, and the row contradicts none of them.
LEMMA GrantsStay ==
  ASSUME IInv, RowStep, Remember,
         Granted' \subseteq Granted,
         \A d \in Granted' : GrantOf(d)' = GrantOf(d) /\ args'[d] = args[d],
         \A d \in Calls : result'[d].kind # "none" => pc'[d] = "done"
  PROVE  GrantsOK' /\ OneGrantPerLife'
<1> USE DEF IInv
<1>1. ASSUME NEW d \in Granted'
      PROVE  /\ GrantOf(d)'.owner = args'[d].owner
             /\ GrantOf(d)'.born <= lastEtag'
             /\ Upholds(row', executor', GrantOf(d)')
  <2>1. /\ GrantOf(d).owner = args[d].owner
        /\ GrantOf(d).born <= lastEtag'
        /\ Upholds(row', executor', GrantOf(d))
    BY DispatchKeeps
  <2> QED  BY <2>1 DEF Upholds
<1>2. GrantsOK'
  BY <1>1 DEF GrantsOK
<1>3. OneGrantPerLife'
  BY DEF OneGrantPerLife
<1> QED  BY <1>2, <1>3

\* One more call is granted a dispatch: of the row, which executes for it.
LEMMA GrantsGrow ==
  ASSUME IInv, RowStep, Remember, NEW c \in Calls,
         Granted' \subseteq Granted \union {c},
         \A d \in Granted' \ {c} : GrantOf(d)' = GrantOf(d),
         UNCHANGED args,
         \A d \in Calls : result'[d].kind # "none" => pc'[d] = "done",
         c \in Granted' =>
           GrantOf(c)' = row' /\ row'.state = "executing" /\ row'.owner = args[c].owner
  PROVE  GrantsOK' /\ OneGrantPerLife'
<1> USE DEF IInv
<1>1. RowOK' /\ ExecutorOK' /\ row' \in Records
  BY RowStepKeeps
<1>2. ASSUME NEW d \in Granted', d # c
      PROVE  /\ GrantOf(d)'.owner = args[d].owner
             /\ GrantOf(d)'.born <= lastEtag'
             /\ Upholds(row', executor', GrantOf(d)')
  <2>1. d \in Granted /\ GrantOf(d)' = GrantOf(d)
    BY <1>2
  <2> QED  BY <2>1, DispatchKeeps
<1>3. c \in Granted' =>
        /\ GrantOf(c)'.owner = args[c].owner
        /\ GrantOf(c)'.born <= lastEtag'
        /\ Upholds(row', executor', GrantOf(c)')
        /\ executor' = args[c].owner
  BY <1>1 DEF RowOK, ExecutorOK, Upholds
<1>4. GrantsOK'
  BY <1>2, <1>3 DEF GrantsOK, Upholds
<1>5. ASSUME NEW d \in Granted', d # c, c \in Granted', GrantOf(d)'.born = GrantOf(c)'.born
      PROVE  args[d].owner = args[c].owner
  BY <1>2, <1>3, <1>5 DEF Upholds
<1>6. ASSUME NEW d \in Granted', NEW e \in Granted', d # c, e # c,
             GrantOf(d)'.born = GrantOf(e)'.born
      PROVE  args[d].owner = args[e].owner
  BY <1>6 DEF OneGrantPerLife
<1>7. OneGrantPerLife'
  BY <1>5, <1>6 DEF OneGrantPerLife
<1> QED  BY <1>4, <1>7

\* A step by which the call c sends a write.
LEMMA SendsKeeps ==
  ASSUME IInv, NEW c \in Calls, CallStep(c), Sends(c)
  PROVE  IInv'
<1> USE DEF IInv
<1>0. /\ RowStep /\ Remember /\ UNCHANGED <<row, lastEtag, args>>
      /\ pc[c] \notin {"idle", "done"}
  BY DEF CallStep, RowStep
<1>1. PICK kind \in Kinds, intent \in Intents, base \in Records, body \in Records :
        /\ Send(c, kind, intent, base, body)
        /\ LegalRequest(kind, base, body)
        /\ LegalIntent(c, kind, intent, body)
        /\ kind # "create" => Names(base, row, lastEtag)
  BY DEF Sends
<1> DEFINE request == [call |-> c, kind |-> kind, base |-> base, body |-> body]
           sent == [kind |-> kind, intent |-> intent, base |-> base,
                    body |-> body, retries |-> 0]
<1>2. /\ pc' = [pc EXCEPT ![c] = "writing"]
      /\ write' = [write EXCEPT ![c] = sent]
      /\ wire' = wire \union {request}
      /\ reply' = [reply EXCEPT ![c] = NoReply]
      /\ applied' = applied \ {c}
      /\ result' = result
  BY <1>1 DEF Send
<1>3. request \in Requests /\ sent \in Writes /\ NoReply \in Replies
  BY NoRecordTyped DEF Requests, Writes, Kinds, Intents, NoReply, Replies
<1>4. /\ request.kind = kind /\ request.base = base /\ request.body = body
      /\ sent.kind = kind /\ sent.intent = intent
      /\ sent.base = base /\ sent.body = body
      /\ NoReply.says = "none"
  BY DEF NoReply
<1> HIDE DEF request, sent
<1>5. row' \in Records /\ lastEtag' \in Nat /\ RowOK' /\ ExecutorOK'
  BY <1>0, RowStepKeeps
<1>6. TypeOK'
  <2>1. held' \in [Calls -> SUBSET Records] /\ executor' \in Aliases
    BY <1>0, <1>5, HistoryTyped
  <2> QED  BY <1>0, <1>2, <1>3, <1>5, <2>1 DEF TypeOK
<1>7. WireOK'
  <2>1. ASSUME NEW w \in wire', w # request
        PROVE  w \in wire
    BY <1>2, <2>1
  <2>2. kind # "create" => Names(base, row', lastEtag')
    BY <1>0, <1>1 DEF Names
  <2> QED
    BY <1>0, <1>1, <1>4, <2>1, <2>2, WireKeeps DEF WireOK
<1>71. /\ \A d \in Calls \ {c} : pc'[d] = pc[d] /\ write'[d] = write[d] /\ reply'[d] = reply[d]
       /\ pc'[c] = "writing" /\ write'[c] = sent /\ reply'[c] = NoReply
  BY <1>2 DEF TypeOK
<1>8. CallOK'
  <2>1. LegalIntent(c, kind, intent, body)'
    BY <1>0, <1>1 DEF LegalIntent
  <2> QED
    BY <1>0, <1>1, <1>4, <1>71, <2>1 DEF CallOK, LegalIntent
<1>81. ReplyOK'
  BY <1>0, <1>2, <1>4, <1>71 DEF ReplyOK
<1>9. result[c].kind = "none"
  BY <1>0 DEF GrantsOK
<1>10. GrantsOK' /\ OneGrantPerLife'
  <2>1. ASSUME NEW d \in Granted'
        PROVE  d \in Granted /\ GrantOf(d)' = GrantOf(d)
    BY <1>2, <1>4, <1>9, <1>71 DEF Granted, Promised, GrantOf
  <2>2. \A d \in Calls : result'[d].kind # "none" => pc'[d] = "done"
    BY <1>2, <1>9, <1>71 DEF GrantsOK
  <2> QED  BY <1>0, <2>1, <2>2, GrantsStay
<1> QED
  BY <1>5, <1>6, <1>7, <1>8, <1>81, <1>10

\* A step by which the call c returns.
LEMMA ReturnsKeeps ==
  ASSUME IInv, NEW c \in Calls, CallStep(c), Returns(c)
  PROVE  IInv'
<1> USE DEF IInv
<1>0. /\ RowStep /\ Remember /\ UNCHANGED <<row, lastEtag, args>>
      /\ pc[c] \notin {"idle", "done"}
  BY DEF CallStep, RowStep
<1>1. PICK answer \in Results :
        /\ Return(c, answer.kind, answer.reason, answer.record)
        /\ answer.kind # "none"
        /\ answer.kind = "dispatch" => Grantable(c, answer.record)
  BY DEF Returns
<1> DEFINE said == [kind |-> answer.kind, reason |-> answer.reason,
                    record |-> answer.record]
<1>2. /\ pc' = [pc EXCEPT ![c] = "done"]
      /\ result' = [result EXCEPT ![c] = said]
      /\ reply' = [reply EXCEPT ![c] = NoReply]
      /\ UNCHANGED <<wire, write, applied>>
  BY <1>1 DEF Return
<1>3. /\ said \in Results /\ said.kind = answer.kind /\ said.record = answer.record
      /\ NoReply \in Replies /\ NoReply.says = "none"
  BY NoRecordTyped DEF Results, NoReply, Replies
<1> HIDE DEF said
<1>4. row' \in Records /\ lastEtag' \in Nat /\ RowOK' /\ ExecutorOK'
  BY <1>0, RowStepKeeps
<1>5. TypeOK'
  <2>1. held' \in [Calls -> SUBSET Records] /\ executor' \in Aliases
    BY <1>0, <1>4, HistoryTyped
  <2> QED  BY <1>0, <1>2, <1>3, <1>4, <2>1 DEF TypeOK
<1>6. WireOK'
  BY <1>0, <1>2, WireKeeps DEF WireOK
<1>7. /\ pc'[c] = "done" /\ result'[c] = said /\ reply'[c] = NoReply
      /\ \A d \in Calls \ {c} : pc'[d] = pc[d] /\ result'[d] = result[d] /\ reply'[d] = reply[d]
  BY <1>2 DEF TypeOK
<1>8. CallOK'
  BY <1>0, <1>2, <1>7 DEF CallOK, LegalIntent
<1>9. ReplyOK'
  BY <1>0, <1>2, <1>3, <1>7 DEF ReplyOK
<1>10. result[c].kind = "none"
  BY <1>0 DEF GrantsOK
<1>11. \A d \in Calls : result'[d].kind # "none" => pc'[d] = "done"
  BY <1>7 DEF GrantsOK
<1>12. \A d \in Granted' \ {c} : d \in Granted /\ GrantOf(d)' = GrantOf(d)
  BY <1>2, <1>7 DEF Granted, Promised, GrantOf
<1>13. c \in Granted' <=> answer.kind = "dispatch"
  BY <1>3, <1>7 DEF Granted, Promised
<1>14. c \in Granted' => GrantOf(c)' = answer.record
  BY <1>3, <1>7, <1>13 DEF GrantOf
<1>15. GrantsOK' /\ OneGrantPerLife'
  <2>1. CASE answer.kind # "dispatch"
    BY <1>0, <1>11, <1>12, <1>13, <2>1, GrantsStay
  <2>2. CASE answer.kind = "dispatch" /\ Promised(c) /\ answer.record = reply[c].record
    <3>1. c \in Granted /\ GrantOf(c) = answer.record
      BY <1>10, <2>2 DEF Granted, GrantOf
    <3> QED  BY <1>0, <1>11, <1>12, <1>14, <3>1, GrantsStay
  <2>3. CASE answer.kind = "dispatch" /\ answer.record = row /\ row.state = "executing"
    <3>1. row.owner = args[c].owner
      BY <1>1, <2>3 DEF Grantable
    <3> QED  BY <1>0, <1>11, <1>12, <1>14, <2>3, <3>1, GrantsGrow
  <2> QED  BY <1>1, <2>1, <2>2, <2>3 DEF Grantable
<1> QED
  BY <1>4, <1>5, <1>6, <1>8, <1>9, <1>15

\* A step by which the call c turns to reading the row.
LEMMA LooksAgainKeeps ==
  ASSUME IInv, NEW c \in Calls, CallStep(c), LooksAgain(c)
  PROVE  IInv'
<1> USE DEF IInv
<1>0. RowStep /\ Remember /\ UNCHANGED <<row, lastEtag, args>>
  BY DEF CallStep, RowStep
<1>1. PICK label \in {"rechecking", "conflicted"} : pc' = [pc EXCEPT ![c] = label]
  BY DEF LooksAgain
<1>2. /\ pc[c] = "writing" /\ reply' = [reply EXCEPT ![c] = NoReply]
      /\ UNCHANGED <<wire, write, result, applied>>
  BY DEF LooksAgain
<1>3. row' \in Records /\ lastEtag' \in Nat /\ RowOK' /\ ExecutorOK'
  BY <1>0, RowStepKeeps
<1>4. NoReply \in Replies /\ NoReply.says = "none"
  BY NoRecordTyped DEF NoReply, Replies
<1>5. TypeOK'
  <2>1. held' \in [Calls -> SUBSET Records] /\ executor' \in Aliases
    BY <1>0, <1>3, HistoryTyped
  <2> QED  BY <1>0, <1>1, <1>2, <1>3, <1>4, <2>1 DEF TypeOK
<1>6. WireOK'
  BY <1>0, <1>2, WireKeeps DEF WireOK
<1>7. /\ pc'[c] \in {"rechecking", "conflicted"} /\ reply'[c] = NoReply
      /\ \A d \in Calls \ {c} : pc'[d] = pc[d] /\ reply'[d] = reply[d]
  BY <1>1, <1>2 DEF TypeOK
<1>8. CallOK'
  BY <1>0, <1>2, <1>7 DEF CallOK, LegalIntent
<1>9. ReplyOK'
  BY <1>0, <1>2, <1>4, <1>7 DEF ReplyOK
<1>10. GrantsOK' /\ OneGrantPerLife'
  <2>1. ASSUME NEW d \in Granted'
        PROVE  d \in Granted /\ GrantOf(d)' = GrantOf(d)
    BY <1>2, <1>4, <1>7 DEF Granted, Promised, GrantOf
  <2>2. \A d \in Calls : result'[d].kind # "none" => pc'[d] = "done"
    BY <1>2, <1>7 DEF GrantsOK
  <2> QED  BY <1>0, <2>1, <2>2, GrantsStay
<1> QED
  BY <1>3, <1>5, <1>6, <1>8, <1>9, <1>10

\* The reply to a request that lands tells of the row as it is then.
LEMMA ReplyIs ==
  ASSUME IInv, RowStep, Remember, NEW w \in wire, pc[w.call] = "writing", w = Request(w.call),
         Applies(w) => row' = Stored(w)
  PROVE  /\ w.call \in Calls /\ ReplyTo(w) \in Replies /\ ReplyTo(w).says # "none"
         /\ ReplyTo(w).says = "stored" /\ w.kind # "delete" =>
              /\ ReplyTo(w).record = row' /\ WellFormed(row')
              /\ Bears(row', w.body) /\ Names(row', row', lastEtag')
<1> USE DEF IInv
<1>1. w \in Requests /\ w.call \in Calls
  BY DEF TypeOK, Requests
<1>2. row' \in Records /\ RowOK' /\ lastEtag' \in Nat
  BY RowStepKeeps
<1>3. Names(row', row', lastEtag')
  BY <1>2 DEF Names, RowOK
<1>4. CASE ~Applies(w)
  BY <1>1, <1>4, NoRecordTyped DEF ReplyTo, Replies
<1>5. CASE Applies(w) /\ w.kind = "delete"
  <2>1. ReplyTo(w) = [says |-> "stored", record |-> NoRecord]
    BY <1>5 DEF ReplyTo, Stored
  <2> QED  BY <1>1, <1>5, <2>1, NoRecordTyped DEF Replies
<1>6. CASE Applies(w) /\ w.kind # "delete"
  <2>1. ReplyTo(w) = [says |-> "stored", record |-> row']
    BY <1>6 DEF ReplyTo
  <2>2. WellFormed(w.body)
    BY <1>1, <1>6 DEF WireOK, LegalRequest, LegalMove
  <2>3. WellFormed(row') /\ Bears(row', w.body)
    BY <1>1, <1>6, <2>2, StoredIs
  <2> QED  BY <1>1, <1>2, <1>3, <2>1, <2>3 DEF Replies
<1> QED  BY <1>4, <1>5, <1>6

\* A step of the service, or of another program.
LEMMA QuietKeeps ==
  ASSUME IInv, RowStep, QuietStep, Remember
  PROVE  IInv'
<1> USE DEF IInv
<1>1. /\ wire' \subseteq wire /\ applied' \subseteq Calls
      /\ UNCHANGED <<pc, args, write, result>>
  BY DEF QuietStep
<1>2. row' \in Records /\ lastEtag' \in Nat /\ RowOK' /\ ExecutorOK'
  BY RowStepKeeps
<1>3. held' \in [Calls -> SUBSET Records] /\ executor' \in Aliases
  BY <1>2, HistoryTyped
<1>4. WireOK'
  BY <1>1, WireKeeps DEF WireOK
<1>5. CallOK'
  BY <1>1 DEF CallOK, LegalIntent
<1>6. \A d \in Calls : result'[d].kind # "none" => pc'[d] = "done"
  BY <1>1 DEF GrantsOK
<1>7. CASE UNCHANGED reply
  <2>1. ReplyOK'
    <3>1. ASSUME NEW d \in Calls, Names(reply[d].record, row, lastEtag)
          PROVE  Names(reply[d].record, row', lastEtag')
      BY <3>1, GrantTyped, NamesKeep
    <3> QED  BY <1>1, <1>7, <3>1 DEF ReplyOK
  <2>2. \A d \in Granted' : d \in Granted /\ GrantOf(d)' = GrantOf(d)
    BY <1>1, <1>7 DEF Granted, Promised, GrantOf
  <2>3. TypeOK'
    BY <1>1, <1>2, <1>3, <1>7 DEF TypeOK
  <2>4. GrantsOK' /\ OneGrantPerLife'
    BY <1>1, <1>6, <2>2, GrantsStay
  <2> QED  BY <1>2, <1>4, <1>5, <2>1, <2>3, <2>4
<1>8. ASSUME NEW w \in wire, pc[w.call] = "writing", w = Request(w.call),
             Applies(w) => row' = Stored(w),
             reply' = [reply EXCEPT ![w.call] = ReplyTo(w)]
      PROVE  IInv'
  <2> DEFINE c == w.call
             answer == ReplyTo(w)
  <2>1. /\ c \in Calls /\ answer \in Replies /\ answer.says # "none"
        /\ answer.says = "stored" /\ w.kind # "delete" =>
              /\ answer.record = row' /\ WellFormed(row')
              /\ Bears(row', w.body) /\ Names(row', row', lastEtag')
    BY <1>8, ReplyIs
  <2>2. pc[c] = "writing" /\ w.kind = write[c].kind /\ w.body = write[c].body
    BY <1>8 DEF Request
  <2> HIDE DEF answer, c
  <2>3. /\ reply' = [reply EXCEPT ![c] = answer]
        /\ reply'[c] = answer /\ \A d \in Calls \ {c} : reply'[d] = reply[d]
    BY <1>8, <2>1 DEF answer, c, TypeOK
  <2>4. TypeOK'
    BY <1>1, <1>2, <1>3, <2>1, <2>3 DEF TypeOK
  <2>5. ReplyOK'
    <3>1. ASSUME NEW d \in Calls, Names(reply[d].record, row, lastEtag)
          PROVE  Names(reply[d].record, row', lastEtag')
      BY <3>1, GrantTyped, NamesKeep
    <3>2. ASSUME NEW d \in Calls \ {c}
          PROVE  /\ reply'[d].says # "none" => pc'[d] = "writing"
                 /\ reply'[d].says = "stored" /\ write'[d].kind # "delete" =>
                      /\ WellFormed(reply'[d].record) /\ Bears(reply'[d].record, write'[d].body)
                      /\ Names(reply'[d].record, row', lastEtag')
      BY <1>1, <2>3, <3>1 DEF ReplyOK
    <3>3. /\ pc'[c] = "writing"
          /\ reply'[c].says = "stored" /\ write'[c].kind # "delete" =>
               /\ WellFormed(reply'[c].record) /\ Bears(reply'[c].record, write'[c].body)
               /\ Names(reply'[c].record, row', lastEtag')
      BY <1>1, <2>1, <2>2, <2>3
    <3> QED  BY <3>2, <3>3 DEF ReplyOK
  <2>6. LegalIntent(c, write[c].kind, write[c].intent, write[c].body)
    BY <2>1, <2>2 DEF CallOK
  <2>7. \A d \in Granted' \ {c} : d \in Granted /\ GrantOf(d)' = GrantOf(d)
    BY <1>1, <2>3 DEF Granted, Promised, GrantOf
  <2>8. result[c].kind = "none"
    BY <2>1, <2>2 DEF GrantsOK
  <2>9. c \in Granted' =>
          GrantOf(c)' = row' /\ row'.state = "executing" /\ row'.owner = args[c].owner
    <3>1. c \in Granted' => answer.says = "stored" /\ write[c].intent = "start"
      BY <1>1, <2>3, <2>8 DEF Granted, Promised
    <3>2. write[c].intent = "start" =>
            w.kind # "delete" /\ w.body.state = "executing" /\ w.body.owner = args[c].owner
      BY <2>2, <2>6 DEF LegalIntent
    <3>3. GrantOf(c)' = answer.record
      BY <1>1, <2>3, <2>8 DEF GrantOf
    <3> QED  BY <2>1, <3>1, <3>2, <3>3 DEF Bears
  <2>10. GrantsOK' /\ OneGrantPerLife'
    BY <1>1, <1>6, <2>1, <2>7, <2>9, GrantsGrow
  <2> QED  BY <1>2, <1>4, <1>5, <2>4, <2>5, <2>10
<1> QED  BY <1>7, <1>8 DEF QuietStep

LEMMA CallStepKeeps ==
  ASSUME IInv, NEW c \in Calls, CallStep(c)
  PROVE  IInv'
BY SendsKeeps, ReturnsKeeps, LooksAgainKeeps DEF CallStep, Proceeds

LEMMA ArgumentsTyped ==
  ASSUME TypeOK, NEW c \in Calls, NEW a \in Arguments(c)
  PROVE  a \in ArgumentRecords
<1> DEFINE Ops == Operations \union {"none"}
           Shape == [op |-> a.op, owner |-> a.owner, now |-> a.now, lease |-> a.lease,
                     expected |-> a.expected, choice |-> a.choice]
           Fields == /\ a.op \in Ops /\ a.owner \in Aliases /\ a.now \in Nat
                     /\ a.lease \in Nat /\ a.expected \in Nat /\ a.choice \in Choices
<1>1. KnownEtags \subseteq Nat
  BY FieldsTyped DEF KnownEtags, TypeOK, Results
<1>2. /\ "acquireDispatch" \in Ops /\ "recordTerminal" \in Ops
      /\ "recordAmbiguous" \in Ops /\ "resolveAmbiguous" \in Ops
      /\ "retireTerminal" \in Ops
  BY DEF Operations
<1> HIDE DEF Ops
<1>3. /\ Times \subseteq Nat /\ Leases \subseteq Nat /\ 0 \in Nat
      /\ Owners \subseteq Aliases /\ NoOwner \in Aliases
  BY JournalAssumption DEF Aliases
<1>4. TerminalStates \subseteq Choices /\ AmbiguityReasons \subseteq Choices /\ "" \in Choices
  BY DEF Choices, Reasons
<1>5. ASSUME a \in [op : {"acquireDispatch"}, owner : Owners, now : Times,
                   lease : Leases, expected : {0}, choice : {""}]
      PROVE  Fields /\ a = Shape
  <2>1. /\ a.op = "acquireDispatch" /\ a.owner \in Owners /\ a.now \in Times
        /\ a.lease \in Leases /\ a.expected = 0 /\ a.choice = ""
    BY <1>5
  <2>2. Fields
    BY <1>2, <1>3, <1>4, <2>1, Zenon
  <2>3. a = Shape
    BY <1>5
  <2> QED
    BY <2>2, <2>3
<1>6. ASSUME a \in [op : {"recordTerminal"}, owner : Owners, now : Times,
                   lease : {0}, expected : KnownEtags, choice : TerminalStates]
      PROVE  Fields /\ a = Shape
  <2>1. /\ a.op = "recordTerminal" /\ a.owner \in Owners /\ a.now \in Times
        /\ a.lease = 0 /\ a.expected \in KnownEtags /\ a.choice \in TerminalStates
    BY <1>6
  <2>2. Fields
    BY <1>1, <1>2, <1>3, <1>4, <2>1, Zenon
  <2>3. a = Shape
    BY <1>6
  <2> QED
    BY <2>2, <2>3
<1>7. ASSUME a \in [op : {"recordAmbiguous"}, owner : Owners, now : {0},
                   lease : {0}, expected : KnownEtags, choice : AmbiguityReasons]
      PROVE  Fields /\ a = Shape
  <2>1. /\ a.op = "recordAmbiguous" /\ a.owner \in Owners /\ a.now = 0
        /\ a.lease = 0 /\ a.expected \in KnownEtags /\ a.choice \in AmbiguityReasons
    BY <1>7
  <2>2. Fields
    BY <1>1, <1>2, <1>3, <1>4, <2>1, Zenon
  <2>3. a = Shape
    BY <1>7
  <2> QED
    BY <2>2, <2>3
<1>8. ASSUME a \in [op : {"resolveAmbiguous"}, owner : {NoOwner}, now : Times,
                   lease : {0}, expected : KnownEtags, choice : TerminalStates]
      PROVE  Fields /\ a = Shape
  <2>1. /\ a.op = "resolveAmbiguous" /\ a.owner = NoOwner /\ a.now \in Times
        /\ a.lease = 0 /\ a.expected \in KnownEtags /\ a.choice \in TerminalStates
    BY <1>8
  <2>2. Fields
    BY <1>1, <1>2, <1>3, <1>4, <2>1, Zenon
  <2>3. a = Shape
    BY <1>8
  <2> QED
    BY <2>2, <2>3
<1>9. ASSUME a \in [op : {"retireTerminal"}, owner : {NoOwner}, now : Times,
                   lease : {0}, expected : KnownEtags, choice : {""}]
      PROVE  Fields /\ a = Shape
  <2>1. /\ a.op = "retireTerminal" /\ a.owner = NoOwner /\ a.now \in Times
        /\ a.lease = 0 /\ a.expected \in KnownEtags /\ a.choice = ""
    BY <1>9
  <2>2. Fields
    BY <1>1, <1>2, <1>3, <1>4, <2>1, Zenon
  <2>3. a = Shape
    BY <1>9
  <2> QED
    BY <2>2, <2>3
<1> HIDE DEF Fields, Shape
<1>10. Fields /\ a = Shape
  <2>1. \/ a \in [op : {"acquireDispatch"}, owner : Owners, now : Times,
                 lease : Leases, expected : {0}, choice : {""}]
        \/ a \in [op : {"recordTerminal"}, owner : Owners, now : Times,
                 lease : {0}, expected : KnownEtags, choice : TerminalStates]
        \/ a \in [op : {"recordAmbiguous"}, owner : Owners, now : {0},
                 lease : {0}, expected : KnownEtags, choice : AmbiguityReasons]
        \/ a \in [op : {"resolveAmbiguous"}, owner : {NoOwner}, now : Times,
                 lease : {0}, expected : KnownEtags, choice : TerminalStates]
        \/ a \in [op : {"retireTerminal"}, owner : {NoOwner}, now : Times,
                 lease : {0}, expected : KnownEtags, choice : {""}]
    BY Zenon DEF Arguments
  <2> QED
    BY <2>1, <1>5, <1>6, <1>7, <1>8, <1>9, Zenon
<1>11. a \in [op : Ops, owner : Aliases, now : Nat, lease : Nat,
             expected : Nat, choice : Choices]
  BY <1>10 DEF Fields, Shape
<1> QED
  BY <1>11 DEF Ops, ArgumentRecords

\* A call starts.
LEMMA InvokeKeeps ==
  ASSUME IInv, NEW c \in Calls, Invoke(c)
  PROVE  IInv'
<1> USE DEF IInv
<1>1. PICK a \in Arguments(c) : args' = [args EXCEPT ![c] = a]
  BY DEF Invoke
<1>2. /\ pc[c] = "idle" /\ pc' = [pc EXCEPT ![c] = "reading"]
      /\ UNCHANGED <<row, lastEtag, wire, write, reply, result, applied>>
      /\ Remember /\ RowStep
  BY DEF Invoke, RowStep
<1>3. a \in ArgumentRecords
  BY ArgumentsTyped
<1>4. LegalArguments(a)
  <2>1. 0 \notin Times
    BY JournalAssumption
  <2> QED
    BY <2>1 DEF Arguments, LegalArguments, Operations
<1>5. row' \in Records /\ RowOK' /\ ExecutorOK'
  BY <1>2, RowStepKeeps
<1>6. TypeOK'
  <2>1. held' \in [Calls -> SUBSET Records] /\ executor' \in Aliases
    BY <1>2, <1>5, HistoryTyped
  <2> QED  BY <1>1, <1>2, <1>3, <1>5, <2>1 DEF TypeOK
<1>7. /\ pc'[c] = "reading" /\ args'[c] = a
      /\ \A d \in Calls \ {c} : pc'[d] = pc[d] /\ args'[d] = args[d]
  BY <1>1, <1>2 DEF TypeOK
<1>8. CallOK' /\ WireOK' /\ ReplyOK'
  BY <1>2, <1>4, <1>7 DEF CallOK, LegalIntent, WireOK, ReplyOK
<1>9. result[c].kind = "none" /\ reply[c].says = "none"
  BY <1>2 DEF GrantsOK, ReplyOK
<1>10. ASSUME NEW d \in Granted'
       PROVE  d \in Granted /\ GrantOf(d)' = GrantOf(d) /\ args'[d] = args[d]
  BY <1>2, <1>7, <1>9 DEF Granted, Promised, GrantOf
<1>11. \A d \in Calls : result'[d].kind # "none" => pc'[d] = "done"
  BY <1>2, <1>7, <1>9 DEF GrantsOK
<1>12. GrantsOK' /\ OneGrantPerLife'
  BY <1>2, <1>10, <1>11, GrantsStay
<1> QED
  BY <1>5, <1>6, <1>8, <1>12

-----------------------------------------------------------------------------
\* Theorems.  All assume that the service tells the ETag of a row it inserts:
\* without it they are false (see AfterUnnamedCreate).

LEMMA InitIInv == Init => IInv
<1> SUFFICES ASSUME Init PROVE IInv
  OBVIOUS
<1>1. NoWrite \in Writes
  BY NoRecordTyped DEF NoWrite, Writes
<1>2. /\ NoResult \in Results /\ NoResult.kind = "none"
      /\ NoReply \in Replies /\ NoReply.says = "none"
  BY NoRecordTyped DEF NoResult, Results, NoReply, Replies
<1>3. NoArgs \in ArgumentRecords
  BY DEF NoArgs, ArgumentRecords, Aliases, Choices, Reasons
<1>4. TypeOK
  BY <1>1, <1>2, <1>3, NoRecordTyped DEF Init, TypeOK, Aliases
<1>5. NoRecord.state = "absent" /\ NoRecord.etag = 0 /\ NoRecord.born = 0
  BY DEF NoRecord
<1>6. RowOK
  BY <1>5 DEF Init, RowOK, JournalWritesReadable
<1>7. WireOK
  BY DEF Init, WireOK
<1>8. CallOK
  BY DEF Init, CallOK
<1>9. ReplyOK /\ GrantsOK /\ OneGrantPerLife
  BY <1>2 DEF Init, ReplyOK, GrantsOK, OneGrantPerLife, Granted, Promised
<1>10. ExecutorOK
  BY <1>5 DEF Init, ExecutorOK
<1> QED
  BY <1>4, <1>6, <1>7, <1>8, <1>9, <1>10 DEF IInv

LEMMA DamageIs ==
  ASSUME TypeOK, Damage
  PROVE  RowStep /\ QuietStep /\ Remember
<1>1. RowStep
  BY DEF Damage, RowStep
<1>2. QuietStep
  BY DEF Damage, QuietStep, TypeOK
<1> QED  BY <1>1, <1>2 DEF Damage

LEMMA StutterKeeps ==
  ASSUME IInv, UNCHANGED vars
  PROVE  IInv'
<1> USE DEF vars
<1>1. TypeOK' /\ RowOK' /\ ExecutorOK' /\ WireOK'
  BY DEF IInv, TypeOK, RowOK, ExecutorOK, WireOK, JournalWritesReadable
<1>2. CallOK' /\ ReplyOK'
  BY DEF IInv, CallOK, ReplyOK, LegalIntent
<1>3. GrantsOK' /\ OneGrantPerLife'
  BY DEF IInv, GrantsOK, OneGrantPerLife, Granted, Promised, GrantOf
<1> QED  BY <1>1, <1>2, <1>3 DEF IInv

LEMMA NextIInv ==
  ASSUME CreateReturnsEtag, IInv, [Next]_vars
  PROVE  IInv'
<1>1. ASSUME NEW c \in Calls, Invoke(c)
      PROVE  IInv'
  BY <1>1, InvokeKeeps
<1>2. ASSUME NEW c \in Calls, Continue(c)
      PROVE  IInv'
  BY <1>2, ContinueIs, CallStepKeeps DEF IInv
<1>3. ASSUME NEW w \in wire, Land(w)
      PROVE  IInv'
  BY <1>3, LandIs, QuietKeeps DEF IInv
<1>4. ASSUME Damage
      PROVE  IInv'
  BY <1>4, DamageIs, QuietKeeps DEF IInv
<1>5. ASSUME UNCHANGED vars
      PROVE  IInv'
  BY <1>5, StutterKeeps
<1> QED
  BY <1>1, <1>2, <1>3, <1>4, <1>5 DEF Next

\* The inductive invariant holds throughout every run of the journal.
THEOREM JournalInvariant ==
  ASSUME CreateReturnsEtag
  PROVE  Spec => []IInv
<1>1. IInv /\ [Next]_vars => IInv'
  BY NextIInv
<1> QED
  BY InitIInv, <1>1, PTL DEF Spec

\* Every variable of the journal keeps its type: no sequence of calls, lost
\* replies and late writes stores a field outside its range.
THEOREM JournalTyped ==
  ASSUME CreateReturnsEtag
  PROVE  Spec => []TypeOK
<1>1. IInv => TypeOK
  BY DEF IInv
<1> QED
  BY JournalInvariant, <1>1, PTL

\* What the journal stores, the journal can read: parseStored refuses no row
\* that only acquireDispatch and the four transitions have written.
THEOREM JournalReadsItsWrites ==
  ASSUME CreateReturnsEtag
  PROVE  Spec => []JournalWritesReadable
<1>1. IInv => JournalWritesReadable
  BY DEF IInv, RowOK
<1> QED
  BY JournalInvariant, <1>1, PTL

\* Within one life of the row, from its insert to its retirement, all calls of
\* acquireDispatch that are told to dispatch have the same lease owner.
THEOREM OneOwner ==
  ASSUME CreateReturnsEtag
  PROVE  Spec => []OneOwnerPerLife
<1>1. IInv => OneOwnerPerLife
  BY DEF IInv, OneGrantPerLife, OneOwnerPerLife, Dispatched, Granted, GrantOf
<1> QED
  BY JournalInvariant, <1>1, PTL

-----------------------------------------------------------------------------
\* Conflicts.  A call is told of one only after the service refused its write,
\* so what remains to show is that this write was not applied before: a request
\* lands once, and a caller that lost the reply does not hear of it again.  None
\* of this needs the inserts to tell their ETag.

Labels == {"idle", "reading", "writing", "rechecking", "conflicted", "unnamed", "done"}

\* The last write of the call was refused, as far as it knows or will be told.
Refused(c) ==
  \/ pc[c] = "conflicted" \/ reply[c].says = "refused"
  \/ result[c].reason = "conditional-conflict"

ConflictInv ==
  /\ \A w \in wire : w.call \in Calls
  /\ pc \in [Calls -> Labels]
  /\ write = [c \in Calls |-> write[c]] /\ result = [c \in Calls |-> result[c]]
  /\ reply = [c \in Calls |-> reply[c]]
  /\ \A c \in Calls :
       /\ c \in applied /\ pc[c] = "writing" => Request(c) \notin wire
       /\ Refused(c) => c \notin applied /\ Request(c) \notin wire
       /\ result[c].reason = "conditional-conflict" => pc[c] = "done"
       /\ reply[c].says \in {"none", "stored", "refused"}
       /\ reply[c].says # "none" => pc[c] = "writing"
       /\ write[c].retries = 0

\* Of a call that sends or returns: what it says of conflicts, it has heard.
Speaks(c) ==
  \/ \E kind, intent, base, body : Send(c, kind, intent, base, body)
  \/ \E kind, reason, r :
       /\ Return(c, kind, reason, r)
       /\ reason = "conditional-conflict" => pc[c] = "conflicted"

\* Of a call that goes to read the row: to "conflicted" only with its request refused.
Moves(c) ==
  /\ pc[c] = "writing" /\ reply' = [reply EXCEPT ![c] = NoReply]
  /\ UNCHANGED <<wire, write, result, applied>>
  /\ \/ \E label \in {"rechecking", "unnamed"} : pc' = [pc EXCEPT ![c] = label]
     \/ pc' = [pc EXCEPT ![c] = "conflicted"] /\ reply[c].says = "refused"

LEMMA SpeaksKeeps ==
  ASSUME ConflictInv, NEW c \in Calls, pc[c] # "done", Speaks(c)
  PROVE  ConflictInv'
<1>0. NoReply.says = "none"
  BY DEF NoReply
<1>1. ASSUME NEW kind, NEW intent, NEW base, NEW body, Send(c, kind, intent, base, body)
      PROVE  ConflictInv'
  <2>1. \A d \in Calls \ {c} : /\ Request(d)' = Request(d) /\ pc'[d] = pc[d] /\ result'[d] = result[d]
                              /\ write'[d] = write[d] /\ reply'[d] = reply[d]
    BY <1>1 DEF Send, Request, ConflictInv
  <2>2. /\ c \notin applied' /\ pc'[c] = "writing" /\ result'[c].reason # "conditional-conflict"
        /\ write'[c].retries = 0 /\ reply'[c].says = "none"
    BY <1>0, <1>1 DEF Send, ConflictInv
  <2>3. \A w \in wire' : w.call \in Calls
    BY <1>1 DEF Send, ConflictInv
  <2>4. /\ pc' \in [Calls -> Labels]
        /\ write' = [d \in Calls |-> write'[d]] /\ result' = [d \in Calls |-> result'[d]]
        /\ reply' = [d \in Calls |-> reply'[d]]
    BY <1>1 DEF Send, ConflictInv, Labels
  <2>5. ASSUME NEW d \in Calls \ {c}, Request(d) \notin wire
        PROVE  Request(d)' \notin wire'
    <3>1. Request(d) # [call |-> c, kind |-> kind, base |-> base, body |-> body]
      BY DEF Request
    <3> QED  BY <1>1, <2>1, <2>5, <3>1 DEF Send
  <2>6. ASSUME NEW d \in Calls \ {c}
        PROVE  /\ d \in applied' /\ pc'[d] = "writing" => Request(d)' \notin wire'
               /\ Refused(d)' => d \notin applied' /\ Request(d)' \notin wire'
               /\ result'[d].reason = "conditional-conflict" => pc'[d] = "done"
               /\ reply'[d].says \in {"none", "stored", "refused"}
               /\ reply'[d].says # "none" => pc'[d] = "writing"
               /\ write'[d].retries = 0
    <3>1. Refused(d)' => Refused(d)
      BY <2>1 DEF Refused
    <3>2. d \in applied' => d \in applied
      BY <1>1 DEF Send
    <3> QED  BY <2>1, <2>5, <3>1, <3>2 DEF ConflictInv
  <2>7. ~Refused(c)'
    BY <2>2 DEF Refused
  <2> QED  BY <2>2, <2>3, <2>4, <2>6, <2>7 DEF ConflictInv
<1>2. ASSUME NEW kind, NEW reason, NEW r, Return(c, kind, reason, r),
             reason = "conditional-conflict" => pc[c] = "conflicted"
      PROVE  ConflictInv'
  <2>1. \A d \in Calls : Request(d)' = Request(d)
    BY <1>2 DEF Return, Request
  <2>2. \A d \in Calls \ {c} : pc'[d] = pc[d] /\ result'[d] = result[d] /\ reply'[d] = reply[d]
    BY <1>2 DEF Return, ConflictInv
  <2>3. /\ pc'[c] = "done" /\ reply'[c].says = "none"
        /\ result'[c].reason = "conditional-conflict" => Refused(c)
    BY <1>0, <1>2 DEF Return, ConflictInv, Refused
  <2>4. /\ pc' \in [Calls -> Labels] /\ \A w \in wire' : w.call \in Calls
        /\ write' = [d \in Calls |-> write'[d]] /\ result' = [d \in Calls |-> result'[d]]
        /\ reply' = [d \in Calls |-> reply'[d]]
    BY <1>2 DEF Return, ConflictInv, Labels
  <2>5. \A d \in Calls : Refused(d)' => Refused(d)
    BY <2>2, <2>3 DEF Refused
  <2> QED  BY <1>2, <2>1, <2>2, <2>3, <2>4, <2>5 DEF Return, ConflictInv
<1> QED  BY <1>1, <1>2 DEF Speaks

LEMMA MovesKeeps ==
  ASSUME ConflictInv, NEW c \in Calls, Moves(c)
  PROVE  ConflictInv'
<1>0. NoReply.says = "none"
  BY DEF NoReply
<1>1. \A d \in Calls : Request(d)' = Request(d) /\ result'[d] = result[d]
  BY DEF Moves, Request
<1>2. /\ \A d \in Calls \ {c} : pc'[d] = pc[d] /\ reply'[d] = reply[d]
      /\ reply'[c].says = "none" /\ reply' = [d \in Calls |-> reply'[d]]
  BY <1>0 DEF Moves, ConflictInv
<1>3. pc'[c] \in {"rechecking", "unnamed", "conflicted"} /\ pc' \in [Calls -> Labels]
  BY DEF Moves, ConflictInv, Labels
<1>4. pc'[c] = "conflicted" => Refused(c)
  BY DEF Moves, ConflictInv, Refused
<1>5. result'[c].reason # "conditional-conflict"
  BY DEF Moves, ConflictInv
<1>6. \A d \in Calls : Refused(d)' => Refused(d)
  BY <1>1, <1>2, <1>4, <1>5 DEF Refused
<1> QED  BY <1>1, <1>2, <1>3, <1>5, <1>6 DEF Moves, ConflictInv

LEMMA SendSpeaks ==
  ASSUME NEW c, NEW kind, NEW intent, NEW base, NEW body,
         Send(c, kind, intent, base, body)
  PROVE  Speaks(c)
BY DEF Speaks

LEMMA ReturnSpeaks ==
  ASSUME NEW c, NEW kind, NEW reason, NEW r, Return(c, kind, reason, r),
         reason = "conditional-conflict" => pc[c] = "conflicted"
  PROVE  Speaks(c)
BY DEF Speaks

LEMMA QuietReturnSpeaks ==
  ASSUME NEW c, NEW kind, NEW r, Return(c, kind, "", r)
  PROVE  Speaks(c)
<1>1. "" # "conditional-conflict"
  OBVIOUS
<1> QED  BY <1>1, ReturnSpeaks

\* What an existing record makes a claim say, it says without a conflict.
LEMMA ClaimSpeaks ==
  ASSUME NEW c, NEW r, ClaimExisting(c, r)
  PROVE  Speaks(c)
<1>1. ASSUME NEW reason \in {"terminal-tombstone", "requires-reconciliation", "owned-by-another"},
             Refuse(c, reason, r)
      PROVE  Speaks(c)
  BY <1>1 DEF Refuse, Speaks
<1>2. CASE Return(c, "dispatch", "", r)
  BY <1>2, QuietReturnSpeaks
<1>3. ASSUME NEW intent, NEW body, Send(c, "replace", intent, r, body)
      PROVE  Speaks(c)
  BY <1>3, SendSpeaks
<1> QED  BY <1>1, <1>2, <1>3 DEF ClaimExisting, StartExecuting

LEMMA RecordedSpeaks ==
  ASSUME NEW c, NEW r, Recorded(c, r)
  PROVE  Speaks(c)
<1>1. ASSUME NEW kind, NEW reason \in {"", "requires-reconciliation"}, Return(c, kind, reason, r)
      PROVE  Speaks(c)
  BY <1>1 DEF Speaks
<1>2. CASE StartExecuting(c, r)
  BY <1>2, SendSpeaks DEF StartExecuting
<1> QED  BY <1>1, <1>2 DEF Recorded

\* A call's own step: it speaks, or gives up waiting.
LEMMA ContinueSpeaks ==
  ASSUME ConflictInv, NEW c \in Calls, Continue(c)
  PROVE  pc[c] # "done" /\ (Speaks(c) \/ Moves(c))
<1>0. ASSUME NEW reason, NEW r, Refuse(c, reason, r),
             reason = "conditional-conflict" => pc[c] = "conflicted"
      PROVE  Speaks(c)
  BY <1>0, ReturnSpeaks DEF Refuse
<1>1. ASSUME Corrupt(c) PROVE Speaks(c)
  BY <1>1, QuietReturnSpeaks DEF Corrupt
<1>2. ASSUME NEW kind, NEW intent, NEW base, NEW body, Send(c, kind, intent, base, body)
      PROVE  Speaks(c)
  BY <1>2 DEF Speaks
<1>3. CASE FirstRead(c)
  <2>1. ASSUME ApplyTo(c, row) PROVE Speaks(c)
    BY <1>0, <1>2, <2>1, ClaimSpeaks DEF ApplyTo
  <2> QED  BY <1>0, <1>1, <1>2, <1>3, <2>1 DEF FirstRead
<1>4. CASE GiveUp(c)
  BY <1>4 DEF GiveUp, MaxRetries, Moves, ConflictInv
<1>5. CASE Recheck(c)
  <2>1. ASSUME Unconfirmed(c) PROVE Speaks(c)
    BY <1>0, <2>1 DEF Unconfirmed
  <2>2. ASSUME NEW r, StartExecuting(c, r) PROVE Speaks(c)
    BY <2>2, <1>2 DEF StartExecuting
  <2>3. ASSUME Return(c, "recorded", "", write[c].base) PROVE Speaks(c)
    BY <2>3, QuietReturnSpeaks
  <2> QED  BY <1>0, <1>1, <1>5, <2>1, <2>2, <2>3, RecordedSpeaks DEF Recheck
<1>6. CASE AfterConflict(c)
  <2>1. ASSUME Unconfirmed(c) PROVE Speaks(c)
    BY <1>0, <2>1 DEF Unconfirmed
  <2> QED  BY <1>0, <1>1, <1>6, <2>1, ClaimSpeaks DEF AfterConflict
<1>7. CASE AfterUnnamedCreate(c)
  BY <1>0, <1>1, <1>2, <1>7 DEF AfterUnnamedCreate, StartExecuting
<1>8. CASE Hear(c)
  <2>1. ASSUME StartExecuting(c, reply[c].record) PROVE Speaks(c)
    BY <2>1, SendSpeaks DEF StartExecuting
  <2>2. ASSUME Return(c, "recorded", "", write[c].base) PROVE Speaks(c)
    BY <2>2, QuietReturnSpeaks
  <2>3. reply[c].says # "stored" => reply[c].says = "refused"
    BY <1>8 DEF Hear, ConflictInv
  <2>4. ASSUME NEW label \in {"unnamed", "conflicted"}, pc' = [pc EXCEPT ![c] = label],
               label = "conflicted" => reply[c].says = "refused",
               reply' = [reply EXCEPT ![c] = NoReply],
               UNCHANGED <<wire, write, result, applied>>
        PROVE  Moves(c)
    BY <1>8, <2>4 DEF Hear, Moves
  <2> QED  BY <1>8, <2>1, <2>2, <2>3, <2>4, RecordedSpeaks DEF Hear
<1> QED  BY <1>3, <1>4, <1>5, <1>6, <1>7, <1>8 DEF Continue

\* A request that lands is gone, and leaves no other reply than its own.
LEMMA LandKeeps ==
  ASSUME ConflictInv, NEW w \in wire, Land(w)
  PROVE  ConflictInv'
<1> DEFINE c == w.call
<1>1. /\ UNCHANGED <<pc, write, result>> /\ wire' = wire \ {w} /\ c \in Calls
      /\ \A d \in Calls : Request(d)' = Request(d)
  BY DEF Land, Request, ConflictInv
<1>2. \A d \in Calls : d \in applied' => d \in applied \/ (w = Request(d) /\ Applies(w))
  BY DEF Land
<1>3. /\ \A d \in Calls : d # c => reply'[d] = reply[d]
      /\ reply' = [d \in Calls |-> reply'[d]]
      /\ \/ reply'[c] = reply[c]
         \/ pc[c] = "writing" /\ w = Request(c) /\ reply'[c] = ReplyTo(w)
  BY DEF Land, ConflictInv
<1>4. ReplyTo(w).says = IF Applies(w) THEN "stored" ELSE "refused"
  BY DEF ReplyTo
<1>5. ASSUME NEW d \in Calls
      PROVE  /\ d \in applied' /\ pc'[d] = "writing" => Request(d) \notin wire'
             /\ Refused(d)' => d \notin applied' /\ Request(d) \notin wire'
             /\ reply'[d].says \in {"none", "stored", "refused"}
             /\ reply'[d].says # "none" => pc'[d] = "writing"
  <2>1. d \in applied' /\ pc'[d] = "writing" => Request(d) \notin wire'
    BY <1>1, <1>2 DEF ConflictInv
  <2>2. /\ reply'[d].says \in {"none", "stored", "refused"}
        /\ reply'[d].says # "none" => pc'[d] = "writing"
    BY <1>1, <1>3, <1>4 DEF ConflictInv
  <2>3. ASSUME Refused(d)'
        PROVE  d \notin applied' /\ Request(d) \notin wire'
    <3>1. CASE Refused(d)
      BY <1>1, <1>2, <3>1 DEF ConflictInv
    <3>2. CASE ~Refused(d)
      <4>1. d = c /\ pc[c] = "writing" /\ w = Request(c) /\ ~Applies(w)
        BY <1>1, <1>3, <1>4, <2>3, <3>2 DEF Refused
      <4>2. c \notin applied
        BY <1>1, <4>1 DEF ConflictInv
      <4> QED  BY <1>1, <1>2, <4>1, <4>2
    <3> QED  BY <3>1, <3>2
  <2> QED  BY <2>1, <2>2, <2>3
<1> QED  BY <1>1, <1>3, <1>5 DEF ConflictInv

\* The write whose refusal is reported as a "conditional-conflict" was not
\* applied and never will be: somebody else's write came first.
THEOREM ConflictsAreReal == Spec => []ConflictMeansNotApplied
<1>1. Init => ConflictInv
  <2>1. /\ NoResult.reason # "conditional-conflict" /\ NoWrite.retries = 0
        /\ NoReply.says = "none"
    BY DEF NoResult, NoWrite, NoReply
  <2> QED  BY <2>1 DEF Init, ConflictInv, Refused, Labels
<1>2. ASSUME ConflictInv, [Next]_vars PROVE ConflictInv'
  <2>1. ASSUME UNCHANGED <<wire, pc, write, reply, result, applied>> PROVE ConflictInv'
    BY <1>2, <2>1 DEF ConflictInv, Refused, Request
  <2>2. CASE UNCHANGED vars \/ Damage
    BY <2>1, <2>2 DEF vars, Damage
  <2>3. ASSUME NEW c \in Calls, Invoke(c) PROVE ConflictInv'
    <3>1. \A d \in Calls : Request(d)' = Request(d)
      BY <2>3 DEF Invoke, Request
    <3>2. \A d \in Calls : Refused(d)' => Refused(d)
      BY <1>2, <2>3 DEF Invoke, Refused, ConflictInv
    <3> QED  BY <1>2, <2>3, <3>1, <3>2 DEF Invoke, ConflictInv, Labels
  <2>4. ASSUME NEW c \in Calls, Continue(c) PROVE ConflictInv'
    BY <1>2, <2>4, ContinueSpeaks, SpeaksKeeps, MovesKeeps
  <2>5. ASSUME NEW w \in wire, Land(w) PROVE ConflictInv'
    BY <1>2, <2>5, LandKeeps
  <2> QED  BY <1>2, <2>2, <2>3, <2>4, <2>5 DEF Next
<1>3. ConflictInv /\ [Next]_vars => ConflictInv'
  BY <1>2
<1>4. ConflictInv => ConflictMeansNotApplied
  BY DEF ConflictInv, Refused, ConflictMeansNotApplied
<1> QED  BY <1>1, <1>3, <1>4, PTL DEF Spec

-----------------------------------------------------------------------------
\* Answers.  What a call reports, it was shown: by a read, which shows the row as it
\* is, or by the reply to its own write, which tells of the row as the write left it.

\* What an answer of this kind says of the record r that it reports.
Proved(c, kind, r) ==
  /\ kind = "dispatch" =>
       /\ r \in held[c] /\ r.state = "executing" /\ r.owner = args[c].owner
       /\ r.expires > args[c].now
  /\ kind = "recorded" =>
       IF args[c].op = "retireTerminal" THEN NoRecord \in held[c]
       ELSE r \in held[c] /\ Asked(args[c], r)

\* What a write of a call says of its operation and its lease.
LegalAnswer(c, kind, intent, body) ==
  /\ kind = "delete" => args[c].op = "retireTerminal"
  /\ kind = "replace" => args[c].op # "retireTerminal"
  /\ intent = "start" => body.expires > args[c].now
  /\ kind = "replace" /\ intent \notin {"takeover", "start", "expire"} => Asked(args[c], body)

\* A running call is shown the row as it is, and what its replies tell of.
ShownOK ==
  \A c \in Calls :
    /\ pc[c] \notin {"idle", "done"} => row \in held[c]
    /\ reply[c].says = "stored" =>
         IF write[c].kind = "delete" THEN NoRecord \in held[c] ELSE reply[c].record \in held[c]

AnswerInv ==
  /\ row.state = "absent" => row = NoRecord
  /\ \A c \in Calls :
       /\ pc[c] # "idle" /\ args[c].op = "acquireDispatch" => args[c].lease # 0
       /\ pc[c] \in {"writing", "rechecking", "conflicted"} =>
            LegalAnswer(c, write[c].kind, write[c].intent, write[c].body)
  /\ ShownOK

Answers(c) ==
  \/ \E kind, intent, base, body :
       Send(c, kind, intent, base, body) /\ LegalAnswer(c, kind, intent, body)
  \/ \E kind, reason, r : Return(c, kind, reason, r) /\ Proved(c, kind, r)

\* A step in which a call is answered proves the answer.
Reported ==
  \A c \in Calls :
    result[c].kind = "none" => Proved(c, result'[c].kind, result'[c].record)

LEMMA SendAnswers ==
  ASSUME NEW c, NEW kind, NEW intent, NEW base, NEW body,
         Send(c, kind, intent, base, body), LegalAnswer(c, kind, intent, body)
  PROVE  Answers(c)
BY DEF Answers

LEMMA ReturnAnswers ==
  ASSUME NEW c, NEW kind, NEW reason, NEW r,
         Return(c, kind, reason, r), Proved(c, kind, r)
  PROVE  Answers(c)
BY DEF Answers

\* A refusal, or a corrupt row, promises nothing.
LEMMA RefusalAnswers ==
  ASSUME NEW c, NEW reason, NEW r, Refuse(c, reason, r) \/ Corrupt(c)
  PROVE  Answers(c)
<1>1. Proved(c, "refused", r) /\ Proved(c, "corrupt", NoRecord)
  BY DEF Proved
<1> QED  BY <1>1, ReturnAnswers DEF Refuse, Corrupt

\* A lease that starts runs beyond the clock of the call that starts it.
LEMMA StartAnswers ==
  ASSUME TypeOK, AnswerInv, NEW c \in Calls, pc[c] # "idle",
         args[c].op = "acquireDispatch", NEW r, StartExecuting(c, r)
  PROVE  Answers(c)
<1>1. args[c].now \in Nat /\ args[c].lease \in Nat /\ args[c].lease # 0
  BY DEF TypeOK, ArgumentRecords, AnswerInv
<1>2. Executing(r, args[c]).expires > args[c].now
  BY <1>1 DEF Executing, Successor
<1>3. LegalAnswer(c, "replace", "start", Executing(r, args[c]))
  BY <1>2 DEF LegalAnswer
<1> QED  BY <1>3, SendAnswers DEF StartExecuting

LEMMA ClaimAnswers ==
  ASSUME TypeOK, AnswerInv, NEW c \in Calls, pc[c] # "idle",
         args[c].op = "acquireDispatch", NEW r, r \in held[c], ClaimExisting(c, r)
  PROVE  Answers(c)
<1>1. CASE \E reason \in {"terminal-tombstone", "requires-reconciliation", "owned-by-another"} :
             Refuse(c, reason, r)
  BY <1>1, RefusalAnswers
<1>2. CASE r.state = "executing" /\ Live(c, r) /\ Mine(c, r) /\ Return(c, "dispatch", "", r)
  <2>1. Proved(c, "dispatch", r)
    BY <1>2 DEF Proved, Live, Mine
  <2> QED  BY <1>2, <2>1, ReturnAnswers
<1>3. ASSUME NEW intent \in {"expire", "takeover"}, NEW body,
             Send(c, "replace", intent, r, body)
      PROVE  Answers(c)
  <2>1. LegalAnswer(c, "replace", intent, body)
    BY <1>3 DEF LegalAnswer
  <2> QED  BY <1>3, <2>1, SendAnswers
<1>4. CASE StartExecuting(c, r)
  BY <1>4, StartAnswers
<1> QED  BY <1>1, <1>2, <1>3, <1>4 DEF ClaimExisting

LEMMA RecordedAnswers ==
  ASSUME TypeOK, CallOK, AnswerInv, NEW c \in Calls, pc[c] \in {"writing", "rechecking"},
         write[c].kind = "replace", NEW r, r \in held[c], Bears(r, write[c].body),
         Recorded(c, r)
  PROVE  Answers(c)
<1>1. /\ LegalIntent(c, "replace", write[c].intent, write[c].body)
      /\ LegalAnswer(c, "replace", write[c].intent, write[c].body)
  BY DEF CallOK, AnswerInv
<1>2. CASE write[c].intent = "takeover" /\ StartExecuting(c, r)
  BY <1>1, <1>2, StartAnswers DEF LegalIntent
<1>3. CASE write[c].intent = "start" /\ Return(c, "dispatch", "", r)
  <2>1. Proved(c, "dispatch", r)
    BY <1>1, <1>3 DEF Proved, LegalIntent, LegalAnswer, Bears
  <2> QED  BY <1>3, <2>1, ReturnAnswers
<1>4. CASE Return(c, "refused", "requires-reconciliation", r)
  <2>1. Proved(c, "refused", r)
    BY DEF Proved
  <2> QED  BY <1>4, <2>1, ReturnAnswers
<1>5. CASE /\ write[c].intent \notin {"takeover", "start", "expire"}
           /\ Return(c, "recorded", "", r)
  <2>1. Asked(args[c], write[c].body) /\ args[c].op # "retireTerminal"
    BY <1>1, <1>5 DEF LegalAnswer
  <2>2. Asked(args[c], r)
    BY <2>1 DEF Asked, Bears
  <2>3. Proved(c, "recorded", r)
    BY <2>1, <2>2 DEF Proved
  <2> QED  BY <1>5, <2>3, ReturnAnswers
<1> QED  BY <1>2, <1>3, <1>4, <1>5 DEF Recorded

LEMMA ApplyAnswers ==
  ASSUME TypeOK, AnswerInv, NEW c \in Calls, pc[c] # "idle", NEW r, r \in held[c], ApplyTo(c, r)
  PROVE  Answers(c)
<1>1. CASE args[c].op = "acquireDispatch" /\ ClaimExisting(c, r)
  BY <1>1, ClaimAnswers
<1>2. CASE Refuse(c, "invalid-state", r)
  BY <1>2, RefusalAnswers
<1>3. ASSUME NEW intent \in {"terminal", "ambiguous", "resolve"}, NEW body,
             args[c].op # "retireTerminal", Asked(args[c], body),
             Send(c, "replace", intent, r, body)
      PROVE  Answers(c)
  <2>1. LegalAnswer(c, "replace", intent, body)
    BY <1>3 DEF LegalAnswer
  <2> QED  BY <1>3, <2>1, SendAnswers
<1>4. CASE args[c].op = "retireTerminal" /\ Send(c, "delete", "retire", r, NoRecord)
  <2>1. LegalAnswer(c, "delete", "retire", NoRecord)
    BY <1>4 DEF LegalAnswer
  <2> QED  BY <1>4, <2>1, SendAnswers
<1>5. \/ args[c].op = "acquireDispatch" /\ ClaimExisting(c, r)
      \/ Refuse(c, "invalid-state", r)
      \/ /\ args[c].op = "recordTerminal"
         /\ Send(c, "replace", "terminal", r, Terminal(r, args[c]))
      \/ /\ args[c].op = "recordAmbiguous"
         /\ Send(c, "replace", "ambiguous", r, Ambiguous(r, args[c].choice))
      \/ /\ args[c].op = "resolveAmbiguous"
         /\ Send(c, "replace", "resolve", r, Resolved(r, args[c]))
      \/ args[c].op = "retireTerminal" /\ Send(c, "delete", "retire", r, NoRecord)
  BY Zenon DEF ApplyTo
<1>6. /\ args[c].op = "recordTerminal" => Asked(args[c], Terminal(r, args[c]))
      /\ args[c].op = "recordAmbiguous" => Asked(args[c], Ambiguous(r, args[c].choice))
      /\ args[c].op = "resolveAmbiguous" => Asked(args[c], Resolved(r, args[c]))
  BY DEF Asked, Terminal, Ambiguous, Resolved, Successor
<1> QED  BY <1>1, <1>2, <1>3, <1>4, <1>5, <1>6

\* A call's own step leaves the row alone and answers from it.
LEMMA ContinueAnswers ==
  ASSUME CreateReturnsEtag, IInv, AnswerInv, NEW c \in Calls, Continue(c)
  PROVE  Answers(c) \/ LooksAgain(c)
<1> USE DEF IInv
<1>0. pc[c] \notin {"idle", "done"} => row \in held[c]
  BY DEF AnswerInv, ShownOK
<1>1. CASE FirstRead(c)
  <2>0. pc[c] = "reading" /\ row \in held[c]
    BY <1>0, <1>1 DEF FirstRead
  <2>1. CASE ApplyTo(c, row)
    BY <2>0, <2>1, ApplyAnswers
  <2>2. CASE /\ args[c].op = "acquireDispatch"
             /\ Send(c, "create", "create", NoRecord, NewEntity(args[c]))
    <3>1. LegalAnswer(c, "create", "create", NewEntity(args[c]))
      BY DEF LegalAnswer
    <3> QED  BY <2>2, <3>1, SendAnswers
  <2> QED  BY <1>1, <2>1, <2>2, RefusalAnswers DEF FirstRead
<1>2. CASE GiveUp(c)
  BY <1>2, GiveUpIs
<1>3. CASE Recheck(c)
  <2>0. /\ pc[c] = "rechecking"
        /\ LegalRequest(write[c].kind, write[c].base, write[c].body)
        /\ LegalIntent(c, write[c].kind, write[c].intent, write[c].body)
        /\ LegalAnswer(c, write[c].kind, write[c].intent, write[c].body)
        /\ row \in held[c]
    BY <1>0, <1>3 DEF Recheck, CallOK, AnswerInv
  <2>1. CASE write[c].kind = "create" /\ StartExecuting(c, row)
    BY <2>0, <2>1, StartAnswers DEF LegalIntent
  <2>2. CASE write[c].kind = "replace" /\ MatchesStored(row, write[c].body) /\ Recorded(c, row)
    BY <2>0, <2>2, RecordedAnswers DEF MatchesStored, Bears
  <2>3. CASE /\ write[c].kind = "delete" /\ Seen = "missing"
             /\ Return(c, "recorded", "", write[c].base)
    <3>1. row.state = "absent"
      BY <2>3, Zenon DEF Seen
    <3>2. Proved(c, "recorded", write[c].base)
      BY <2>0, <2>3, <3>1 DEF Proved, LegalAnswer, AnswerInv
    <3> QED  BY <2>3, <3>2, ReturnAnswers
  <2>4. CASE Unconfirmed(c)
    BY <2>4, RefusalAnswers DEF Unconfirmed
  <2> QED  BY <1>3, <2>1, <2>2, <2>3, <2>4, RefusalAnswers DEF Recheck
<1>4. CASE AfterConflict(c)
  <2>0. /\ pc[c] = "conflicted"
        /\ LegalIntent(c, write[c].kind, write[c].intent, write[c].body)
        /\ row \in held[c]
    BY <1>0, <1>4 DEF AfterConflict, CallOK
  <2>1. CASE write[c].kind = "create" /\ ClaimExisting(c, row)
    BY <2>0, <2>1, ClaimAnswers DEF LegalIntent
  <2>2. CASE Unconfirmed(c)
    BY <2>2, RefusalAnswers DEF Unconfirmed
  <2> QED  BY <1>4, <2>1, <2>2, RefusalAnswers DEF AfterConflict
<1>5. CASE AfterUnnamedCreate(c)
  BY <1>5 DEF AfterUnnamedCreate, CallOK
<1>6. CASE Hear(c)
  <2>0. /\ pc[c] = "writing"
        /\ LegalRequest(write[c].kind, write[c].base, write[c].body)
        /\ LegalIntent(c, write[c].kind, write[c].intent, write[c].body)
        /\ LegalAnswer(c, write[c].kind, write[c].intent, write[c].body)
    BY <1>6 DEF Hear, CallOK, AnswerInv
  <2>1. CASE write[c].kind = "create" /\ StartExecuting(c, reply[c].record)
    BY <2>0, <2>1, StartAnswers DEF LegalIntent
  <2>2. CASE /\ reply[c].says = "stored" /\ write[c].kind = "replace"
             /\ Recorded(c, reply[c].record)
    <3>1. reply[c].record \in held[c] /\ Bears(reply[c].record, write[c].body)
      BY <2>2 DEF AnswerInv, ShownOK, ReplyOK
    <3> QED  BY <2>0, <2>2, <3>1, RecordedAnswers
  <2>3. CASE /\ reply[c].says = "stored" /\ write[c].kind = "delete"
             /\ Return(c, "recorded", "", write[c].base)
    <3>1. Proved(c, "recorded", write[c].base)
      BY <2>0, <2>3 DEF Proved, LegalAnswer, AnswerInv, ShownOK
    <3>2. Return(c, "recorded", "", write[c].base)
      BY <2>3
    <3> QED  BY <3>1, <3>2, ReturnAnswers
  <2>4. CASE /\ pc' = [pc EXCEPT ![c] = "conflicted"]
             /\ reply' = [reply EXCEPT ![c] = NoReply]
             /\ UNCHANGED <<wire, write, result, applied>>
    BY <2>0, <2>4 DEF LooksAgain
  <2> QED  BY <1>6, <2>1, <2>2, <2>3, <2>4 DEF Hear
<1> QED  BY <1>1, <1>2, <1>3, <1>4, <1>5, <1>6 DEF Continue

\* The row is as the journal leaves an absent one, whatever a step does to it.
LEMMA AbsentKeeps ==
  ASSUME IInv, AnswerInv, RowStep
  PROVE  row'.state = "absent" => row' = NoRecord
<1> USE DEF IInv
<1>1. CASE UNCHANGED <<row, lastEtag>>
  BY <1>1 DEF AnswerInv
<1>2. ASSUME NEW w \in wire, Applies(w), row' = Stored(w)
      PROVE  row'.state = "absent" => row' = NoRecord
  <2>1. CASE w.kind = "delete"
    BY <1>2, <2>1 DEF Stored
  <2>2. CASE w.kind # "delete"
    <3>1. w \in Requests /\ WellFormed(w.body)
      BY <2>2 DEF TypeOK, WireOK, LegalRequest, LegalMove
    <3>2. WellFormed(row')
      BY <1>2, <2>2, <3>1, StoredIs
    <3> QED  BY <3>2 DEF WellFormed, TerminalStates
  <2> QED  BY <2>1, <2>2
<1>3. CASE row' = Damaged(row)
  BY <1>3 DEF Damaged
<1> QED  BY <1>1, <1>2, <1>3 DEF RowStep

\* The row that a running call is shown is among those it was held to be.
LEMMA HeldIs ==
  ASSUME TypeOK, Remember, NEW c \in Calls, pc'[c] \notin {"idle", "done"}
  PROVE  row' \in held'[c] /\ \A q \in held[c] : q \in held'[c]
BY DEF TypeOK, Remember

\* What a call was told by its replies it was shown.
LEMMA ShownKeeps ==
  ASSUME IInv, ShownOK, Remember,
         \A d \in Calls : reply'[d].says = "stored" => pc'[d] \notin {"idle", "done"},
         \A d \in Calls : reply'[d].says = "stored" =>
           reply'[d] = reply[d] /\ write'[d] = write[d]
  PROVE  ShownOK'
<1>1. ASSUME NEW d \in Calls, pc'[d] \notin {"idle", "done"}
      PROVE  row' \in held'[d]
  BY <1>1, HeldIs DEF IInv
<1>2. ASSUME NEW d \in Calls, reply'[d].says = "stored"
      PROVE  IF write'[d].kind = "delete" THEN NoRecord \in held'[d]
             ELSE reply'[d].record \in held'[d]
  BY <1>2, HeldIs DEF IInv, ShownOK
<1> QED  BY <1>1, <1>2 DEF ShownOK

LEMMA SilenceReports == UNCHANGED result => Reported
BY DEF Reported, Proved

\* What the call c sends, reports or reads next keeps the answers proved.
LEMMA AnswersKeep ==
  ASSUME IInv, AnswerInv, NEW c \in Calls, CallStep(c), Answers(c) \/ LooksAgain(c)
  PROVE  AnswerInv' /\ Reported
<1> USE DEF IInv
<1>0. UNCHANGED <<row, args>> /\ Remember /\ pc[c] # "idle"
  BY DEF CallStep
<1>1. row'.state = "absent" => row' = NoRecord
  BY <1>0 DEF AnswerInv
<1>2. NoReply.says = "none" /\ ShownOK
  BY DEF NoReply, AnswerInv
<1>3. ASSUME NEW kind, NEW intent, NEW base, NEW body,
             Send(c, kind, intent, base, body), LegalAnswer(c, kind, intent, body)
      PROVE  AnswerInv' /\ Reported
  <2>1. /\ \A d \in Calls \ {c} : pc'[d] = pc[d] /\ write'[d] = write[d] /\ reply'[d] = reply[d]
        /\ pc'[c] = "writing" /\ write'[c].kind = kind /\ reply'[c] = NoReply
        /\ write'[c].intent = intent /\ write'[c].body = body /\ result' = result
    BY <1>3 DEF Send, TypeOK
  <2>2. ShownOK'
    BY <1>0, <1>2, <2>1, ShownKeeps DEF ReplyOK
  <2> QED  BY <1>0, <1>1, <1>3, <2>1, <2>2, SilenceReports DEF AnswerInv, LegalAnswer
<1>4. ASSUME NEW kind, NEW reason, NEW r,
             Return(c, kind, reason, r), Proved(c, kind, r)
      PROVE  AnswerInv' /\ Reported
  <2>1. /\ \A d \in Calls \ {c} : pc'[d] = pc[d] /\ result'[d] = result[d] /\ reply'[d] = reply[d]
        /\ pc'[c] = "done" /\ write' = write /\ reply'[c] = NoReply
        /\ result'[c].kind = kind /\ result'[c].record = r
    BY <1>4 DEF Return, TypeOK
  <2>2. ShownOK'
    BY <1>0, <1>2, <2>1, ShownKeeps DEF ReplyOK
  <2>3. AnswerInv'
    BY <1>0, <1>1, <2>1, <2>2 DEF AnswerInv, LegalAnswer
  <2>4. Reported
    BY <1>4, <2>1 DEF Reported, Proved
  <2> QED  BY <2>3, <2>4
<1>5. ASSUME LooksAgain(c)
      PROVE  AnswerInv' /\ Reported
  <2>1. write' = write /\ result' = result
    BY <1>5 DEF LooksAgain
  <2>2. /\ \A d \in Calls : \/ pc'[d] = pc[d]
                            \/ pc[d] = "writing" /\ pc'[d] \in {"rechecking", "conflicted"}
        /\ \A d \in Calls : reply'[d] = reply[d] \/ reply'[d] = NoReply
    BY <1>5 DEF LooksAgain, TypeOK
  <2>3. ShownOK'
    BY <1>0, <1>2, <2>1, <2>2, ShownKeeps DEF ReplyOK
  <2> QED  BY <1>0, <1>1, <2>1, <2>2, <2>3, SilenceReports DEF AnswerInv, LegalAnswer
<1> QED  BY <1>3, <1>4, <1>5 DEF Answers

\* The reply that is put on its way tells of the row as it is then.
LEMMA QuietShows ==
  ASSUME IInv, AnswerInv, RowStep, QuietStep, Remember
  PROVE  AnswerInv' /\ Reported
<1> USE DEF IInv
<1>1. row'.state = "absent" => row' = NoRecord
  BY AbsentKeeps
<1>2. UNCHANGED <<pc, args, write, result>> /\ ShownOK
  BY DEF QuietStep, AnswerInv
<1>3. ASSUME UNCHANGED reply
      PROVE  ShownOK'
  BY <1>2, <1>3, ShownKeeps DEF ReplyOK
<1>4. ASSUME NEW w \in wire, pc[w.call] = "writing", w = Request(w.call),
             Applies(w) => row' = Stored(w),
             reply' = [reply EXCEPT ![w.call] = ReplyTo(w)]
      PROVE  ShownOK'
  <2> DEFINE c == w.call
  <2>1. c \in Calls /\ w.kind = write[c].kind /\ w \in Requests
    BY <1>4 DEF TypeOK, Requests, Request
  <2>2. reply'[c] = ReplyTo(w) /\ \A d \in Calls \ {c} : reply'[d] = reply[d]
    BY <1>4, <2>1 DEF TypeOK
  <2>3. /\ row' \in held'[c]
        /\ \A d \in Calls : pc'[d] \notin {"idle", "done"} => row' \in held'[d]
    BY <1>2, <1>4, <2>1, HeldIs
  <2>4. ReplyTo(w).says = "stored" =>
          /\ ReplyTo(w).record = row'
          /\ w.kind = "delete" => row' = NoRecord
    BY <1>4 DEF ReplyTo, Stored
  <2>5. ASSUME NEW d \in Calls \ {c}, reply'[d].says = "stored"
        PROVE  IF write'[d].kind = "delete" THEN NoRecord \in held'[d]
               ELSE reply'[d].record \in held'[d]
    <3>1. reply[d].says = "stored" /\ pc'[d] = "writing"
      BY <1>2, <2>2, <2>5 DEF ReplyOK
    <3> QED  BY <1>2, <2>2, <3>1, HeldIs DEF ShownOK
  <2>6. reply'[c].says = "stored" =>
          IF write'[c].kind = "delete" THEN NoRecord \in held'[c]
          ELSE reply'[c].record \in held'[c]
    BY <1>2, <2>1, <2>2, <2>3, <2>4
  <2> HIDE DEF c
  <2> QED  BY <2>3, <2>5, <2>6 DEF ShownOK
<1>5. ShownOK'
  BY <1>3, <1>4 DEF QuietStep
<1> QED  BY <1>1, <1>2, <1>5, SilenceReports DEF AnswerInv, LegalAnswer

LEMMA NextAnswers ==
  ASSUME CreateReturnsEtag, IInv, AnswerInv, [Next]_vars
  PROVE  AnswerInv' /\ Reported
<1> USE DEF IInv
<1>1. ASSUME NEW c \in Calls, Invoke(c)
      PROVE  AnswerInv' /\ Reported
  <2>1. PICK a \in Arguments(c) : args' = [args EXCEPT ![c] = a]
    BY <1>1 DEF Invoke
  <2>2. a.op = "acquireDispatch" => a.lease # 0
    <3>1. 0 \notin Leases
      BY JournalAssumption
    <3> QED  BY <3>1 DEF Arguments
  <2>3. /\ pc'[c] = "reading" /\ args'[c] = a /\ pc[c] = "idle"
        /\ \A d \in Calls \ {c} : pc'[d] = pc[d] /\ args'[d] = args[d]
        /\ UNCHANGED <<row, write, reply, result>> /\ Remember
    BY <1>1, <2>1 DEF Invoke, TypeOK
  <2>4. ShownOK'
    BY <2>3, ShownKeeps DEF AnswerInv, ReplyOK
  <2> QED  BY <2>2, <2>3, <2>4, SilenceReports DEF AnswerInv, LegalAnswer
<1>2. ASSUME NEW c \in Calls, Continue(c)
      PROVE  AnswerInv' /\ Reported
  BY <1>2, ContinueIs, ContinueAnswers, AnswersKeep
<1>3. ASSUME NEW w \in wire, Land(w)
      PROVE  AnswerInv' /\ Reported
  BY <1>3, LandIs, QuietShows
<1>4. CASE Damage
  BY <1>4, DamageIs, QuietShows
<1>5. ASSUME UNCHANGED vars
      PROVE  AnswerInv' /\ Reported
  BY <1>5, SilenceReports DEF vars, AnswerInv, ShownOK, LegalAnswer
<1> QED  BY <1>1, <1>2, <1>3, <1>4, <1>5 DEF Next

\* A call that reports a dispatch or a transition reports a version the row really
\* was at some moment of the call: executing for the caller with a lease that runs
\* on its clock, or in the state that was asked for; and a retirement is reported
\* only if the row was absent at some moment of the call.
THEOREM AnswersAreProved ==
  ASSUME CreateReturnsEtag
  PROVE  Spec => AnswersProvedByStore
<1>1. Init => AnswerInv
  <2>1. NoReply.says = "none"
    BY DEF NoReply
  <2> QED  BY <2>1 DEF Init, AnswerInv, ShownOK
<1>2. IInv /\ AnswerInv /\ [Next]_vars => AnswerInv'
  BY NextAnswers
<1>3. IInv /\ AnswerInv /\ [Next]_vars => Reported
  BY NextAnswers
<1>4. Reported =>
        \A c \in Calls :
          LET answer == result'[c] IN
          /\ answer.kind = "dispatch" /\ result[c].kind = "none" =>
               /\ answer.record \in held[c]
               /\ answer.record.state = "executing"
               /\ answer.record.owner = args[c].owner
               /\ answer.record.expires > args[c].now
          /\ answer.kind = "recorded" /\ result[c].kind = "none" =>
               IF args[c].op = "retireTerminal" THEN NoRecord \in held[c]
               ELSE answer.record \in held[c] /\ Asked(args[c], answer.record)
  BY DEF Reported, Proved
<1> QED  BY JournalInvariant, <1>1, <1>2, <1>3, <1>4, PTL DEF Spec, AnswersProvedByStore

-----------------------------------------------------------------------------
\* The ledger.  Every step of the journal is one step of DispatchLedger, or none.
\* What it does to the row decides which; a call that returns tells at most its own
\* owner, and then it is the one that the row executed for.

\* The owners told to dispatch in the life of the row that began with b.
Grants(answers, arguments, b) ==
  {arguments[c].owner :
     c \in {d \in Calls : answers[d].kind = "dispatch" /\ answers[d].record.born = b}}

LEMMA ToldIs ==
  /\ ToldOf(row) = IF row.state = "absent" THEN {} ELSE Grants(result, args, row.born)
  /\ ToldOf(row)' = IF row'.state = "absent" THEN {} ELSE Grants(result', args', row'.born)
BY DEF ToldOf, Grants, Dispatched

LEMMA PhaseIs ==
  ASSUME NEW r
  PROVE  /\ r.state = "prepared" => PhaseOf(r) = "claimed"
         /\ r.state = "executing" => PhaseOf(r) = "held"
         /\ r.state = "ambiguous" => PhaseOf(r) = "doubtful"
         /\ r.state \notin {"prepared", "executing", "ambiguous"} => PhaseOf(r) = r.state
BY Zenon DEF PhaseOf

\* Where the step leaves the holder of the row.
LEMMA HolderIs ==
  ASSUME Remember
  PROVE  /\ HolderOf(row)' = IF row'.state \in {"prepared", "executing"} THEN row'.owner
                             ELSE IF row'.state = "absent" THEN NoOwner ELSE executor
         /\ HolderOf(row) = IF row.state = "prepared" THEN row.owner ELSE executor
<1>1. /\ row'.state = "executing" => executor' = row'.owner
      /\ row'.state = "absent" => executor' = NoOwner
      /\ row'.state \notin {"executing", "absent"} => executor' = executor
  BY Zenon DEF Remember
<1> QED  BY <1>1 DEF HolderOf

\* A call that is told to dispatch is told by the row's holder, or by the holder of
\* an earlier life of the row.
LEMMA ToldByHolder ==
  ASSUME IInv, NEW c \in Calls, pc[c] \notin {"idle", "done"}, NEW r, Grantable(c, r),
         row.state # "absent", row.born = r.born
  PROVE  row.state # "prepared" /\ executor = args[c].owner /\ args[c].owner \in Owners
<1> USE DEF IInv
<1>1. CASE r = row /\ row.state = "executing"
  <2>1. row.owner \in Aliases /\ row.owner # NoOwner
    BY <1>1, FieldsTyped DEF TypeOK, RowOK, JournalWritesReadable, WellFormed, TerminalStates
  <2> QED  BY <1>1, <2>1 DEF Grantable, ExecutorOK, Aliases
<1>2. CASE Promised(c) /\ r = reply[c].record
  <2>1. pc[c] = "writing" /\ result[c].kind = "none"
    BY <1>2 DEF Promised, ReplyOK, GrantsOK
  <2>2. c \in Granted /\ GrantOf(c) = r
    BY <1>2, <2>1 DEF Granted, GrantOf
  <2>3. Upholds(row, executor, r) /\ r.owner = args[c].owner
    BY <2>2 DEF GrantsOK
  <2>4. args[c].op = "acquireDispatch" /\ LegalArguments(args[c])
    BY <1>2, <2>1 DEF Promised, CallOK, LegalIntent
  <2>5. args[c].owner \in Owners
    BY <2>4 DEF LegalArguments
  <2> QED  BY <2>3, <2>5 DEF Upholds
<1> QED  BY <1>1, <1>2 DEF Grantable

\* A call's own step tells its owner, or nobody.
LEMMA CallTells ==
  ASSUME IInv, NEW c \in Calls, CallStep(c)
  PROVE  [Ledger!LedgerNext]_(Ledger!ledgerVars)
<1> USE DEF IInv
<1>0. UNCHANGED <<row, args>> /\ executor' = executor /\ pc[c] \notin {"idle", "done"}
  BY ExecutorStays DEF CallStep
<1>1. PhaseOf(row)' = PhaseOf(row) /\ HolderOf(row)' = HolderOf(row)
  BY <1>0, Zenon DEF PhaseOf, HolderOf
<1>2. ASSUME ToldOf(row)' = ToldOf(row)
      PROVE  UNCHANGED Ledger!ledgerVars
  BY <1>1, <1>2 DEF Ledger!ledgerVars
<1>3. ASSUME Sends(c) \/ LooksAgain(c)
      PROVE  UNCHANGED Ledger!ledgerVars
  <2>1. result' = result
    BY <1>3 DEF Sends, Send, LooksAgain
  <2>2. ToldOf(row)' = ToldOf(row)
    BY <1>0, <2>1, ToldIs
  <2> QED  BY <2>2, <1>2
<1>4. ASSUME Returns(c)
      PROVE  [Ledger!LedgerNext]_(Ledger!ledgerVars)
  <2>1. result[c].kind = "none"
    BY <1>0 DEF GrantsOK
  <2>2. PICK answer \in Results :
          /\ Return(c, answer.kind, answer.reason, answer.record)
          /\ answer.kind = "dispatch" => Grantable(c, answer.record)
    BY <1>4 DEF Returns
  <2>3. /\ result'[c].kind = answer.kind /\ result'[c].record = answer.record
        /\ \A d \in Calls \ {c} : result'[d] = result[d]
    BY <2>2 DEF Return, TypeOK
  <2>4. ASSUME answer.kind # "dispatch" \/ row.state = "absent" \/ row.born # answer.record.born
        PROVE  ToldOf(row)' = ToldOf(row)
    <3>1. ASSUME NEW b, answer.kind # "dispatch" \/ b # answer.record.born
          PROVE  Grants(result', args', b) = Grants(result, args, b)
      BY <1>0, <2>1, <2>3, <3>1 DEF Grants
    <3> QED  BY <1>0, <2>4, <3>1, ToldIs
  <2>5. ASSUME answer.kind = "dispatch", row.state # "absent", row.born = answer.record.born
        PROVE  Ledger!Tell
    <3>1. /\ row.state # "prepared" /\ executor = args[c].owner
          /\ args[c].owner \in Owners
      BY <1>0, <2>2, <2>5, ToldByHolder
    <3>2. HolderOf(row) = args[c].owner
      BY <3>1 DEF HolderOf
    <3>3. PhaseOf(row) \notin {"absent", "claimed"}
      BY <2>5, <3>1, PhaseIs, FieldsTyped DEF TypeOK, RecordStates, TerminalStates
    <3>4. ToldOf(row)' = ToldOf(row) \union {args[c].owner}
      BY <1>0, <2>1, <2>3, <2>5, ToldIs DEF Grants
    <3> QED  BY <1>1, <3>1, <3>2, <3>3, <3>4 DEF Ledger!Tell
  <2> QED  BY <1>2, <2>4, <2>5 DEF Ledger!LedgerNext
<1> QED  BY <1>3, <1>4 DEF CallStep, Proceeds

\* A call that starts tells nobody.
LEMMA InvokeTells ==
  ASSUME IInv, NEW c \in Calls, Invoke(c)
  PROVE  UNCHANGED Ledger!ledgerVars
<1> USE DEF IInv
<1>1. /\ result[c].kind = "none" /\ UNCHANGED <<row, result>> /\ executor' = executor
      /\ \A d \in Calls \ {c} : args'[d] = args[d]
  BY ExecutorStays DEF Invoke, GrantsOK, TypeOK
<1>2. ToldOf(row)' = ToldOf(row)
  <2>1. ASSUME NEW b
        PROVE  Grants(result', args', b) = Grants(result, args, b)
    BY <1>1 DEF Grants
  <2> QED  BY <1>1, <2>1, ToldIs
<1>3. PhaseOf(row)' = PhaseOf(row) /\ HolderOf(row)' = HolderOf(row)
  BY <1>1, Zenon DEF PhaseOf, HolderOf
<1> QED  BY <1>2, <1>3 DEF Ledger!ledgerVars

\* Nobody has been told to dispatch before the row executes.
LEMMA NoneTold ==
  ASSUME IInv, row.state \in {"absent", "prepared"}
  PROVE  /\ ToldOf(row) = {}
         /\ \A b \in Nat : b > lastEtag => Grants(result, args, b) = {}
<1> USE DEF IInv
<1>1. lastEtag \in Nat /\ row.born \in Nat
  BY FieldsTyped DEF TypeOK
<1>2. ASSUME NEW d \in Calls, result[d].kind = "dispatch"
      PROVE  /\ result[d].record.born \in Nat /\ result[d].record.born <= lastEtag
             /\ Upholds(row, executor, result[d].record)
  <2>1. d \in Granted /\ GrantOf(d) = result[d].record
    BY <1>2 DEF Granted, GrantOf
  <2>2. result[d].record.born \in Nat
    BY GrantTyped, FieldsTyped
  <2> QED  BY <2>1, <2>2 DEF GrantsOK
<1>3. \A b \in Nat : b > lastEtag => Grants(result, args, b) = {}
  BY <1>1, <1>2 DEF Grants
<1>4. row.state = "prepared" => Grants(result, args, row.born) = {}
  BY <1>2 DEF Grants, Upholds
<1> QED  BY <1>3, <1>4, ToldIs

\* What the service, or another program, does to the row.
LEMMA RowMoves ==
  ASSUME IInv, RowStep, Remember, UNCHANGED <<result, args>>
  PROVE  [Ledger!LedgerNext]_(Ledger!ledgerVars)
<1> USE DEF IInv
<1>0. /\ row \in Records /\ row' \in Records /\ row.born \in Nat /\ row'.born \in Nat
      /\ lastEtag \in Nat
  BY RowStepKeeps, FieldsTyped DEF TypeOK
<1>01. ASSUME row.state # "absent", row'.state # "absent", row'.born = row.born
       PROVE  ToldOf(row)' = ToldOf(row)
  BY <1>01, ToldIs
<1>1. CASE UNCHANGED <<row, lastEtag>>
  <2>1. executor' = executor
    BY <1>1, ExecutorStays
  <2>2. PhaseOf(row)' = PhaseOf(row) /\ HolderOf(row)' = HolderOf(row)
    BY <1>1, <2>1, Zenon DEF PhaseOf, HolderOf
  <2>3. ToldOf(row)' = ToldOf(row)
    BY <1>1, ToldIs
  <2> QED  BY <2>2, <2>3 DEF Ledger!ledgerVars
<1>2. ASSUME NEW w \in wire, Applies(w), w.kind = "create",
             row' = Stored(w), lastEtag' = lastEtag + 1
      PROVE  Ledger!LedgerNext
  <2>1. w \in Requests /\ WellFormed(w.body) /\ w.body.state = "prepared" /\ row.state = "absent"
    BY <1>2 DEF TypeOK, WireOK, LegalRequest, Applies
  <2>2. /\ row'.state = "prepared" /\ row'.born = lastEtag + 1
        /\ WellFormed(row') /\ row'.owner = w.body.owner
    BY <1>2, <2>1, StoredIs
  <2>3. row'.owner \in Owners
    BY <1>0, <2>2, FieldsTyped DEF WellFormed, Aliases, TerminalStates
  <2>4. ToldOf(row) = {} /\ ToldOf(row)' = {}
    BY <1>0, <2>1, <2>2, NoneTold, ToldIs
  <2>5. PhaseOf(row) = "absent" /\ PhaseOf(row)' = "claimed" /\ HolderOf(row)' = row'.owner
    BY <2>1, <2>2, PhaseIs, HolderIs
  <2>6. Ledger!Open(row'.owner)
    BY <2>4, <2>5 DEF Ledger!Open
  <2> QED  BY <2>3, <2>6 DEF Ledger!LedgerNext
<1>3. ASSUME NEW w \in wire, Applies(w), w.kind = "replace", row' = Stored(w)
      PROVE  [Ledger!LedgerNext]_(Ledger!ledgerVars)
  <2>1. w \in Requests /\ LegalMove(row, w.body)
    BY <1>3 DEF TypeOK, WireOK, LegalRequest, Applies, Names
  <2>2. /\ row'.state = w.body.state /\ row'.born = row.born
        /\ WellFormed(row') /\ row'.owner = w.body.owner /\ WellFormed(row)
    BY <1>3, <2>1, StoredIs DEF LegalMove
  <2>3. ToldOf(row)' = ToldOf(row)
    BY <1>01, <2>2 DEF WellFormed, TerminalStates
  <2>4. CASE row.state = "prepared" /\ row'.state = "prepared"
    <3>1. /\ PhaseOf(row) = "claimed" /\ PhaseOf(row)' = "claimed"
          /\ HolderOf(row) = row.owner /\ HolderOf(row)' = row'.owner
          /\ ToldOf(row)' = ToldOf(row)
      BY <2>3, <2>4, PhaseIs, HolderIs
    <3>2. row'.owner \in Owners
      BY <1>0, <2>2, <2>4, FieldsTyped DEF WellFormed, Aliases, TerminalStates
    <3>3. CASE row'.owner = row.owner
      BY <3>1, <3>3 DEF Ledger!ledgerVars
    <3>4. CASE row'.owner # row.owner
      <4>1. Ledger!TakeOver(row'.owner)
        BY <3>1, <3>4 DEF Ledger!TakeOver
      <4> QED  BY <3>2, <4>1 DEF Ledger!LedgerNext
    <3> QED  BY <3>3, <3>4
  <2>5. CASE row.state = "prepared" /\ row'.state = "executing" /\ w.body.owner = row.owner
    <3>1. /\ PhaseOf(row) = "claimed" /\ PhaseOf(row)' = "held"
          /\ HolderOf(row) = row.owner /\ HolderOf(row)' = row.owner
      BY <2>2, <2>5, PhaseIs, HolderIs
    <3>3. Ledger!Hold
      BY <2>3, <3>1 DEF Ledger!Hold
    <3> QED  BY <3>3 DEF Ledger!LedgerNext
  <2>6. CASE row.state = "executing" /\ row'.state = "ambiguous"
    <3>1. /\ PhaseOf(row) = "held" /\ PhaseOf(row)' = "doubtful"
          /\ HolderOf(row)' = HolderOf(row) /\ ToldOf(row)' = ToldOf(row)
      BY <2>3, <2>6, PhaseIs, HolderIs
    <3>2. Ledger!Doubt
      BY <3>1 DEF Ledger!Doubt
    <3> QED  BY <3>2 DEF Ledger!LedgerNext
  <2>7. CASE row.state \in {"executing", "ambiguous"} /\ row'.state \in TerminalStates
    <3>1. /\ PhaseOf(row) \in {"held", "doubtful"} /\ PhaseOf(row)' = row'.state
          /\ HolderOf(row)' = HolderOf(row) /\ ToldOf(row)' = ToldOf(row)
      BY <2>3, <2>7, PhaseIs, HolderIs DEF TerminalStates
    <3>2. Ledger!Settle(row'.state) /\ row'.state \in Ledger!Verdicts
      BY <2>7, <3>1 DEF Ledger!Settle, Ledger!Verdicts, TerminalStates
    <3> QED  BY <3>2 DEF Ledger!LedgerNext
  <2> QED  BY <2>1, <2>2, <2>4, <2>5, <2>6, <2>7 DEF LegalMove
<1>4. ASSUME NEW w \in wire, Applies(w), w.kind = "delete", row' = Stored(w)
      PROVE  Ledger!LedgerNext
  <2>1. w \in Requests /\ row.state \in TerminalStates
    BY <1>4 DEF TypeOK, WireOK, LegalRequest, Applies, Names
  <2>2. row'.state = "absent"
    BY <1>4 DEF Stored, NoRecord
  <2>3. /\ PhaseOf(row) = row.state /\ PhaseOf(row)' = "absent"
        /\ HolderOf(row)' = NoOwner /\ ToldOf(row)' = {}
    BY <2>1, <2>2, PhaseIs, ToldIs, HolderIs DEF TerminalStates
  <2>4. Ledger!Retire
    BY <2>1, <2>3 DEF Ledger!Retire, Ledger!Verdicts, TerminalStates
  <2> QED  BY <2>4 DEF Ledger!LedgerNext
<1>5. ASSUME row.state # "absent", row' = Damaged(row)
      PROVE  Ledger!LedgerNext
  <2>1. row'.state = "damaged" /\ row'.born = row.born
    BY <1>5 DEF Damaged
  <2>2. PhaseOf(row) # "absent" /\ PhaseOf(row)' = "damaged"
    BY <1>5, <2>1, PhaseIs
  <2>5. PhaseOf(row) = "claimed" => row.state = "prepared"
    BY PhaseIs, FieldsTyped DEF TypeOK, RecordStates, TerminalStates
  <2>6. row.state = "prepared" => PhaseOf(row) = "claimed" /\ executor = NoOwner
    BY PhaseIs DEF ExecutorOK
  <2>7. HolderOf(row)' = IF PhaseOf(row) = "claimed" THEN NoOwner ELSE HolderOf(row)
    BY <2>1, <2>5, <2>6, HolderIs
  <2>3. ToldOf(row)' = ToldOf(row)
    BY <1>01, <1>5, <2>1
  <2>4. Ledger!Damage
    BY <2>2, <2>3, <2>7 DEF Ledger!Damage
  <2> QED  BY <2>4 DEF Ledger!LedgerNext
<1>6. \A w \in wire : w.kind \in {"create", "replace", "delete"}
  BY DEF TypeOK, Requests
<1> QED  BY <1>1, <1>2, <1>3, <1>4, <1>5, <1>6 DEF RowStep

\* The journal implements the ledger: whatever its calls, the service and the
\* network do, the row goes through the ledger's phases and nobody but its
\* holder is told to dispatch.
THEOREM JournalImplementsLedger ==
  ASSUME CreateReturnsEtag
  PROVE  Spec => ImplementsLedger
<1>1. Init => Ledger!LedgerInit
  <2>1. ASSUME Init PROVE Ledger!LedgerInit
    <3>1. row.state = "absent"
      BY <2>1 DEF Init, NoRecord
    <3>2. executor = NoOwner
      BY <2>1 DEF Init
    <3> QED  BY <3>1, <3>2, PhaseIs, ToldIs DEF Ledger!LedgerInit, HolderOf
  <2> QED  BY <2>1
<1>2. ASSUME IInv, [Next]_vars
      PROVE  [Ledger!LedgerNext]_(Ledger!ledgerVars)
  <2>1. ASSUME NEW c \in Calls, Invoke(c)
        PROVE  UNCHANGED Ledger!ledgerVars
    BY <1>2, <2>1, InvokeTells
  <2>2. ASSUME NEW c \in Calls, Continue(c)
        PROVE  [Ledger!LedgerNext]_(Ledger!ledgerVars)
    BY <1>2, <2>2, ContinueIs, CallTells DEF IInv
  <2>3. ASSUME NEW w \in wire, Land(w)
        PROVE  [Ledger!LedgerNext]_(Ledger!ledgerVars)
    BY <1>2, <2>3, LandIs, RowMoves DEF IInv, QuietStep
  <2>4. CASE Damage
    BY <1>2, <2>4, DamageIs, RowMoves DEF IInv, QuietStep
  <2>5. ASSUME UNCHANGED vars
        PROVE  UNCHANGED Ledger!ledgerVars
    <3>1. ToldOf(row)' = ToldOf(row)
      BY <2>5, ToldIs DEF vars
    <3>2. PhaseOf(row)' = PhaseOf(row) /\ HolderOf(row)' = HolderOf(row)
      BY <2>5, Zenon DEF vars, PhaseOf, HolderOf
    <3> QED  BY <3>1, <3>2 DEF Ledger!ledgerVars
  <2> QED  BY <1>2, <2>1, <2>2, <2>3, <2>4, <2>5 DEF Next
<1>3. IInv /\ [Next]_vars => [Ledger!LedgerNext]_(Ledger!ledgerVars)
  BY <1>2
<1> QED  BY JournalInvariant, <1>1, <1>3, PTL DEF Spec, ImplementsLedger, Ledger!LedgerSpec

\* While one life of the row lasts, at most one owner alias has been told to dispatch:
\* the ledger's theorem, carried over to the journal.
COROLLARY JournalTellsOneOwner ==
  ASSUME CreateReturnsEtag
  PROVE  Spec => []Ledger!AtMostOneTold
<1>1. ImplementsLedger => []Ledger!AtMostOneTold
  BY Ledger!LedgerTellsOneOwner DEF ImplementsLedger
<1> QED  BY JournalImplementsLedger, <1>1
=============================================================================
