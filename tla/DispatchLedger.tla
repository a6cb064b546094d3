--------------------------- MODULE DispatchLedger ---------------------------
(***************************************************************************)
(* What the shared operation journal promises the API replicas that race   *)
(* for one operation tuple, without tables, ETags, retries or lost         *)
(* replies: the tuple's entry is claimed by one owner, may change hands    *)
(* only before execution, and from then on only its holder is ever told to *)
(* dispatch the mutation.  SharedOperationJournal implements this module.  *)
(***************************************************************************)
EXTENDS TLAPS

CONSTANTS
  Owners,          \* lease owners: the API processes that ask for a dispatch
  NoOwner          \* nobody

VARIABLES
  phase,           \* what is recorded of the operation
  holder,          \* the owner of the claim, then the one execution started for
  told             \* the owners told to dispatch since the entry was opened

ledgerVars == <<phase, holder, told>>

Verdicts == {"succeeded", "failed"}

LedgerTypeOK ==
  /\ phase \in {"absent", "claimed", "held", "doubtful", "damaged"} \union Verdicts
  /\ holder \in Owners \union {NoOwner}
  /\ told \subseteq Owners

LedgerInit == phase = "absent" /\ holder = NoOwner /\ told = {}

Open(o) ==
  /\ phase = "absent"
  /\ phase' = "claimed" /\ holder' = o
  /\ UNCHANGED told

TakeOver(o) ==
  /\ phase = "claimed" /\ holder # o
  /\ holder' = o
  /\ UNCHANGED <<phase, told>>

\* Execution starts, once in the life of the entry.
Hold ==
  /\ phase = "claimed"
  /\ phase' = "held"
  /\ UNCHANGED <<holder, told>>

\* The holder hears of it, maybe when the entry is already doubted or settled.
Tell ==
  /\ phase \notin {"absent", "claimed"} /\ holder \in Owners
  /\ told' = told \union {holder}
  /\ UNCHANGED <<phase, holder>>

Doubt ==
  /\ phase = "held"
  /\ phase' = "doubtful"
  /\ UNCHANGED <<holder, told>>

Settle(v) ==
  /\ phase \in {"held", "doubtful"}
  /\ phase' = v
  /\ UNCHANGED <<holder, told>>

Retire ==
  /\ phase \in Verdicts
  /\ phase' = "absent" /\ holder' = NoOwner /\ told' = {}

\* Somebody else rewrites the stored record into one the journal refuses.
Damage ==
  /\ phase # "absent"
  /\ phase' = "damaged"
  /\ holder' = IF phase = "claimed" THEN NoOwner ELSE holder
  /\ UNCHANGED told

LedgerNext ==
  \/ \E o \in Owners : Open(o) \/ TakeOver(o)
  \/ Hold \/ Tell \/ Doubt \/ Retire \/ Damage
  \/ \E v \in Verdicts : Settle(v)

LedgerSpec == LedgerInit /\ [][LedgerNext]_ledgerVars

-----------------------------------------------------------------------------
\* While the operation is open at most one owner has been told to dispatch it:
\* the promise of docs/durable-operation-journal-decision.md, "one owner holds
\* the unexpired lease and may make the mutation".
AtMostOneTold == \A o, p \in told : o = p

\* What makes AtMostOneTold inductive: nobody is told before execution starts,
\* and then only the one it started for.
LedgerInv ==
  /\ LedgerTypeOK
  /\ phase \in {"absent", "claimed"} => told = {}
  /\ phase \in {"claimed", "held"} => holder \in Owners
  /\ told \subseteq {holder}

THEOREM LedgerInvInductive == LedgerInv /\ [LedgerNext]_ledgerVars => LedgerInv'
<1> SUFFICES ASSUME LedgerInv, [LedgerNext]_ledgerVars
             PROVE  LedgerInv'
  OBVIOUS
<1> USE DEF LedgerInv, LedgerTypeOK, AtMostOneTold, Verdicts
<1>1. ASSUME NEW o \in Owners, Open(o) \/ TakeOver(o)
      PROVE  LedgerInv'
  BY <1>1 DEF Open, TakeOver
<1>2. CASE Hold
  BY <1>2 DEF Hold
<1>3. CASE Tell
  BY <1>3 DEF Tell
<1>4. CASE Doubt
  BY <1>4 DEF Doubt
<1>5. ASSUME NEW v \in Verdicts, Settle(v)
      PROVE  LedgerInv'
  BY <1>5 DEF Settle
<1>6. CASE Retire
  BY <1>6 DEF Retire
<1>7. CASE Damage
  BY <1>7 DEF Damage
<1>8. CASE UNCHANGED ledgerVars
  BY <1>8 DEF ledgerVars
<1> QED
  BY <1>1, <1>2, <1>3, <1>4, <1>5, <1>6, <1>7, <1>8 DEF LedgerNext

\* The ledger tells at most one owner to dispatch, however often the entry
\* changes hands before execution and whatever becomes of it afterwards.
THEOREM LedgerTellsOneOwner == LedgerSpec => []AtMostOneTold
<1>1. LedgerInit => LedgerInv
  BY DEF LedgerInit, LedgerInv, LedgerTypeOK, AtMostOneTold
<1>2. LedgerInv => AtMostOneTold
  BY DEF LedgerInv, AtMostOneTold
<1> QED
  BY <1>1, <1>2, LedgerInvInductive, PTL DEF LedgerSpec
=============================================================================
