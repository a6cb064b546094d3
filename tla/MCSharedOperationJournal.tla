---------------------- MODULE MCSharedOperationJournal ----------------------
(* Small instances of SharedOperationJournal. *)
EXTENDS SharedOperationJournal, TLC

CONSTANTS c1, c2, c3, c4, o1, o2

\* Three calls race for the dispatch of one operation.
RaceCalls == [c \in Calls |-> {"acquireDispatch"}]
RaceSymmetry == Permutations(Calls) \union Permutations(Owners)

\* A claim is settled or ends in ambiguity; a reconciler resolves it or retires
\* it once its retention is over; and a second claim comes at any time before,
\* between or after them.
SettleCalls ==
  [c \in Calls |-> CASE c = c2 -> {"recordTerminal", "recordAmbiguous"}
                     [] c = c3 -> {"resolveAmbiguous", "retireTerminal"}
                     [] OTHER  -> {"acquireDispatch"}]
SettleSymmetry == Permutations({c1, c4}) \union Permutations(Owners)

\* A claim and one call of any kind that follows up on it.
FollowUpCalls ==
  [c \in Calls |-> IF c = c1 THEN {"acquireDispatch"} ELSE Operations]

=============================================================================
