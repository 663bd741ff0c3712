---------------------------- MODULE PendingBatch ----------------------------
(***************************************************************************)
(* How BuildPendingBatch turns the pending rows into one batch: the walk   *)
(* along the root chain, the one-withdrawal bound, and the checks of the   *)
(* settlement and witness builders (internal/service/                      *)
(* offchain_settlement_service.go, internal/batch/builder.go, witness.go). *)
(*                                                                         *)
(* Rows are those of SettlementStore.  Strings and amounts a row was saved *)
(* with are well-formed, so the format checks of the builders never fire   *)
(* and are left out.                                                       *)
(***************************************************************************)
EXTENDS LocalState, Sequences, FiniteSetsExt

\* addPendingTransition refuses a second row with the same rootBefore.
DistinctRootBefore(pending) ==
    \A i, j \in DOMAIN pending :
        pending[i].rootBefore = pending[j].rootBefore => i = j

\* The transition that starts at root.
Follows(pending, root) == {i \in DOMAIN pending : pending[i].rootBefore = root}

\* The walk from the committed root, one transition per pending row; it stops
\* short when no transition starts where the last one ended.
OrderPending(committedRoot, pending) ==
    LET walk[n \in 0..Len(pending)] ==
            IF n = 0 THEN <<>>
            ELSE LET before == walk[n - 1]
                     root   == IF before = <<>> THEN committedRoot
                                                ELSE before[Len(before)].rootAfter
                     next   == Follows(pending, root)
                 IN  IF Len(before) < n - 1 \/ next = {} THEN before
                     ELSE Append(before, pending[CHOOSE i \in next : TRUE])
    IN  walk[Len(pending)]

\* The walk must consume every pending row.
CanOrder(committedRoot, pending) ==
    /\ DistinctRootBefore(pending)
    /\ Len(OrderPending(committedRoot, pending)) = Len(pending)

\* Mutant: the whole chain goes into one batch.
UnboundedPrefix(ordered) == ordered

\* boundSingleWithdrawalPrefix: up to and including the first withdrawal.
BoundSingleWithdrawalPrefix(ordered) ==
    LET withdrawals == {i \in DOMAIN ordered : ordered[i].kind = "withdrawal"}
    IN  IF withdrawals = {} THEN ordered ELSE SubSeq(ordered, 1, Min(withdrawals))

-----------------------------------------------------------------------------
(* SettlementUpdateBuilder.Build *)

\* A batch must change the root and stay within one denom.
CanSettle(oldRoot, transitions) ==
    /\ oldRoot # transitions[Len(transitions)].rootAfter
    /\ \A i, j \in DOMAIN transitions : transitions[i].acct[2] = transitions[j].acct[2]

-----------------------------------------------------------------------------
(* buildWitnessAccountsFromPendingTransitions and WitnessBuilder.Build *)

\* The transitions of one owner, in batch order.
OfOwner(transitions, owner) ==
    {i \in DOMAIN transitions : transitions[i].acct[1] = owner}

AmountOf(transitions, indices, kind) ==
    MapThenSumSet(LAMBDA i : transitions[i].amount,
                  {i \in indices : transitions[i].kind = kind})

\* ZK-04, from the owner's first balanceBefore to its last balanceAfter.
BalanceTransitionHolds(transitions, owner) ==
    LET mine == OfOwner(transitions, owner)
    IN  transitions[Max(mine)].balanceAfter + AmountOf(transitions, mine, "withdrawal")
          = transitions[Min(mine)].balanceBefore + AmountOf(transitions, mine, "deposit")

\* ZK-05: each withdrawal's nullifier is re-derived from the witness secret.
NullifiersRederive(transitions, secret) ==
    \A i \in DOMAIN transitions :
        transitions[i].kind = "withdrawal"
          => transitions[i].nullifier = NullifierFor(secret, transitions[i].nonce)

\* The one nonce the witness has for an owner: that of its last withdrawal in
\* the batch, and 0 when it has none.
WitnessNonce(transitions, owner) ==
    LET withdrawals == {i \in OfOwner(transitions, owner) : transitions[i].kind = "withdrawal"}
    IN  IF withdrawals = {} THEN 0 ELSE transitions[Max(withdrawals)].nonce

CanWitness(transitions, secret) ==
    /\ \A owner \in {transitions[i].acct[1] : i \in DOMAIN transitions} :
          BalanceTransitionHolds(transitions, owner)
    /\ NullifiersRederive(transitions, secret)
=============================================================================
