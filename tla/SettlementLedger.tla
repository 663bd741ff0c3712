-------------------------- MODULE SettlementLedger --------------------------
(***************************************************************************)
(* What settlement promises, without batches, roots, rows or passes: the   *)
(* operations the backend accepts form one log; the chain settles the log  *)
(* in order, a stretch at a time, and the backend acknowledges a stretch   *)
(* before the chain settles the next one.                                  *)
(*                                                                         *)
(* This is the flow docs/pending-settlement-status.md describes; module    *)
(* Settlement is shown to implement it for one request handler and one     *)
(* driver whose database calls do not fail (README, "Refinement").         *)
(***************************************************************************)
EXTENDS Naturals, Sequences

CONSTANT Operations   \* the operations users can ask for, <<kind, id>>

VARIABLES
    log,           \* operations in the order they were accepted
    settled,       \* the operations the chain has settled
    acknowledged   \* the operations the backend reports as settled

vars == <<log, settled, acknowledged>>

\* The first n operations of the log.
Prefix(n) == {log[i] : i \in 1..n}

IsWithdrawal(op) == op[1] = "withdrawal"

TypeOK ==
    /\ log \in Seq(Operations)
    /\ settled \subseteq Operations
    /\ acknowledged \subseteq Operations

Init ==
    /\ log = <<>>
    /\ settled = {}
    /\ acknowledged = {}

\* An operation is accepted once.
Accept(op) ==
    /\ op \notin Prefix(Len(log))
    /\ log' = Append(log, op)
    /\ UNCHANGED <<settled, acknowledged>>

\* The chain settles the log up to n: at most one withdrawal, which is the last
\* of the stretch, and nothing before the last stretch is acknowledged.
Settle(n) ==
    /\ acknowledged = settled
    /\ settled \subseteq Prefix(n)
    /\ settled # Prefix(n)
    /\ \A i \in 1..n - 1 : IsWithdrawal(log[i]) => log[i] \in settled
    /\ settled' = Prefix(n)
    /\ UNCHANGED <<log, acknowledged>>

Acknowledge ==
    /\ acknowledged # settled
    /\ acknowledged' = settled
    /\ UNCHANGED <<log, settled>>

Next ==
    \/ \E op \in Operations : Accept(op)
    \/ \E n \in 1..Len(log) : Settle(n)
    \/ Acknowledge

Spec == Init /\ [][Next]_vars
=============================================================================
