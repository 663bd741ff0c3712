---------------------------- MODULE MCManualMode ----------------------------
(* Alice has two deposits that differ in nothing but their id, so that two *)
(* batches can have the same roots and differ in what they settle; bob     *)
(* asks for a withdrawal too.                                              *)
EXTENDS ManualMode

CONSTANTS alice, bob, uusdc, exchange

MCDepositRecord == [d \in Deposits |-> [acct |-> <<alice, uusdc>>, amount |-> 2]]

MCWithdrawBodies ==
    {[acct |-> <<alice, uusdc>>, amount |-> 2, dest |-> alice],
     [acct |-> <<alice, uusdc>>, amount |-> 2, dest |-> exchange],
     [acct |-> <<bob, uusdc>>,   amount |-> 2, dest |-> bob]}

\* The two deposits have one record, so no sum or build depends on which is taken.
DepositSymmetry == Permutations(Deposits)

\* Half of the sixteen wirings, with every combination of any three options;
\* the default and the full chain wiring with the snapshot builder are in it.
MCWirings ==
    {w \in Wiring : ((w.builder = "snapshot") = w.offchain) = (w.remote = w.chain)}
=============================================================================
