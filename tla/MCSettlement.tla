---------------------------- MODULE MCSettlement ----------------------------
(* Alice and bob have a deposit each, in one denomination.                 *)
EXTENDS Settlement

CONSTANTS alice, bob, uusdc, dep1, dep2

MCDepositRecord ==
    [d \in Deposits |->
        IF d = dep1 THEN [acct |-> <<alice, uusdc>>, amount |-> 2]
                    ELSE [acct |-> <<bob, uusdc>>,   amount |-> 1]]

\* Handlers run the same code, and so do the two drivers.
Symmetry == Permutations(Handlers) \cup Permutations(Drivers)
=============================================================================
