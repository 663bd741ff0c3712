------------------------- MODULE MCOffchainManager -------------------------
(* Three accounts, one each of alice, bob and carol; alice and bob share   *)
(* the default secret and carol has one of her own.                        *)
EXTENDS OffchainManager

CONSTANTS alice, bob, carol, uusdc, dep1, dep2, dep3, defaultSecret, carolSecret

MCDepositRecord ==
    [d \in {dep1, dep2, dep3} |->
        CASE d = dep1 -> [acct |-> <<alice, uusdc>>, amount |-> 2]
          [] d = dep2 -> [acct |-> <<bob, uusdc>>,   amount |-> 1]
          [] d = dep3 -> [acct |-> <<carol, uusdc>>, amount |-> 1]]

MCSecretOf ==
    [o \in {alice, bob, carol} |-> IF o = carol THEN carolSecret ELSE defaultSecret]
=============================================================================
