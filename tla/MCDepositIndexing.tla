------------------------- MODULE MCDepositIndexing -------------------------
(* Transactions of one deposit each.                                       *)
EXTENDS DepositIndexing

CONSTANTS tx1, tx2, tx3

MCEvents == [t \in Txs |-> <<<<t, 1>>>>]
=============================================================================
