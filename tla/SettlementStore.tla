-------------------------- MODULE SettlementStore --------------------------
(***************************************************************************)
(* The tables behind OffchainSettlementRepository                          *)
(* (internal/repository/offchain_settlement_repository.go and              *)
(* migrations/003): offchain_pending_deposits, offchain_pending_withdrawals*)
(* and offchain_state_cursors.  Each method of the repository is one       *)
(* statement or one database transaction, so it is one application of an   *)
(* operator.                                                               *)
(*                                                                         *)
(* Both tables are one sequence of rows in insertion order (created_at);   *)
(* an upsert keeps a row's place.  Rows are never deleted.  A batch id     *)
(* "batch-N" is the number N; 0 is NULL.                                   *)
(***************************************************************************)
EXTENDS Naturals, Sequences

CONSTANT NoCursor   \* the cursor row does not exist yet

NoBatch == 0

Status == {"pending", "included", "committed", "failed"}

\* The primary key of a row: the table and the id in it.
Key(row) == <<row.kind, row.id>>

Keys(rows) == {Key(rows[i]) : i \in DOMAIN rows}

\* INSERT ... ON CONFLICT (id) DO UPDATE: every column of the row is replaced.
SavePending(rows, row) ==
    IF Key(row) \in Keys(rows)
    THEN [i \in DOMAIN rows |-> IF Key(rows[i]) = Key(row) THEN row ELSE rows[i]]
    ELSE Append(rows, row)

\* The unique index on offchain_pending_withdrawals.nullifier.
NullifierTaken(rows, row) ==
    /\ row.kind = "withdrawal"
    /\ \E i \in DOMAIN rows :
          /\ rows[i].kind = "withdrawal"
          /\ rows[i].nullifier = row.nullifier
          /\ Key(rows[i]) # Key(row)

\* WHERE status = 'pending' ORDER BY created_at.
ListPending(rows, kind) ==
    LET list[n \in 0..Len(rows)] ==
            IF n = 0 THEN <<>>
            ELSE IF rows[n].kind = kind /\ rows[n].status = "pending"
                 THEN Append(list[n - 1], rows[n])
                 ELSE list[n - 1]
    IN  list[Len(rows)]

\* MarkIncluded looks rows up by id alone, whatever their status.
MarkIncluded(rows, batchID, keys) ==
    [i \in DOMAIN rows |->
        IF Key(rows[i]) \in keys
        THEN [rows[i] EXCEPT !.status = "included", !.batch = batchID]
        ELSE rows[i]]

\* MarkCommitted and MarkFailed look rows up by batch id alone.
MarkByBatch(rows, batchID, status) ==
    [i \in DOMAIN rows |->
        IF rows[i].batch = batchID THEN [rows[i] EXCEPT !.status = status] ELSE rows[i]]

\* Mutant: the batch id alone selects the rows to reopen.
InBatchAnyStatus(row, batchID) == row.batch = batchID

\* ReopenIncluded also asks for status = 'included', and fails on no row.
InBatch(row, batchID) == row.batch = batchID /\ row.status = "included"

CanReopen(rows, batchID) == \E i \in DOMAIN rows : InBatch(rows[i], batchID)

ReopenIncluded(rows, batchID) ==
    [i \in DOMAIN rows |->
        IF InBatch(rows[i], batchID)
        THEN [rows[i] EXCEPT !.status = "pending", !.batch = NoBatch]
        ELSE rows[i]]

\* The cursor getOrInitCursorWithRoot writes when there is none.
InitialCursor(root) == [committed |-> root, pending |-> root, last |-> NoBatch]
=============================================================================
