----------------------------- MODULE Settlement -----------------------------
(***************************************************************************)
(* DB-backed pending settlement (BATCH_BUILD_SOURCE=pending): the          *)
(* composition of                                                          *)
(*   - request handlers (deposit indexer and withdraw API) that apply an   *)
(*     operation to the in-memory manager and then record it in the        *)
(*     database, one round trip at a time;                                 *)
(*   - drivers (the in-process settlement sequencer, and                   *)
(*     scripts/settle_loop.sh, which does the same over HTTP) that build,  *)
(*     prove and submit a batch and commit or reopen its rows;             *)
(*   - the operator's cancel endpoint;                                     *)
(*   - the chain (external): a mempool and the zkdex module;               *)
(*   - process restarts, which forget memory and rehydrate from the rows.  *)
(*                                                                         *)
(* A step is one critical section of the manager's mutex or one database   *)
(* statement or transaction, with the local computation around it.  Three  *)
(* steps join two of these, where no interleaving between them matters:    *)
(*   - StartOperation and StartPass read the manager and look the cursor   *)
(*     row up.  The row is written before the first operation is applied   *)
(*     and is never deleted, so the lookup fails only at the genesis state;*)
(*   - ReceiveWithdraw takes the id, builds the request and reads the      *)
(*     snapshot.  If another withdrawal moves the nonce after the build,   *)
(*     ApplyWithdrawal refuses the request; a deposit in between leaves it *)
(*     the request that would be built after the deposit.                  *)
(***************************************************************************)
EXTENDS LocalState, SettlementStore, PendingBatch, Integers, SequencesExt

CONSTANTS
    Handlers,          \* concurrent request handlers
    Drivers,           \* settlement drivers
    DefaultSecret,     \* offchainSettlementDefaultSecret = withdrawDefaultUserSecret
    WithdrawAmounts,   \* amounts users ask for
    RelayerDeclines,   \* the relayer may answer Accepted=false without an error
    OperatorCancels,   \* the cancel endpoint is in use
    MaxWithdrawals,    \* bound on the withdraw_request sequence
    MaxBatches,        \* bound on batches built by one process
    MaxFaults,         \* bound on failing database calls and confirmation timeouts
    MaxRestarts        \* bound on process restarts

ASSUME SettlementAssumption ==
    /\ WithdrawAmounts \subseteq Nat \ {0}
    /\ {RelayerDeclines, OperatorCancels} \subseteq BOOLEAN
    /\ {MaxWithdrawals, MaxBatches, MaxFaults, MaxRestarts} \subseteq Nat
    /\ IsFiniteSet(Drivers)

Root == {GenesisRoot} \cup [hash : SUBSET (Accounts \X Account)]

\* A row of offchain_state_cursors.
Cursor == [committed : Root, pending : Root, last : Nat]

ASSUME NoCursorAssumption == NoCursor \notin Cursor

VARIABLES
    (* process memory *)
    ls,         \* OffchainStateManager.ls
    batchSeq,   \* SettlementUpdateBuilder.seq
    handler,    \* per handler: program counter and locals
    driver,     \* per driver: program counter and locals
    (* database *)
    rows,       \* the pending-operation rows, see SettlementStore
    cursor,     \* the offchain_state_cursors row
    wdSeq,      \* last withdraw id handed out by the database sequence
    requests,   \* withdraw_requests: ids saved
    records,    \* indexed_withdraw_records: ids saved as ready to claim
    (* chain *)
    txs,        \* submitted batches: [batch, status]
    chain,      \* the zkdex module
    (* environment *)
    faults, restarts

memory == <<ls, batchSeq, handler, driver>>
database == <<rows, cursor, wdSeq, requests, records>>
vars == <<memory, database, txs, chain, faults, restarts>>

-----------------------------------------------------------------------------
(* Rows and locals *)

\* The transition a handler starts to fill in from its "before" snapshot; a
\* deposit has nonce 0, which no withdrawal has.
NewRow(kind, id, acct, amount, nonce) ==
    [kind |-> kind, id |-> id, acct |-> acct, amount |-> amount,
     nonce |-> nonce, nullifier |-> NullifierFor(DefaultSecret, nonce),
     rootBefore |-> ls.root, rootAfter |-> ls.root,
     balanceBefore |-> ls.accounts[acct].balance,
     balanceAfter |-> ls.accounts[acct].balance,
     status |-> "pending", batch |-> NoBatch]

NoRow == [kind |-> "none"]

IdleHandler == [pc |-> "idle", row |-> NoRow, pendingRoot |-> GenesisRoot, seen |-> NoCursor]

NoBatchBuilt == [id |-> NoBatch, old |-> GenesisRoot, new |-> GenesisRoot, ops |-> <<>>]

IdleDriver == [pc |-> "idle", seen |-> NoCursor, pending |-> <<>>,
               batch |-> NoBatchBuilt, tx |-> 0]

BatchKeys(batch) == {Key(batch.ops[i]) : i \in DOMAIN batch.ops}

BatchIds(batch, kind) ==
    {batch.ops[i].id : i \in {j \in DOMAIN batch.ops : batch.ops[j].kind = kind}}

-----------------------------------------------------------------------------
(* The chain (external): what the code relies on of MsgSubmitBatchProof *)

ChainRoot == Last(chain.roots)

ChainAccepts(batch) ==
    /\ batch.old = ChainRoot
    /\ BatchIds(batch, "deposit") \cap chain.deposits = {}
    /\ \A i \in DOMAIN batch.ops :
          batch.ops[i].kind = "withdrawal" => batch.ops[i].nullifier \notin chain.nullifiers

\* chain.ledger is history: the accounts as the settled operations make them.
SettleOp(ledger, op) ==
    IF op.kind = "deposit" THEN Credit(ledger, op.acct, op.amount)
                           ELSE Debit(ledger, op.acct, op.amount)

ChainAfter(batch) ==
    [roots      |-> Append(chain.roots, batch.new),
     deposits   |-> chain.deposits \cup BatchIds(batch, "deposit"),
     nullifiers |-> chain.nullifiers \cup
                      {batch.ops[i].nullifier :
                         i \in {j \in DOMAIN batch.ops : batch.ops[j].kind = "withdrawal"}},
     ledger     |-> FoldLeft(SettleOp, chain.ledger, batch.ops)]

-----------------------------------------------------------------------------
Init ==
    /\ ls = NewLocalState
    /\ batchSeq = 0
    /\ handler = [h \in Handlers |-> IdleHandler]
    /\ driver = [d \in Drivers |-> IdleDriver]
    /\ rows = <<>>
    /\ cursor = NoCursor
    /\ wdSeq = 0
    /\ requests = {}
    /\ records = {}
    /\ txs = <<>>
    /\ chain = [roots |-> <<GenesisRoot>>, deposits |-> {}, nullifiers |-> {},
                ledger |-> NewLocalState.accounts]
    /\ faults = 0
    /\ restarts = 0

-----------------------------------------------------------------------------
(* Request handlers *)

GotoHandler(h, pc) == handler' = [handler EXCEPT ![h].pc = pc]

EndHandler(h) == handler' = [handler EXCEPT ![h] = IdleHandler]

\* The "before" snapshot, and the lookup of the cursor row.
StartOperation(h, row) ==
    handler' = [handler EXCEPT ![h] =
        [IdleHandler EXCEPT !.pc = IF cursor = NoCursor THEN "initCursor" ELSE "apply",
                            !.row = row]]

\* ApplyIndexedDeposit, for an event that may have been delivered before.
ReceiveDeposit(h, d) ==
    /\ handler[h].pc = "idle"
    /\ StartOperation(h, NewRow("deposit", d, DepositRecord[d].acct, DepositRecord[d].amount, 0))
    /\ UNCHANGED <<ls, batchSeq, driver, database, txs, chain, faults, restarts>>

\* Mutant: the id is read from the sequence but the sequence does not move.
ReceiveWithdrawPeekingId(h, a, amount) ==
    /\ handler[h].pc = "idle"
    /\ CanBuildWithdrawRequest(ls, a, amount)
    /\ LET req == BuildWithdrawRequest(ls, a, amount, wdSeq + 1)
       IN  StartOperation(h, NewRow("withdrawal", req.id, req.acct, req.amount, req.nonce))
    /\ UNCHANGED <<ls, batchSeq, driver, database, txs, chain, faults, restarts>>

\* CreateWithdrawRequest: take an id, build the request, enter
\* ApplyWithdrawRequest.  The id is spent even when the balance is too small.
ReceiveWithdraw(h, a, amount) ==
    /\ handler[h].pc = "idle"
    /\ wdSeq < MaxWithdrawals
    /\ wdSeq' = wdSeq + 1
    /\ IF CanBuildWithdrawRequest(ls, a, amount)
       THEN LET req == BuildWithdrawRequest(ls, a, amount, wdSeq + 1)
            IN  StartOperation(h, NewRow("withdrawal", req.id, req.acct, req.amount, req.nonce))
       ELSE UNCHANGED handler
    /\ UNCHANGED <<ls, batchSeq, driver, rows, cursor, requests, records,
                   txs, chain, faults, restarts>>

\* getOrInitCursorWithRoot, when the lookup found no row.
HandlerInitCursor(h) ==
    /\ handler[h].pc = "initCursor"
    /\ cursor' = InitialCursor(handler[h].row.rootBefore)
    /\ GotoHandler(h, "apply")
    /\ UNCHANGED <<ls, batchSeq, driver, rows, wdSeq, requests, records,
                   txs, chain, faults, restarts>>

CanApply(row) ==
    IF row.kind = "deposit" THEN CanApplyDeposit(ls, row.id)
                            ELSE CanApplyWithdrawal(ls, row, row.nullifier)

\* manager.ApplyDeposit / manager.ApplyWithdrawRequest.
ApplyOperation(h) ==
    LET row == handler[h].row IN
    /\ handler[h].pc = "apply"
    /\ CanApply(row)
    /\ ls' = IF row.kind = "deposit" THEN ApplyDeposit(ls, row.id)
                                     ELSE ApplyWithdrawal(ls, row, row.nullifier)
    /\ handler' = [handler EXCEPT ![h].pc = "snapshot", ![h].row.rootAfter = ls'.root]
    /\ UNCHANGED <<batchSeq, driver, database, txs, chain, faults, restarts>>

\* Mutant: "already applied" is taken for success and the row saved again.
RefuseOperationButSave(h) ==
    /\ handler[h].pc = "apply"
    /\ ~CanApply(handler[h].row)
    /\ GotoHandler(h, "snapshot")
    /\ UNCHANGED <<ls, batchSeq, driver, database, txs, chain, faults, restarts>>

\* The manager refuses: the request ends with an error.
RefuseOperation(h) ==
    /\ handler[h].pc = "apply"
    /\ ~CanApply(handler[h].row)
    /\ EndHandler(h)
    /\ UNCHANGED <<ls, batchSeq, driver, database, txs, chain, faults, restarts>>

\* Mutant: the pending root is that of the snapshot taken before.
SnapshotBefore(h) ==
    /\ handler[h].pc = "snapshot"
    /\ handler' = [handler EXCEPT
          ![h].pc = "save",
          ![h].row.balanceAfter = ls.accounts[handler[h].row.acct].balance,
          ![h].pendingRoot = handler[h].row.rootBefore]
    /\ UNCHANGED <<ls, batchSeq, driver, database, txs, chain, faults, restarts>>

\* The "after" snapshot: whatever the manager holds by now.
SnapshotAfter(h) ==
    /\ handler[h].pc = "snapshot"
    /\ handler' = [handler EXCEPT
          ![h].pc = "save",
          ![h].row.balanceAfter = ls.accounts[handler[h].row.acct].balance,
          ![h].pendingRoot = ls.root]
    /\ UNCHANGED <<ls, batchSeq, driver, database, txs, chain, faults, restarts>>

\* SavePendingDeposit / SavePendingWithdrawal.
SaveOperation(h) ==
    /\ handler[h].pc = "save"
    /\ ~NullifierTaken(rows, handler[h].row)
    /\ rows' = SavePending(rows, handler[h].row)
    /\ GotoHandler(h, "readCursor")
    /\ UNCHANGED <<ls, batchSeq, driver, cursor, wdSeq, requests, records,
                   txs, chain, faults, restarts>>

\* The unique index on the nullifier refuses the insert.
CollideOnSave(h) ==
    /\ handler[h].pc = "save"
    /\ NullifierTaken(rows, handler[h].row)
    /\ EndHandler(h)
    /\ UNCHANGED <<ls, batchSeq, driver, database, txs, chain, faults, restarts>>

\* updatePendingRoot reads the cursor row ...
ReadCursor(h) ==
    /\ handler[h].pc = "readCursor"
    /\ handler' = [handler EXCEPT ![h].pc = "writeCursor", ![h].seen = cursor]
    /\ UNCHANGED <<ls, batchSeq, driver, database, txs, chain, faults, restarts>>

\* ... and writes it back whole with another pending root.
WritePendingRoot(h) ==
    /\ handler[h].pc = "writeCursor"
    /\ cursor' = [handler[h].seen EXCEPT !.pending = handler[h].pendingRoot]
    /\ IF handler[h].row.kind = "deposit" THEN EndHandler(h) ELSE GotoHandler(h, "request")
    /\ UNCHANGED <<ls, batchSeq, driver, rows, wdSeq, requests, records,
                   txs, chain, faults, restarts>>

\* SaveWithdrawRequest, once the withdrawal has been applied and recorded.
SaveWithdrawRequest(h) ==
    /\ handler[h].pc = "request"
    /\ requests' = requests \cup {handler[h].row.id}
    /\ EndHandler(h)
    /\ UNCHANGED <<ls, batchSeq, driver, rows, cursor, wdSeq, records,
                   txs, chain, faults, restarts>>

\* A database call of the handler fails: an error to the caller.
HandlerFault(h) ==
    /\ handler[h].pc \in {"initCursor", "save", "readCursor", "writeCursor", "request"}
    /\ faults < MaxFaults
    /\ faults' = faults + 1
    /\ EndHandler(h)
    /\ UNCHANGED <<ls, batchSeq, driver, database, txs, chain, restarts>>

HandlerStep(h) ==
    \/ HandlerInitCursor(h)
    \/ ApplyOperation(h)
    \/ RefuseOperation(h)
    \/ SnapshotAfter(h)
    \/ SaveOperation(h)
    \/ CollideOnSave(h)
    \/ ReadCursor(h)
    \/ WritePendingRoot(h)
    \/ SaveWithdrawRequest(h)

-----------------------------------------------------------------------------
(* Settlement drivers: SettlementSequencer.SettleOnce *)

GotoDriver(d, pc) == driver' = [driver EXCEPT ![d].pc = pc]

EndPass(d) == driver' = [driver EXCEPT ![d] = IdleDriver]

\* BuildPendingBatch: getOrInitCursor with the manager's current root.
StartPass(d) ==
    /\ driver[d].pc = "idle"
    /\ batchSeq < MaxBatches
    /\ driver' = [driver EXCEPT ![d] =
          [IdleDriver EXCEPT !.pc = IF cursor = NoCursor THEN "initCursor" ELSE "deposits",
                             !.seen = IF cursor = NoCursor THEN InitialCursor(ls.root)
                                                           ELSE cursor]]
    /\ UNCHANGED <<ls, batchSeq, handler, database, txs, chain, faults, restarts>>

DriverInitCursor(d) ==
    /\ driver[d].pc = "initCursor"
    /\ cursor' = driver[d].seen
    /\ GotoDriver(d, "deposits")
    /\ UNCHANGED <<ls, batchSeq, handler, rows, wdSeq, requests, records,
                   txs, chain, faults, restarts>>

\* ListPendingSettlement is two queries, deposits first.
ListDeposits(d) ==
    /\ driver[d].pc = "deposits"
    /\ driver' = [driver EXCEPT ![d].pc = "build",
                                ![d].pending = ListPending(rows, "deposit")]
    /\ UNCHANGED <<ls, batchSeq, handler, database, txs, chain, faults, restarts>>

\* What the second query completes the pending list to, the root the walk
\* starts from, and the transitions the batch would settle.
PendingSeen(d) == driver[d].pending \o ListPending(rows, "withdrawal")

OldRoot(d) == driver[d].seen.committed

Transitions(d) == BoundSingleWithdrawalPrefix(OrderPending(OldRoot(d), PendingSeen(d)))

\* The pending list is empty, does not chain up from the committed root, or
\* is refused by the settlement builder.
CanBuild(d) ==
    /\ PendingSeen(d) # <<>>
    /\ CanOrder(OldRoot(d), PendingSeen(d))
    /\ CanSettle(OldRoot(d), Transitions(d))

BuildNothing(d) ==
    /\ driver[d].pc = "build"
    /\ ~CanBuild(d)
    /\ EndPass(d)
    /\ UNCHANGED <<ls, batchSeq, handler, database, txs, chain, faults, restarts>>

\* The witness builder refuses after the batch number is taken.
RefuseWitness(d) ==
    /\ driver[d].pc = "build"
    /\ CanBuild(d)
    /\ ~CanWitness(Transitions(d), DefaultSecret)
    /\ batchSeq' = batchSeq + 1
    /\ EndPass(d)
    /\ UNCHANGED <<ls, handler, database, txs, chain, faults, restarts>>

\* Mutant: the batch claims the manager's live root as its new root.
BuildBatchWithLiveRoot(d) ==
    /\ driver[d].pc = "build"
    /\ CanBuild(d)
    /\ CanWitness(Transitions(d), DefaultSecret)
    /\ batchSeq' = batchSeq + 1
    /\ driver' = [driver EXCEPT
          ![d].pc = "mark",
          ![d].pending = <<>>,
          ![d].batch = [id |-> batchSeq + 1, old |-> OldRoot(d),
                        new |-> ls.root, ops |-> Transitions(d)]]
    /\ UNCHANGED <<ls, handler, database, txs, chain, faults, restarts>>

BuildBatch(d) ==
    /\ driver[d].pc = "build"
    /\ CanBuild(d)
    /\ CanWitness(Transitions(d), DefaultSecret)
    /\ batchSeq' = batchSeq + 1
    /\ driver' = [driver EXCEPT
          ![d].pc = "mark",
          ![d].pending = <<>>,
          ![d].batch = [id |-> batchSeq + 1, old |-> OldRoot(d),
                        new |-> Last(Transitions(d)).rootAfter, ops |-> Transitions(d)]]
    /\ UNCHANGED <<ls, handler, database, txs, chain, faults, restarts>>

MarkBatchIncluded(d) ==
    /\ driver[d].pc = "mark"
    /\ rows' = MarkIncluded(rows, driver[d].batch.id, BatchKeys(driver[d].batch))
    /\ GotoDriver(d, "prove")
    /\ UNCHANGED <<ls, batchSeq, handler, cursor, wdSeq, requests, records,
                   txs, chain, faults, restarts>>

Prove(d) ==
    /\ driver[d].pc = "prove"
    /\ GotoDriver(d, "submit")
    /\ UNCHANGED <<ls, batchSeq, handler, database, txs, chain, faults, restarts>>

\* No proof comes back.
ProverFails(d) ==
    /\ driver[d].pc = "prove"
    /\ GotoDriver(d, "reopen")
    /\ UNCHANGED <<ls, batchSeq, handler, database, txs, chain, faults, restarts>>

\* The prover's bundle is for another key or does not bind to this batch.
GuardRefuses(d) ==
    /\ driver[d].pc = "submit"
    /\ GotoDriver(d, "reopen")
    /\ UNCHANGED <<ls, batchSeq, handler, database, txs, chain, faults, restarts>>

\* gazk reports the proof invalid, or cannot be asked.
VerifierRefuses(d) ==
    /\ driver[d].pc = "submit"
    /\ GotoDriver(d, "reopen")
    /\ UNCHANGED <<ls, batchSeq, handler, database, txs, chain, faults, restarts>>

\* The CLI or CheckTx refuses (a sequence mismatch after its retries): no tx
\* reaches the mempool.
SubmitFails(d) ==
    /\ driver[d].pc = "submit"
    /\ GotoDriver(d, "reopen")
    /\ UNCHANGED <<ls, batchSeq, handler, database, txs, chain, faults, restarts>>

\* Mutant: CheckTx is taken for acceptance.
BroadcastWithoutWait(d) ==
    /\ driver[d].pc = "submit"
    /\ txs' = Append(txs, [batch |-> driver[d].batch, status |-> "mempool"])
    /\ driver' = [driver EXCEPT ![d].pc = "record", ![d].tx = Len(txs) + 1]
    /\ UNCHANGED <<ls, batchSeq, handler, database, chain, faults, restarts>>

\* CosmosClient.SubmitBatch broadcasts and waits for the block.
Broadcast(d) ==
    /\ driver[d].pc = "submit"
    /\ txs' = Append(txs, [batch |-> driver[d].batch, status |-> "mempool"])
    /\ driver' = [driver EXCEPT ![d].pc = "wait", ![d].tx = Len(txs) + 1]
    /\ UNCHANGED <<ls, batchSeq, handler, database, chain, faults, restarts>>

\* Accepted=false without an error: FailBatch, then the sequencer's reopen.
Decline(d) ==
    /\ RelayerDeclines
    /\ driver[d].pc = "submit"
    /\ rows' = MarkByBatch(rows, driver[d].batch.id, "failed")
    /\ GotoDriver(d, "reopen")
    /\ UNCHANGED <<ls, batchSeq, handler, cursor, wdSeq, requests, records,
                   txs, chain, faults, restarts>>

\* Mutant: the code of the included tx is not looked at.
ConfirmAnyCode(d) ==
    /\ driver[d].pc = "wait"
    /\ txs[driver[d].tx].status # "mempool"
    /\ GotoDriver(d, "record")
    /\ UNCHANGED <<ls, batchSeq, handler, database, txs, chain, faults, restarts>>

\* Mutant: an included tx is reported as an error whatever its code.
ConfirmNever(d) ==
    /\ driver[d].pc = "wait"
    /\ txs[driver[d].tx].status # "mempool"
    /\ GotoDriver(d, "reopen")
    /\ UNCHANGED <<ls, batchSeq, handler, database, txs, chain, faults, restarts>>

\* waitForTxCommit finds the tx in a block, with code 0 or not.
Confirm(d) ==
    /\ driver[d].pc = "wait"
    /\ txs[driver[d].tx].status # "mempool"
    /\ GotoDriver(d, IF txs[driver[d].tx].status = "accepted" THEN "record" ELSE "reopen")
    /\ UNCHANGED <<ls, batchSeq, handler, database, txs, chain, faults, restarts>>

\* The poll budget runs out; the tx may be in a block by now or later.
ConfirmTimeout(d) ==
    /\ driver[d].pc = "wait"
    /\ faults < MaxFaults
    /\ faults' = faults + 1
    /\ GotoDriver(d, "reopen")
    /\ UNCHANGED <<ls, batchSeq, handler, database, txs, chain, restarts>>

\* SaveBatchSubmitResult upserts the withdraw records the relayer reports.
RecordResult(d) ==
    /\ driver[d].pc = "record"
    /\ records' = records \cup BatchIds(driver[d].batch, "withdrawal")
    /\ GotoDriver(d, "commit")
    /\ UNCHANGED <<ls, batchSeq, handler, rows, cursor, wdSeq, requests,
                   txs, chain, faults, restarts>>

\* CommitBatch: the rows ...
CommitRows(d) ==
    /\ driver[d].pc = "commit"
    /\ rows' = MarkByBatch(rows, driver[d].batch.id, "committed")
    /\ GotoDriver(d, "commitCursor")
    /\ UNCHANGED <<ls, batchSeq, handler, cursor, wdSeq, requests, records,
                   txs, chain, faults, restarts>>

\* Mutant: the cursor is committed at the manager's live root.
CommitCursorLive(d) ==
    /\ driver[d].pc = "commitCursor"
    /\ cursor' = [committed |-> ls.root, pending |-> ls.root, last |-> driver[d].batch.id]
    /\ EndPass(d)
    /\ UNCHANGED <<ls, batchSeq, handler, rows, wdSeq, requests, records,
                   txs, chain, faults, restarts>>

\* ... and then the cursor, all of whose columns are overwritten.
CommitCursor(d) ==
    /\ driver[d].pc = "commitCursor"
    /\ cursor' = [committed |-> driver[d].batch.new, pending |-> driver[d].batch.new,
                  last |-> driver[d].batch.id]
    /\ EndPass(d)
    /\ UNCHANGED <<ls, batchSeq, handler, rows, wdSeq, requests, records,
                   txs, chain, faults, restarts>>

\* Mutant: a failed batch is only logged.
ReopenNothing(d) ==
    /\ driver[d].pc = "reopen"
    /\ EndPass(d)
    /\ UNCHANGED <<ls, batchSeq, handler, database, txs, chain, faults, restarts>>

\* SettlementSequencer.reopen: an error is logged and the pass ends.
Reopen(d) ==
    /\ driver[d].pc = "reopen"
    /\ rows' = IF CanReopen(rows, driver[d].batch.id)
               THEN ReopenIncluded(rows, driver[d].batch.id) ELSE rows
    /\ EndPass(d)
    /\ UNCHANGED <<ls, batchSeq, handler, cursor, wdSeq, requests, records,
                   txs, chain, faults, restarts>>

\* A database call of the driver fails.  Before the submit the pass ends; after
\* it SubmitBatch returns the error and the sequencer reopens the batch.
DriverFault(d) ==
    /\ driver[d].pc \in {"initCursor", "deposits", "build", "mark",
                         "commit", "commitCursor", "reopen"}
    /\ faults < MaxFaults
    /\ faults' = faults + 1
    /\ IF driver[d].pc \in {"commit", "commitCursor"} THEN GotoDriver(d, "reopen") ELSE EndPass(d)
    /\ UNCHANGED <<ls, batchSeq, handler, database, txs, chain, restarts>>

BuildStep(d) == BuildNothing(d) \/ RefuseWitness(d) \/ BuildBatch(d)

PassStep(d) ==
    \/ StartPass(d)
    \/ DriverInitCursor(d)
    \/ ListDeposits(d)
    \/ MarkBatchIncluded(d)
    \/ Prove(d)
    \/ ProverFails(d)
    \/ GuardRefuses(d)
    \/ VerifierRefuses(d)
    \/ SubmitFails(d)
    \/ Broadcast(d)
    \/ Decline(d)
    \/ Confirm(d)
    \/ RecordResult(d)
    \/ CommitRows(d)
    \/ CommitCursor(d)
    \/ Reopen(d)

-----------------------------------------------------------------------------
(* Operator, chain and process *)

\* POST .../batches/{batchId}/cancel.
CancelBatch(batchID) ==
    /\ OperatorCancels
    /\ CanReopen(rows, batchID)
    /\ rows' = ReopenIncluded(rows, batchID)
    /\ UNCHANGED <<memory, cursor, wdSeq, requests, records, txs, chain, faults, restarts>>

\* A block executes a submitted tx.
Deliver(i) ==
    /\ txs[i].status = "mempool"
    /\ IF ChainAccepts(txs[i].batch)
       THEN /\ txs' = [txs EXCEPT ![i].status = "accepted"]
            /\ chain' = ChainAfter(txs[i].batch)
       ELSE /\ txs' = [txs EXCEPT ![i].status = "rejected"]
            /\ UNCHANGED chain
    /\ UNCHANGED <<memory, database, faults, restarts>>

\* RehydrateFromStore: pending deposits, then pending withdrawals, skipping
\* whatever the manager refuses.
ReplayRow(state, row) ==
    IF row.kind = "deposit"
    THEN IF CanApplyDeposit(state, row.id) THEN ApplyDeposit(state, row.id) ELSE state
    ELSE IF CanApplyWithdrawal(state, row, row.nullifier)
         THEN ApplyWithdrawal(state, row, row.nullifier) ELSE state

RehydrateFromStore ==
    FoldLeft(ReplayRow, NewLocalState,
             ListPending(rows, "deposit") \o ListPending(rows, "withdrawal"))

\* The process dies at any point and starts again.
Restart ==
    /\ restarts < MaxRestarts
    /\ restarts' = restarts + 1
    /\ ls' = RehydrateFromStore
    /\ batchSeq' = 0
    /\ handler' = [h \in Handlers |-> IdleHandler]
    /\ driver' = [d \in Drivers |-> IdleDriver]
    /\ UNCHANGED <<database, txs, chain, faults>>

\* The same with a database that fails one of the two queries: the error is
\* logged and the process serves from the genesis state.
RestartBlind ==
    /\ restarts < MaxRestarts
    /\ faults < MaxFaults
    /\ restarts' = restarts + 1
    /\ faults' = faults + 1
    /\ ls' = NewLocalState
    /\ batchSeq' = 0
    /\ handler' = [h \in Handlers |-> IdleHandler]
    /\ driver' = [d \in Drivers |-> IdleDriver]
    /\ UNCHANGED <<database, txs, chain>>

Next ==
    \/ \E h \in Handlers :
          \/ \E d \in Deposits : ReceiveDeposit(h, d)
          \/ \E a \in Accounts, amount \in WithdrawAmounts : ReceiveWithdraw(h, a, amount)
          \/ HandlerStep(h)
          \/ HandlerFault(h)
    \/ \E d \in Drivers : PassStep(d) \/ BuildStep(d) \/ ConfirmTimeout(d) \/ DriverFault(d)
    \/ \E batchID \in 1..MaxBatches : CancelBatch(batchID)
    \/ \E i \in DOMAIN txs : Deliver(i)
    \/ Restart
    \/ RestartBlind

Spec == Init /\ [][Next]_vars

\* The sequencer keeps ticking, a handler runs to its end and blocks keep
\* coming.  Nothing is assumed of users, faults or restarts.  One outcome of
\* the build is enabled whenever a driver is at "build", so that it leaves it is
\* weak fairness of BuildStep.
Fairness ==
    /\ \A h \in Handlers : WF_vars(HandlerStep(h))
    /\ \A d \in Drivers : WF_vars(PassStep(d)) /\ []<>(driver[d].pc # "build")
    /\ WF_vars(\E i \in DOMAIN txs : Deliver(i))

FairSpec == Spec /\ Fairness

-----------------------------------------------------------------------------
(* Properties *)

Row == [kind : {"deposit", "withdrawal"}, id : Deposits \cup Nat, acct : Accounts,
        amount : Nat, nonce : Nat, nullifier : [secret : {DefaultSecret}, nonce : Nat],
        rootBefore : Root, rootAfter : Root, balanceBefore : Nat, balanceAfter : Nat,
        status : Status, batch : Nat]

HandlerPC == {"idle", "initCursor", "apply", "snapshot", "save", "readCursor",
              "writeCursor", "request"}

DriverPC == {"idle", "initCursor", "deposits", "build", "mark", "prove", "submit",
             "wait", "record", "commit", "commitCursor", "reopen"}

\* Every variable stays in its type; in particular the manager's balances and
\* the balances a row records stay natural numbers.
TypeOK ==
    /\ ls.accounts \in [Accounts -> Account]
    /\ ls.root \in Root
    /\ ls.appliedDeposits \subseteq Deposits
    /\ batchSeq \in 0..MaxBatches + Cardinality(Drivers)
    /\ \A h \in Handlers :
          /\ handler[h].pc \in HandlerPC
          /\ handler[h].pc # "idle" => handler[h].row \in Row
          /\ handler[h].pc = "writeCursor" => handler[h].seen \in Cursor
    /\ \A d \in Drivers :
          /\ driver[d].pc \in DriverPC
          /\ driver[d].pc # "idle" => driver[d].seen \in Cursor
          /\ driver[d].tx \in 0..Len(txs)
    /\ \A i \in DOMAIN rows : rows[i] \in Row
    /\ cursor = NoCursor \/ cursor \in Cursor
    /\ wdSeq \in 0..MaxWithdrawals
    /\ requests \cup records \subseteq 1..wdSeq
    /\ \A i \in DOMAIN txs : txs[i].status \in {"mempool", "accepted", "rejected"}

\* What the chain has settled, told by id and by nullifier.
SettledOn(row) ==
    IF row.kind = "deposit" THEN row.id \in chain.deposits
                            ELSE row.nullifier \in chain.nullifiers

RowsWith(status) == {rows[i] : i \in {j \in DOMAIN rows : rows[j].status = status}}

\* The root the chain holds is the root of exactly the operations it settled:
\* BuildPendingBatch never lets a batch's newStateRoot carry the effect of an
\* operation that is not in the batch, although rows are recorded after the
\* manager has moved on.
SettledRootExact ==
    ChainRoot = IF Len(chain.roots) = 1 THEN GenesisRoot ELSE ComputeRoot(chain.ledger)

\* A row is marked committed only when the chain has settled its operation
\* (CommitBatch runs for the batch the chain accepted and no other).
CommittedAccepted == \A row \in RowsWith("committed") : SettledOn(row)

\* The cursor's committed_root is a root the chain has held: neither a stale
\* handler nor an abandoned batch puts another one there.
CommittedRootOnChain == cursor # NoCursor => cursor.committed \in Range(chain.roots)

\* A withdraw record is offered for claim only for a withdrawal that the chain
\* has settled.
RecordsSettled ==
    \A w \in records : \E i \in DOMAIN rows : Key(rows[i]) = <<"withdrawal", w>> /\ SettledOn(rows[i])

\* A row the sequencer returns to the queue is not one the chain has settled,
\* so the retry does not repeat what was already done.
ReopenedNotSettled == \A row \in RowsWith("pending") : ~SettledOn(row)

\* An insert never trips the unique index on the nullifier: the nonces handed
\* out are never those of a withdrawal already recorded.
SaveNeverCollides ==
    \A h \in Handlers : handler[h].pc = "save" => ~NullifierTaken(rows, handler[h].row)

\* Every submitted batch fits its witness: the transitions chain from
\* oldStateRoot to newStateRoot, and the one nonce the witness carries for an
\* owner re-derives the nullifier of every withdrawal of that owner, whatever
\* operations were pending together (boundSingleWithdrawalPrefix, lastNonce of
\* witness.go).  A batch without a withdrawal fits too; see OneWithdrawalEach.
BatchesFitWitness ==
    \A i \in DOMAIN txs :
        LET ops == txs[i].batch.ops IN
        /\ ops[1].rootBefore = txs[i].batch.old
        /\ \A j \in 2..Len(ops) : ops[j].rootBefore = ops[j - 1].rootAfter
        /\ Last(ops).rootAfter = txs[i].batch.new
        /\ \A j \in DOMAIN ops :
              ops[j].kind = "withdrawal"
                => ops[j].nullifier =
                     NullifierFor(DefaultSecret, WitnessNonce(ops, ops[j].acct[1]))

\* A committed row stays committed: no reopen, cancel, rebuild or late failure
\* takes a settled operation back into the queue.
CommittedKeys == {Key(row) : row \in RowsWith("committed")}

CommittedFinal == [][CommittedKeys \subseteq CommittedKeys']_rows

\* Every operation marked included leaves that state - committed, failed or
\* reopened - so again and again no row is included.
IncludedResolved == []<>(RowsWith("included") = {})

\* "Submit accepted -> pending operations marked committed": the operations of
\* every batch the chain accepted end up committed.
AcceptedKeys ==
    UNION {BatchKeys(txs[i].batch) : i \in {j \in DOMAIN txs : txs[j].status = "accepted"}}

AcceptedEventuallyCommitted == []<>(AcceptedKeys \subseteq CommittedKeys)

\* "committed_root = latest root accepted by chain", looked at when nothing is
\* in flight.
AtRest == /\ \A h \in Handlers : handler[h].pc = "idle"
          /\ \A d \in Drivers : driver[d].pc = "idle"

CommittedRootCurrent == AtRest /\ cursor # NoCursor => cursor.committed = ChainRoot

\* "Remaining pending operations drain in subsequent sequencer passes": when
\* nothing is in flight and the cursor is current, the rows still pending form
\* one chain from the committed root, and the settlement and witness builders
\* take the prefix of it that the next pass would settle.  (Rows of a batch that
\* the relayer declined or a crash interrupted are a known gap in that chain.)
PendingRows == ListPending(rows, "deposit") \o ListPending(rows, "withdrawal")

NextTransitions == BoundSingleWithdrawalPrefix(OrderPending(ChainRoot, PendingRows))

PendingBuildable ==
    /\ AtRest
    /\ cursor # NoCursor
    /\ cursor.committed = ChainRoot
    /\ RowsWith("failed") \cup RowsWith("included") = {}
    /\ PendingRows # <<>>
    => /\ CanOrder(ChainRoot, PendingRows)
       /\ CanSettle(ChainRoot, NextTransitions)
       /\ CanWitness(NextTransitions, DefaultSecret)

\* When nothing is in flight the cursor's pending_root is the manager's root, or
\* the committed root when a batch was committed after the last operation was
\* recorded: no interleaving of the read and write of the cursor row with a
\* commit leaves a root there that neither side holds.
PendingRootKnown ==
    AtRest /\ cursor # NoCursor => cursor.pending \in {ls.root, cursor.committed}

\* What settlement promises (SettlementLedger): rows are the log, in the order
\* in which they were recorded, and the chain settles them in that order.
Ledger == INSTANCE SettlementLedger WITH
    Operations   <- {"deposit"} \X Deposits \cup {"withdrawal"} \X (1..MaxWithdrawals),
    log          <- [i \in DOMAIN rows |-> Key(rows[i])],
    settled      <- {Key(rows[i]) : i \in {j \in DOMAIN rows : SettledOn(rows[j])}},
    acknowledged <- CommittedKeys

\* The row-by-row, call-by-call settlement of the code implements the ledger:
\* no operation is settled before one recorded earlier, none twice, no batch has
\* two withdrawals, and CommitBatch acknowledges exactly what was settled before
\* the next batch is.
ImplementsLedger == Ledger!Spec

\* Said in the documents and not true of the code (README, "Disagreements"):
\* "pending_root = committed_root + indexed deposits + requested withdrawals",
\* looked at when nothing is in flight.
PendingRootFull == AtRest /\ cursor # NoCursor => cursor.pending = ls.root

\* "proves exactly ONE withdrawal per batch": the bound is an upper one, and a
\* queue of deposits is submitted as a batch with no withdrawal.
OneWithdrawalEach ==
    \A i \in DOMAIN txs :
        Cardinality({j \in DOMAIN txs[i].batch.ops :
                       txs[i].batch.ops[j].kind = "withdrawal"}) = 1
=============================================================================
