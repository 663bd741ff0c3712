# Verification of the GANC backend in TLA+

The repository is the Go backend of a ZK settlement system. Users deposit on a
Cosmos chain (module `zkdex`), the backend mirrors deposits into an off-chain
state, users ask for withdrawals against it, and an operator batches the pending
operations, has them proved and submits them to the chain, which advances its
state root. Settled withdrawals are then claimed.

The TLA+ modules here model the state-changing parts of that backend, TLC
checks them on small instances, and TLAPS proves the invariants, the action
properties and the refinement that the passing runs check, for every instance that
meets the hypotheses below; liveness is checked by TLC only. `PROJECT.json` has the tables: components, runs, the lines each
definition translates, findings, hazards and theorems.

## Inventory

| Part | State | Operations | Module |
| --- | --- | --- | --- |
| `internal/state` local state | accounts (balance, nonce), root, applied deposits, used nullifiers | `ApplyDeposit`, `BuildWithdrawRequest`, `ApplyWithdrawal` | `LocalState` |
| `internal/state/offchain_manager.go`, rollback in `batch_service.go` | the live state, the committed baseline | apply, build, snapshot, rollback, submit in manual mode | `OffchainManager` |
| `offchain_settlement_repository.go`, migration 003 | rows of pending operations with status and batch id, the cursor row | save, list, mark included/committed/failed, reopen, cursor upsert | `SettlementStore` |
| `BuildPendingBatch` helpers, `internal/batch` builders | none | order by root chain, bound to one withdrawal, settlement and witness checks | `PendingBatch` |
| settlement service, withdraw API, sequencer, relayer submit, cancel endpoint, start-up | all of the above, per-request and per-pass locals, batch counter, withdraw requests and records, the chain | one action per critical section or database call | `Settlement` |
| deposit poller, event source, deposit API | chain blocks, poll cursor, dashboard balances, applied and recorded deposits | poll, index, API deposit, restart | `DepositIndexing` |
| claim API, withdraw records | memory store, database, claim requests, the chain's records | record, save, claim step by step, restart | `WithdrawClaims` |
| commitments, public inputs, proof gate, local relayer's check | none | hash a batch, list the six inputs, compare | `BatchContract` |
| manual mode: both builders, prover clients, submit, wiring | batch counter, memory store, what clients hold, the chain | build, prove, submit, claim, in any order | `ManualMode` |
| chain queries other than the deposit lookup, HTTP layer, test vectors | none | pass-through, encoding | not modelled |

Interaction. Deposit indexer and withdraw API apply an operation to the shared
in-memory manager under its mutex and then write the pending row and the cursor,
one database call at a time, without a lock over the sequence. The settlement
sequencer (or `scripts/settle_loop.sh`, over HTTP) lists the pending rows, builds
a batch, marks its rows included, asks the prover, submits through the relayer
CLI and waits for a block, and then commits or reopens the rows. The database
outlives the process; the manager and the batch counter do not and are rebuilt
from pending rows at start-up. The chain is asynchronous.

What is hard. Handlers interleave between the snapshots that fill in a row and
between reading and writing the cursor; a confirmation can time out and the
transaction still be included; the process can die between two database calls
or between the chain's acceptance and its record; deposits are delivered twice
(poller and API, rescans); claims race each other and the save of the record.
The `hazards` list has each at its line.

What makes each part correct:

- manager: no overdraft, nullifiers exactly those of the withdrawals in the
  state, funds conserved through rollbacks;
- settlement: the chain settles only roots that describe the batch's operations;
  committed rows, the committed root and withdraw records follow the chain; the
  queue keeps chaining from the committed root; every batch is resolved;
- indexing: no deposit is lost, none is counted twice;
- claims: a paid record is claimed, a claimed record is paid or was asked to be,
  it stays claimed, one claim succeeds;
- manual mode: whatever clients build, prove and submit in whatever order, a batch
  is settled with a proof of its own content and on the state it was built from,
  and no account is offered more than it deposited; with a chain it is not paid more
  either, however often its batches are submitted and its records claimed.

## Modules and correspondence

**LocalState** is operators only, over a record `[accounts, root,
appliedDeposits, appliedNullifiers]`. An account is an `<<owner, denom>>` pair
(`accountKey`). `ComputeRoot` is an injective hash of the set of non-zero account
snapshots, and the genesis root is a value of its own, as in the code, where it
is a literal. A nullifier is `[secret, nonce]`: `NullifierFor` hashes these two
and not the account. Amount parsing and other format checks are left out: the
inputs are amounts that pass them.

**OffchainManager**: `ls` is the manager's state, `committedSnapshot` the
baseline of the batch service. `BuildRequest` and `ApplyRequest` are two critical
sections, so requests go stale. `SubmitBatch` commits the baseline or rolls back
to it, by outcome.

**SettlementStore**: `rows` is a sequence in the order of the tables'
`created_at`; a row has a key `<<kind, id>>`, its transition (roots, balances,
nonce, nullifier), status and batch. One operator per SQL statement.

**PendingBatch**: `OrderPending` walks the rows from the committed root by
`rootBefore`; `BoundSingleWithdrawalPrefix` ends at the first withdrawal;
`CanSettle` and `CanWitness` are the checks of the settlement and witness
builders. Recursion is a recursive function and sums are folds, here and in the
other modules, so that proofs can use them.

**Settlement** composes these. A handler's program counter goes idle →
(initCursor) → apply → snapshot → save → readCursor → writeCursor → (request);
a driver's goes idle → (initCursor) → deposits → build → mark → prove → submit →
wait → record → commit → commitCursor, with reopen on failures. Each step is one
critical section of the manager or one database call; the module's header says
which steps join two and why no interleaving is lost. `Deliver` is the chain:
it accepts a batch whose `old` root is its own and whose deposits and nullifiers
are new, which is what the code relies on. `chain.ledger` is history: the
accounts as the settled operations make them. `Restart` forgets memory at any
point and replays pending rows; `RestartBlind` is a start whose replay fails,
which the code only logs.

`Decline` is the `Accepted=false` answer without an error that the `relayer.Client`
interface allows and `SubmitBatch` handles; the relayers in the repository report
rejections as errors, which is `SubmitFails` and `Confirm`; `GuardRefuses` and
`VerifierRefuses` are the proof gate before the relayer. A database error in
`SaveBatchBuild`, `SaveProofBundle` or `SaveBatchSubmitResult` panics: in the
sequencer's goroutine it ends the process, which is `Restart` at that point.

**SettlementLedger** is what settlement promises, without batches, roots or rows:
a log of accepted operations that the chain settles in order, a stretch at a time,
each stretch acknowledged before the next one is settled. See *Refinement*.

**BatchContract** is operators only: the four commitments of a settlement update,
each an injective hash under its domain tag; the six public inputs, which the code
lists in three places (`public_inputs.go`, `prover/client.go`, `relayer/client.go`)
and so does the module; the proof a prover returns, with the key id of its circuit;
`GuardProofContract` and the local relayer's `ValidatePublicInputs`.

**ManualMode** composes `LocalState` and `BatchContract` for
`BATCH_BUILD_SOURCE=manual`, where HTTP clients choose what is in a batch and call
build, prove and submit themselves. `wiring` is the choice `cmd/api/main.go` makes
from the environment: builder, off-chain state, remote prover (with the proof
gate) and chain. `BuildBatch` is both builders, which differ in the state they
start from, the old root they report and the old balances (`BuilderState`,
`OldStateRoot`, `OldBalance`). Clients keep every batch and every proof they were
given and may submit any pair. A submit is two steps: `RelayerAccepts`, and then
`SubmitAnswered` or, when the confirmation times out, `SubmitUnconfirmed`; a
refusal anywhere before that is `SubmitRefused`. Left to other modules:
interleavings inside the off-chain handlers and `Accepted=false` (`Settlement`,
`OffchainManager`), inside a claim (`WithdrawClaims`), the poller
(`DepositIndexing`). Left out: the start-up preflight of the prover's artifact,
running without a pinned key id, and restarts. `AccountSecrets` is never filled in
by the service, so every owner has the mock secret. One `GenesisRoot` stands for the
literal `0xrootA` of the manual builds (`batch_service.go:253`), for
`OFFCHAIN_GENESIS_ROOT` and for the chain's first root, which `cmd/api/main.go:46` says
to set alike; where the one a builder starts from is not the chain's first root, the
chain refuses every batch. Clients send a batch with the
commitments they were given for it.

**DepositIndexing**: blocks of transactions; the poll cursor, the page fetched
and its queue; the API path. `ApplyIndexedDeposit` is one step here, since
`Settlement` has its steps. `Restart` leaves the manager with any subset of the
recorded deposits, because which rows are pending depends on settlement.

**WithdrawClaims**: a record is `none`, `ready` or `claimed` in the memory store,
in the database and on the chain. A claim is broadcast in sync mode, so
`DeliverClaim` or `DropClaim` decides later; `lost` remembers that a claim was
dropped. `Postgres` and `ChainRelayer` select the wiring.

### Refinement

`Settlement!ImplementsLedger` is `SettlementLedger!Spec` under the mapping: the log
is the sequence of rows, settled are the rows whose deposit or nullifier the chain
has, acknowledged are the committed rows. TLC checks it in the run `settlement`,
that is for one request handler, one driver and no failures. It says that nothing is
settled out of order or twice, that a batch has one withdrawal at most, as its last
operation, and that `CommitBatch` acknowledges exactly what was settled before the
next batch is (so the formulas `CommittedAccepted` and `CommittedFinal` follow from
it there; with failures they are checked on their own). `LedgerTheorem` proves it
under the same conditions for any number of operations and batches. With two handlers, two drivers
or a restart the ledger is not implemented: the disagreements below are why.

## Runs

Passing runs:

- `offchain_manager`: three accounts, two of which share a secret, two handlers,
  three deposits. Exhaustive; no bound but the deposits.
- `settlement`: one handler, one driver, two deposits, two withdrawals, three
  batches. The settled root, the cursor's roots, the nonces, the batches and the
  queue, the refinement, and the liveness properties under fairness. The queue is
  `PendingBuildable`: whatever was settled or reopened, the next pass can order, settle
  and witness what is pending. States with failed rows are excluded: those of a batch
  the relayer declined are a gap in the chain of roots that nothing closes.
  `BatchesFitWitness`: the one nonce a witness carries for an owner derives the
  nullifier of every withdrawal of that owner, which is what two withdrawals in one
  batch broke. A batch without a withdrawal fits as well (see below).
- `settlement_faults`: two database failures or confirmation timeouts at any
  point, and the cancel endpoint.
- `settlement_restart`: a crash at any step, with the replay working or not.
- `settlement_concurrent`: two handlers, and sequencer and `settle_loop.sh`
  together, which `cmd/api/main.go` says must not be. What still holds is checked:
  committed rows and committed root follow the chain. `SettledRootExact` is not in it: `vio_concurrent_root` shows that it fails.
  Handlers and drivers are symmetric; the run checks invariants only, so the
  reduction is sound.
- `deposit_indexing`: three transactions in blocks of up to two, both paths, a
  restart and a database failure.
- `withdraw_claims`: three claims of a record, a database failure and a restart.
  Records do not interact, so one is enough. `ClaimsBacked` bounds the gap that
  sync-mode broadcast leaves: a record is claimed only if the chain paid it, has a
  claim in its mempool or lost one that was broadcast.
- `manual_mode`: two deposits that differ in their id only, two requests by two
  owners, two builds, two proofs and any submits, in eight of the sixteen wirings
  (every combination of any three options). Two equal deposits make two batches
  whose roots are equal and whose content is not: `AcceptedProved` says that the
  commitments tell them apart. `FundsCovered` has two parts. `RecordsCovered`, in every
  wiring: the records an account was offered, each counted once, are no more than it
  deposited, although the builders and the local relayer forget earlier batches; the
  nonce check of `ApplyWithdrawal` is all that stands in the way, as one mutant shows.
  `PayoutsCovered`, with a chain: what the account was credited, counting every claim,
  what it is still offered and what it has left on the chain are no more than its
  settled deposits; a submit that counts as accepted twice breaks it, as the other
  mutant shows. With the local relayer a record can be claimed and credited again
  (`ClaimedStaysLocally` below), so the second part is not claimed there. The two
  deposits are symmetric: they have one record, and the run checks invariants and an
  action property only.

Runs expected to be violated each show a disagreement between the code and one of
its own comments, tests or documents; `findings` quotes the line.

- `vio_concurrent_root`: two handlers record rows that overlap, and the chain
  settles a root with an operation that is not in the batch.
- `vio_committed_root`: a handler that read the cursor before `CommitBatch` writes
  the old committed root back over the new one.
- `vio_nullifier_reuse`: after a restart a committed withdrawal's nonce is handed
  out again and the row of the new one is refused by the unique index.
- `vio_double_claim`: two racing claims of one record both succeed.

### Disagreements without a run of their own

TLC finds these in the same models when the named formula is checked under the
configuration given. They concern the same code as the runs above.

| Formula, configuration | What the code does | What is said |
| --- | --- | --- |
| `VerifyFailureLeavesStateUntouched`, `MCOffchainManager.cfg` | a failed proof gate rolls the manager back to the last accepted baseline (`batch_service.go:322`) | "Off-chain pending state is left untouched" (`batch_service.go:314`) |
| `PendingRootFull`, `VioCommittedRoot.cfg` | `CommitBatch` sets the pending root to the batch's root while operations are pending (`offchain_settlement_service.go:465`) | "pending_root = committed_root + indexed deposits + requested withdrawals" (`docs/pending-settlement-status.md:132`) |
| `PendingBuildable`, `VioNullifierReuse.cfg` with two deposits | rows recorded after a restart start from the genesis root, so no batch can be built from them | "oldStateRoot = committed_root" (`docs/pending-settlement-status.md:138`) |
| `CommittedAccepted`, the same | batch numbers start again, and committing batch-1 marks the abandoned rows of the earlier batch-1 committed | "Submit accepted -> pending operations marked committed" (`docs/pending-settlement-status.md:23`) |
| `CommittedFinal`, the same | a deposit delivered again after a restart is put back to pending | "deposits are applied idempotently (by depositId)" (`deposit_poller.go:21`) |
| `PendingBuildable`, `MCSettlement.cfg` with bob's deposit in a second denomination | one batch has one denomination (`builder.go:126`), and the prefix is cut at withdrawals only: two deposits of different denominations stay pending for good | "Remaining pending operations drain in subsequent sequencer passes" (`docs/multi-withdrawal-nullifier-mismatch-fix.md:78`) |
| `OneWithdrawalEach`, `MCSettlement.cfg` | `boundSingleWithdrawalPrefix` returns a queue of deposits whole (`offchain_settlement_service.go:566`), so batches with no withdrawal are submitted | "proves exactly ONE withdrawal per batch", and its `VerifyProof` rejects `len(withdrawals) != 1` (`docs/multi-withdrawal-nullifier-mismatch-fix.md:23-28`) |
| `IncludedResolved`, `MCSettlementFaults.cfg` with `FairSpec` | `reopen` logs a failure and nothing calls it again for that batch: later passes list pending rows only, so the rows stay included (`settlement_sequencer.go:126`) | "Failures to reopen are logged but not fatal to the tick — the next pass retries." (`settlement_sequencer.go:124`) |
| `AcceptedEventuallyCommitted`, the same | a timeout or database failure after acceptance reopens settled rows, and the chain refuses the retry | `docs/pending-settlement-status.md:23` |
| `CursorCovers`, `MCDepositIndexing.cfg` with `PerPage = 1` | a page that ends inside a block makes the poller resume above the rest of the block | "strictly greater than fromHeight, together with the height the caller should resume from next" (`event_source.go:18`) |
| `CursorCovers`, `Events` with two deposits in a transaction | only the first event of a transaction is indexed | "converts each matching tx" (`tendermint_event_source.go:29`) |
| `DashboardExact`, `ApiNeverRefused`, `MCDepositIndexing.cfg` | a deposit seen by both sides is counted twice on the dashboard; the depositor is told of a failure when the poller was first | "regardless of which side observed the event first" (`deposit_poller.go:22`) |
| `PaidEventuallyClaimed`, `WithdrawClaims.cfg` without failures and restarts | a claim made while the record is on its way to the database leaves the database row unclaimed | "Claim status: `indexed_withdraw_records.claimed`" (`docs/local-db-runbook.md:24`) |
| `BaselineLockstep`, `MCManualMode.cfg` | the baseline is the manager as it is when the submit is answered, with every operation that came in since the build (`batch_service.go:163`) | "keep the in-memory off-chain baseline in lockstep with the chain" (`batch_service.go:348`) |
| `NextNonceFreeAfterRollback`, `MCManualMode.cfg` | a rollback gives a nonce out again whose pending row persists; the request is debited and then refused by the unique index | "so no balance is left stuck in an unsettled batch" (`batch_service.go:350`) |
| `ClaimedStaysLocally`, `MCManualMode.cfg` | without a chain a batch can be submitted again, and its records are saved as not claimed (`memory_store.go:190`), so a withdrawal is claimed and credited twice | `TestINT10ClaimWithdrawRejectsDoubleClaim` (`tests/int10_claim_withdraw_test.go:90`) |

A comment that says more than the code: `boundSingleWithdrawalPrefix`
(`offchain_settlement_service.go:566`) is called the longest prefix with at most
one withdrawal, and is the prefix up to and including the first withdrawal, as the
same comment goes on to say; deposits after it wait for a later batch.

### Bounds

Every bound is a constant: `MaxWithdrawals`, `MaxBatches`, `MaxFaults`,
`MaxRestarts`, `BlockSize`, `PerPage`, `MaxClaims`, `MaxRequests`, `MaxProofs`. Two withdrawals and two
deposits are enough for a batch that leaves operations behind, for a withdrawal
after a commit and for a stale nonce; three batches allow a failure, a retry and
a next batch; one restart reaches every point at which memory and database
differ; two faults allow a failure while another is handled. Amounts are 1 and 2,
so a second withdrawal may or may not be covered. In `ManualMode` two builds and
two proofs are what mixing up a batch and a proof, a second batch on top of the
first and a retry need, and two claims of a record are the claim that must not happen.

In `Settlement`, `MaxBatches` bounds the passes of one process: `StartPass` is
disabled at the bound. The liveness properties say that a state recurs, so the
bound cannot make them hold by stopping in a bad state: a behaviour that stops
with rows included violates them.

`CHECK_DEADLOCK FALSE` is set for `DepositIndexing` and `WithdrawClaims`, which
rest when every transaction is indexed or every record claimed, and for
`ManualMode`, whose clients may stop.

### Fairness

`Settlement`: a handler that has started runs to its end (a goroutine per
request), the sequencer's ticker keeps starting passes and a pass runs to its
end, and blocks keep including transactions. Nothing is assumed of users,
failures or restarts. That the build leaves its state is written as `[]<>` of the
program counter, which is weak fairness of `BuildStep`, of which one outcome is
always enabled there. `DepositIndexing`: the poller's ticker and the indexer.
`WithdrawClaims`: a claim request runs to its end; nothing is assumed of the
chain or of the user.

## Proofs

TLAPS proves the following for every value of the constants: all sets of owners,
denominations, deposits, handlers, drivers, secrets, keys and wirings, all amounts,
and behaviours of any length. `MaxWithdrawals`, `MaxBatches` and the other bounds
are any natural number.

| Module | Proves |
| --- | --- |
| `Induction` | induction and recursion over numbers, folds and sums over finite sets |
| `LocalStateProofs` | a root tells the accounts it is the root of (`RootInjective`); sums of deposits |
| `OffchainManagerProofs` | `TypeOK`, `NullifiersExact`, `SecretExclusive`, `FundsConserved` |
| `WithdrawClaimsProofs` | `TypeOK`, `DashboardAgrees`, `ClaimsBacked`, `ClaimedFinal` |
| `SettlementProofs` | lemmas about the store and `PendingBatch`; `TypeOK`, `CommittedRootOnChain`, `RecordsSettled`, `BatchesFitWitness`, `SettledRootExact` |
| `SettlementStatusProofs` | `SaveNeverCollides`, `CommittedAccepted`, `CommittedFinal`, `ReopenedNotSettled`, `PendingRootKnown`, `PendingBuildable`, the refinement `ImplementsLedger` |
| `DepositIndexingProofs` | `TypeOK`, `CursorCovers` |
| `ManualModeProofs` | `TypeOK`, `SettledRootExact`, `AcceptedProved`, `OwnProofPasses`, `NumbersUsed`, `NextNonceFree`, `ClaimedStays`, `FundsCovered` |

### Assumptions

Those of the constants, which TLC evaluates: deposits have an account and a positive
amount, the events of a transaction are a sequence that is not empty, requested
amounts are positive, every owner has a secret, the pinned key is one the prover can
run, there are finitely many drivers, "no cursor" is not a cursor.
`GenesisRootAssumption` says that the genesis root is not the root of a state with
an account in it: it is computed from the empty state or pinned to the chain's
genesis (`internal/state/local_state.go:29-54`), and that it is no collision is part
of the ideal hash.

Some theorems have a hypothesis, because the property fails without it except where
the text says otherwise:

- `SettledRootTheorem` of `Settlement` takes one request handler; any number of
  drivers, failures and restarts. `vio_concurrent_root` is the case of two.
- `SaveTheorem` and `CommittedTheorem` hold until the first restart, with any
  handlers, drivers and failures. After one, nonces and batch numbers are given out
  again (`vio_nullifier_reuse` and the table above).
- `FinalTheorem` takes one driver and no restart: a restart puts a redelivered
  deposit back to pending, and of two drivers the slower may mark included what the
  other has committed. `ReopenedTheorem` takes no failure and no operator's cancel as well:
  a timeout reopens rows that may be settled, by design.
- `PendingRootTheorem` takes one request handler and neither failure nor restart; any
  drivers, cancels and declines. Two handlers write their roots in either order, and a
  failed write of the cursor leaves an older one.
- `LedgerTheorem` takes one handler, one driver and no failure, restart or cancel.
  Rejected and declined batches are included. With a second handler, a second driver or
  a restart the ledger is not implemented. With cancels (three batches) or one
  failure (two batches) TLC finds no counterexample; the proof excludes both because it
  goes through `ReopenedNotSettled`, which they break.
- `PendingBuildableTheorem` takes the same, each of which it needs, and one denomination
  as well: a batch has one (`builder.go:126`), and with two the property fails, as the
  table above says.
- `CursorTheorem` takes `OneDeposit`, a transaction has one deposit event, because the
  event source reads the first event only; and `WholeBlocks`, a page holds every
  transaction there is or a block has only one, because a page that ends inside a block
  loses the rest of it. Both failures are in the table above. API callers, restarts and
  database failures are unrestricted (what a failure makes the poller skip is not claimed).
- `DashboardAgreement` and `ClaimedIsFinal` take the chain relayer: the local one
  accepts a batch twice and its records are saved as not claimed.

These are the configurations of the runs that check the same property.

### The arguments

**Induction.** The library's induction theorems cannot be instantiated by the
installed provers. `Induction` therefore proves what is needed from the least
element of a set of numbers: `SetInduction` takes the set of the numbers that have
the property, `Recursion` gives the sequence of values of a recursive definition,
`FoldExists` the values of a fold, and `SumExists`, `SumAnyOrder` and `SumAdd` say
that the sum over a finite set exists, does not depend on the order, and grows by
the element added; `GrowsMonotone` that a part of a set adds up to no more than the
set. A lemma about a fold of the model first gives the path of its
intermediate values and then goes along the path.

**OffchainManager.** `Inv == TypeOK /\ NullifiersExact /\ SecretExclusive`, of the
live state and of the baseline, which a rollback makes the live state.
`SecretExclusive` needs `NullifiersExact`: the first withdrawal of a second account
of a secret is refused because nonce 1 of that secret is used. `Funds` says that both
states are `Balanced` and that finitely many deposits were applied, without which
there is no sum.

**WithdrawClaims.** `SavedOnce`: with a chain a record is saved once, and what a
store has the chain has. `RequestsBacked`: a claim past its broadcast is in the
mempool, paid or lost. `ClaimedFinal` needs the first: the late save that would
write an unclaimed row comes before any other write of it.

**Settlement.** Every theorem is an invariant over the program counters of all
handlers and drivers; `Types` gives each its locals.

- `CommittedRootOnChain`: `RootsOnChain` covers every copy of the committed root that
  a process has read and may write back later; `Submitted` says that a driver about
  to commit has seen its own transaction accepted.
- `RecordsSettled`: `Named` (an id belongs to one nullifier) and `Recorded` (what a
  driver holds or has sent has a row, and what the chain accepted is settled).
- `BatchesFitWitness`: `OrderPendingChains` says what ordering by roots returns, and
  `HeldProvable` keeps it, and that the nullifiers derive from their nonces, from the
  build to the submission. `OneNonce`: with one withdrawal the owner's last one is it.
- `TypeOK` needs `Bounded`: several drivers may pass the bound check on batches
  before any of them takes a number.
- `SettledRootExact`: `Exact` says that each transition leads from the root of some
  accounts to the root of what its operation makes of them, `ChainExact` that the
  chain's root is that of its ledger. A batch the chain accepts starts at that root,
  so by `RootInjective` its accounts are the ledger. With two handlers `Exact` fails:
  the root a row is given is that of a later snapshot.
- `SaveNeverCollides`: `Once`, every row was applied to the manager and no two rows
  or unsaved operations are the same one.
- `CommittedAccepted`: `Fresh` and `Numbered`, a batch number is held by one driver
  and marks rows of that batch only. A restart makes numbers ambiguous.
- `CommittedFinal`: `Uncommitted`, what the driver has listed or built is not
  committed by anybody else. `ReopenedNotSettled`: `SettledHeld`, a settled row is
  committed or its driver knows of the acceptance, with `BatchHeld` (a batch has its
  rows to itself) and `SettledRecorded`.

- `PendingRootKnown`: `CursorKnown`, whoever holds a root that it will write to the
  cursor row holds the manager's or the committed one, and the manager does not move
  while a handler holds its root.

The refinement and the queue rest on `Ordered`, which says how rows, manager, batches
and chain are lined up:

- `Chained`: each row starts at the root the row before it ends with, from the genesis
  root to the manager's root; an operation that is applied and not saved yet is the last
  link. A walk along roots finds the right row only if no root occurs twice. `Precedes`
  orders accounts by nonces, and by balances where the nonces are equal; a deposit or a
  withdrawal moves up in that order (`SettlePrecedes`), so every root before a row is
  `Below` the manager's and by `RootInjective` differs from it.
- `Copied`: what a driver listed, built or sent are copies of rows. With `Chained` and
  `ChainExact` a batch the chain accepts is therefore the `Stretch` of rows that follows
  the settled ones (`BatchStretch`, by induction along the batch).
- `SettledPrefix`: hence the settled rows are the first so many of the log.

`LedgerTheorem` goes step by step (`LedgerStep`): `SaveOperation` of a new row is the
ledger's accept, the delivery of an accepted batch its settlement, `CommitRows` its
acknowledgement, and every other action a stutter. Acknowledgement concerns all that is
settled because, by `SettledHeld`, one driver commits a batch before it builds the next.

`PendingBuildable` speaks of states in which nothing is in flight: the pending rows are
the rows after the settled prefix, and each list has them once and in order
(`ListPendingListed`, `BothListed`). `WalkTakesAll`: the walk from the chain's root
follows `Chained` through all of them, and what is left over at its end is nothing, by
counting. `StretchMoves` and `AllBalanced` (the balances a row records are those of the
accounts at its two roots, and its nullifier is the one the witness derives) then give
the builder's and the witness's checks: along the prefix up to the first withdrawal the
movements add up (`MovesAddUp`, `ChainBalances`) to the difference of the balances at
its two ends, with one denomination.

**DepositIndexing.** A search result is the transactions of the blocks above a height
one after the other. `Flattens` says which position of which block each element comes
from, and that order and number are kept. A page is the beginning of that sequence, so
with `WholeBlocks` it ends with a block (`Blocks` says that no transaction is in two
places). `Covered`: each deposit up to the height the poller will resume from is
applied, queued in the poller or being indexed by it; the cursor moves only when the
queue is empty. A restart forgets applied deposits and the cursor together.

**ManualMode.** `Inv` has six parts. `Typed` bounds ids and nonces by the sequence.
`Held`: every batch a client has is exact, as above, names known operations and has
its own number, and every proof is of such a batch. It rests on `WorkingExact`, that
the working state of a build is the operations applied one after the other, and on
`BalanceExact`, that with one denomination the balances it ends with are those the
witness re-derives by owner, for batches of any length; so no number is taken in
vain. `Checked`: what was accepted passed the checks. `AcceptedProved` follows with
`InputsInjective`, that the six inputs tell two batches apart. `ChainExact` is as in
`Settlement`. `Paid`: a chain pays a nullifier in one submit, and a record comes
from a submit that was answered. `NonceFree`: without rollback the manager has spent
the nullifier of every request.

`FundsCovered` rests on a second invariant, `Backed`, and on what a build refuses
(`BuildDistinct`: an operation twice, or one its starting state has). `Numbered`: no
two requests have the same nonce. `Apart`: a batch has each operation once and its
deposits exist. Then there is one argument for each kind of wiring:

- with a chain, `Balanced`: the ledger's balance of an account and the requests it
  was paid add up to the deposits that were settled (`CreditSum`, `DebitSum`), and
  records are of such requests;
- with the local relayer and builds that start from the empty state, `Nested`: all
  accounts share one secret, so a batch takes the nonces 1, 2, ... in order, one
  request each; of two batches one therefore contains the other, the largest answered
  one has all the records, and a batch from the empty state pays no more than its own
  deposits;
- with the local relayer, the snapshot builder and the off-chain state, `Barren`:
  whatever a client can name is in the manager already, so nothing can be built and
  there are no records.

This is `RecordsCovered`. `PayoutsCovered` needs a third invariant, `ClaimsOnce`: with
a chain a record has been credited once if it is claimed and otherwise not at all,
because a claim marks what it credits and `ClaimedKept` says that no submit takes the
mark away. Each record is therefore credited once or offered once (`PayoutsOnce`), and
`Balanced` does the rest.

### Only model-checked

- Liveness: `IncludedResolved`, `AcceptedEventuallyCommitted`,
  `EveryDepositIndexed`, `RescanHeals` and `PaidEventuallyRecorded`. The proofs
  would need `ENABLED`, for weak fairness, which is out of the prover's reach.
- The properties of the `vio_` runs, and those of the table above, which do not hold.
- That the hypotheses of the theorems are needed: the runs and the table show
  counterexamples.

## Not modelled

- `RELAYER_WAIT_FOR_COMMIT=false`, in which a batch counts as accepted at CheckTx;
  the mutant `BroadcastWithoutWait` shows what is lost.
- The manager's generation counter, which nothing reads.
- String formats and amount parsing; the formats of hashes and roots.
- The concurrent use of the local chain client's deposit counter
  (`chain/local_client.go:44`); deposits have distinct ids.
- Dashboard fields other than deposit and claim balances and records: status
  strings and the latest objects, which nothing in the backend reads back.
- REST queries other than the deposit lookup, which are passed through to HTTP
  callers; the prover's start-up preflight, which logs or exits; stored proof
  bundles, which nothing reads back.
- Test vectors and their generators, which are not part of the running system.

## Plan

Done: the survey, `LocalState`, `OffchainManager`, `SettlementStore`,
`PendingBatch`, `Settlement`, `SettlementLedger` and the refinement,
`BatchContract`, `ManualMode`, `DepositIndexing`, `WithdrawClaims`, their runs and
mutants; the proofs above.

Left, in this order, if the code moves that way:

1. Liveness proofs, once the prover supports `ENABLED`; the invariants above
   are what they would rest on.
2. The local chain client's deposit counter (`chain/local_client.go:44`), if local
   deposits come to be made concurrently.
