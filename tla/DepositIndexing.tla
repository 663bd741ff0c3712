-------------------------- MODULE DepositIndexing --------------------------
(***************************************************************************)
(* How deposits reach the backend (internal/indexer, internal/chain,       *)
(* internal/service/deposit_service.go): the asynchronous poller reads     *)
(* tx_search from a height cursor, and POST /api/deposit indexes its own   *)
(* deposit once it sees it in a block.  Both go through IndexDepositFromTx:*)
(* the dashboard store first, then the off-chain settlement state.         *)
(*                                                                         *)
(* A transaction is the sequence of deposit ids its events carry; the      *)
(* chain is a sequence of blocks of transactions, visible a block at a     *)
(* time.  ApplyIndexedDeposit is one step here (Settlement has its steps): *)
(* what matters is whether the manager has the deposit and whether the     *)
(* database has its row.                                                   *)
(***************************************************************************)
EXTENDS Naturals, SequencesExt, FiniteSetsExt

CONSTANTS
    Txs,          \* deposit transactions
    Events,       \* tx -> non-empty sequence of the deposit ids it emits
    NoDeposit,    \* not a deposit id
    ApiTxs,       \* the transactions that POST /api/deposit broadcasts
    PerPage,      \* tx_search's page; the source asks for the first page only
    BlockSize,    \* bound on transactions in a block
    MaxFaults,    \* bound on failing database calls
    MaxRestarts   \* bound on process restarts

ASSUME TxsAssumption ==
    /\ \A t \in Txs : Events[t] \in Seq(Range(Events[t])) \ {<<>>}
    /\ \A t, u \in Txs : t # u => Range(Events[t]) \cap Range(Events[u]) = {}
    /\ \A t \in Txs : NoDeposit \notin Range(Events[t])
    /\ ApiTxs \subseteq Txs
    /\ {PerPage, BlockSize} \subseteq Nat \ {0}
    /\ {MaxFaults, MaxRestarts} \subseteq Nat

VARIABLES
    blocks,         \* the chain: a sequence of sequences of transactions
    cursor,         \* DepositPoller.cursor
    queue,          \* deposits the poll in progress has yet to index
    next,           \* its nextHeight; 0 when no poll is in progress
    busy,           \* per caller: the deposit it is indexing, or NoDeposit
    api,            \* per API deposit: how its request stands
    stored,         \* MemoryStore.deposits
    moduleBalance,  \* MemoryStore's module balance, in deposits credited
    applied,        \* the manager's applied deposits
    recorded,       \* deposits with a row in offchain_pending_deposits
    faults, restarts

poll == <<cursor, queue, next>>
store == <<stored, moduleBalance>>
settlement == <<applied, recorded>>
vars == <<blocks, poll, busy, api, store, settlement, faults, restarts>>

\* The callers of IndexDepositFromTx: the poller, and a handler per API deposit.
Callers == {"poller"} \cup ApiTxs

OnChain == UNION {Range(blocks[h]) : h \in DOMAIN blocks}

DepositsOf(txs) == UNION {Range(Events[t]) : t \in txs}

Init ==
    /\ blocks = <<>>
    /\ cursor = 0
    /\ queue = <<>>
    /\ next = 0
    /\ busy = [c \in Callers |-> NoDeposit]
    /\ api = [t \in ApiTxs |-> "waiting"]
    /\ stored = {}
    /\ moduleBalance = 0
    /\ applied = {}
    /\ recorded = {}
    /\ faults = 0
    /\ restarts = 0

-----------------------------------------------------------------------------
(* The chain (external) *)

CommitBlock ==
    /\ \E block \in SeqOf(Txs \ OnChain, BlockSize) \ {<<>>} :
          /\ IsInjective(block)
          /\ blocks' = Append(blocks, block)
    /\ UNCHANGED <<poll, busy, api, store, settlement, faults, restarts>>

-----------------------------------------------------------------------------
(* DepositIndexer.IndexDepositFromTx *)

\* The dashboard store takes the record, and credits the module account, on
\* every call; then the caller enters ApplyIndexedDeposit.
SaveDeposit(c, d) ==
    /\ busy[c] = NoDeposit
    /\ busy' = [busy EXCEPT ![c] = d]
    /\ stored' = stored \cup {d}
    /\ moduleBalance' = moduleBalance + 1

\* The request of an API caller ends; the poller has none.
Respond(c, status) ==
    api' = IF c \in ApiTxs THEN [api EXCEPT ![c] = status] ELSE api

Apply(c) ==
    /\ busy[c] \notin applied \cup {NoDeposit}
    /\ applied' = applied \cup {busy[c]}
    /\ recorded' = recorded \cup {busy[c]}
    /\ busy' = [busy EXCEPT ![c] = NoDeposit]
    /\ Respond(c, "done")
    /\ UNCHANGED <<blocks, poll, store, faults, restarts>>

\* ErrDepositAlreadyApplied: the poller goes on, the API answers with an error.
RefuseReplay(c) ==
    /\ busy[c] \in applied
    /\ busy' = [busy EXCEPT ![c] = NoDeposit]
    /\ Respond(c, "refused")
    /\ UNCHANGED <<blocks, poll, store, settlement, faults, restarts>>

\* The database fails before the manager applies the deposit or after it: the
\* poller logs and goes on, the API answers with an error.
ApplyFault(c) ==
    /\ busy[c] \notin applied \cup {NoDeposit}
    /\ faults < MaxFaults
    /\ faults' = faults + 1
    /\ applied' \in {applied, applied \cup {busy[c]}}
    /\ busy' = [busy EXCEPT ![c] = NoDeposit]
    /\ Respond(c, "failed")
    /\ UNCHANGED <<blocks, poll, store, recorded, restarts>>

-----------------------------------------------------------------------------
(* DepositPoller.PollOnce over TendermintEventSource *)

\* tx_search for heights above the cursor, ascending, and the page of it that
\* one call returns.
Above(height) ==
    LET Tagged(h) == [i \in DOMAIN blocks[h] |-> [tx |-> blocks[h][i], height |-> h]]
    IN  FlattenSeq([k \in 1..(Len(blocks) - height) |-> Tagged(height + k)])

Page(height) ==
    LET all == Above(height) IN SubSeq(all, 1, Min({PerPage, Len(all)}))

\* depositEventFromTxSearch and extractDepositEvent take the first deposit
\* event of a transaction.
FirstDeposit(t) == Head(Events[t])

\* nextHeight is the last height seen; an RPC error or an empty answer leaves
\* everything as it was.
FetchDepositsSince ==
    /\ next = 0
    /\ Page(cursor) # <<>>
    /\ queue' = [i \in DOMAIN Page(cursor) |-> FirstDeposit(Page(cursor)[i].tx)]
    /\ next' = Last(Page(cursor)).height
    /\ UNCHANGED <<blocks, cursor, busy, api, store, settlement, faults, restarts>>

IndexNext ==
    /\ queue # <<>>
    /\ SaveDeposit("poller", Head(queue))
    /\ queue' = Tail(queue)
    /\ UNCHANGED <<blocks, cursor, next, api, settlement, faults, restarts>>

\* Mutant: the cursor jumps to the chain's current height.
AdvanceToTip ==
    /\ next # 0
    /\ queue = <<>>
    /\ busy["poller"] = NoDeposit
    /\ cursor' = Len(blocks)
    /\ next' = 0
    /\ UNCHANGED <<blocks, queue, busy, api, store, settlement, faults, restarts>>

\* Mutant: nextHeight is the height after the last one seen.
AdvancePast ==
    /\ next # 0
    /\ queue = <<>>
    /\ busy["poller"] = NoDeposit
    /\ cursor' = next + 1
    /\ next' = 0
    /\ UNCHANGED <<blocks, queue, busy, api, store, settlement, faults, restarts>>

\* The poll ends: the cursor moves to nextHeight, whatever was skipped.
AdvanceCursor ==
    /\ next # 0
    /\ queue = <<>>
    /\ busy["poller"] = NoDeposit
    /\ cursor' = Max({cursor, next})
    /\ next' = 0
    /\ UNCHANGED <<blocks, queue, busy, api, store, settlement, faults, restarts>>

-----------------------------------------------------------------------------
(* DepositService.CreateDeposit over chain.CosmosClient.Deposit *)

\* Deposit's queries find the transaction in a block; its event is indexed.
ApiIndex(t) ==
    /\ api[t] = "waiting"
    /\ t \in OnChain
    /\ SaveDeposit(t, FirstDeposit(t))
    /\ api' = [api EXCEPT ![t] = "indexing"]
    /\ UNCHANGED <<blocks, poll, settlement, faults, restarts>>

\* The queries are exhausted: an error, and the deposit is left to the poller.
ApiGiveUp(t) ==
    /\ api[t] = "waiting"
    /\ api' = [api EXCEPT ![t] = "failed"]
    /\ UNCHANGED <<blocks, poll, busy, store, settlement, faults, restarts>>

-----------------------------------------------------------------------------
\* The process restarts: INDEXER_START_HEIGHT is 0, the dashboard is empty, and
\* the manager has the rows that are still pending.
Restart ==
    /\ restarts < MaxRestarts
    /\ restarts' = restarts + 1
    /\ cursor' = 0
    /\ queue' = <<>>
    /\ next' = 0
    /\ busy' = [c \in Callers |-> NoDeposit]
    /\ api' = [t \in ApiTxs |-> IF api[t] \in {"waiting", "indexing"} THEN "failed" ELSE api[t]]
    /\ stored' = {}
    /\ moduleBalance' = 0
    /\ applied' \in SUBSET recorded
    /\ UNCHANGED <<blocks, recorded, faults>>

PollStep == FetchDepositsSince \/ IndexNext \/ AdvanceCursor

IndexStep(c) == Apply(c) \/ RefuseReplay(c)

Next ==
    \/ CommitBlock
    \/ PollStep
    \/ \E c \in Callers : IndexStep(c) \/ ApplyFault(c)
    \/ \E t \in ApiTxs : ApiIndex(t) \/ ApiGiveUp(t)
    \/ Restart

Spec == Init /\ [][Next]_vars

\* The poller's ticker keeps firing and a call of the indexer returns; nothing
\* is assumed of the chain, of the API callers or of faults.
Fairness ==
    /\ WF_vars(PollStep)
    /\ \A c \in Callers : WF_vars(IndexStep(c))

FairSpec == Spec /\ Fairness

-----------------------------------------------------------------------------
(* Properties *)

\* Every variable stays in its type; the cursor is a height the chain has.
TypeOK ==
    /\ blocks \in Seq(Seq(Txs))
    /\ cursor \in 0..Len(blocks)
    /\ next \in 0..Len(blocks)
    /\ Range(queue) \cup stored \cup applied \cup recorded \subseteq DepositsOf(OnChain)
    /\ busy \in [Callers -> DepositsOf(OnChain) \cup {NoDeposit}]
    /\ api \in [ApiTxs -> {"waiting", "indexing", "done", "refused", "failed"}]
    /\ moduleBalance \in Nat

\* The poller never leaves a deposit behind: every deposit at or below its
\* cursor is in the off-chain state, so that it need not be read again.  (A
\* database failure makes it skip one; RescanHeals is about that.)
CursorCovers ==
    faults = 0 => \A h \in 1..cursor : DepositsOf(Range(blocks[h])) \subseteq applied

\* Without database failures every deposit the chain holds is mirrored into the
\* off-chain state, also after a restart that forgot it and whoever of the two
\* sides saw it first.
EveryDepositIndexed == []<>(faults = 0 => DepositsOf(OnChain) \subseteq applied)

\* Whatever failed database calls made the poller skip, a scan from height 0,
\* which every start of the process makes, mirrors every deposit once the
\* database works again: the skip is not for ever.
RescanHeals ==
    (cursor = 0 /\ next = 0 /\ faults = MaxFaults) ~> (DepositsOf(OnChain) \subseteq applied)

\* Two readings of "applied idempotently (by depositId) regardless of which side
\* observed the event first" that are not true of the code (README,
\* "Disagreements").  The module balance on the dashboard
\* counts every stored deposit once.
DashboardExact == moduleBalance = Cardinality(stored)

\* And: the API caller whose deposit is in the off-chain state is not told that it
\* failed.
ApiNeverRefused == \A t \in ApiTxs : api[t] # "refused"
=============================================================================
