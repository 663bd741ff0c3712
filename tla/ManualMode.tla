----------------------------- MODULE ManualMode -----------------------------
(***************************************************************************)
(* BATCH_BUILD_SOURCE=manual: clients choose the deposits and withdrawals  *)
(* of a batch and call build, prove and submit themselves, over HTTP and   *)
(* in any order.  The module composes the deposit and withdraw APIs, the   *)
(* two builders (internal/batch/local_builder.go, snapshot_builder.go),    *)
(* the proof gate and the relayers, the STATE-14 rollback, the memory      *)
(* store's records and, when there is one, the chain.                      *)
(*                                                                         *)
(* cmd/api/main.go wires these by environment variables; wiring is that    *)
(* choice.  A step is one handler, except that a submit is two (the        *)
(* relayer has the batch; the handler gets the answer) and a deposit is    *)
(* two (the chain has it; the indexer saves it).  The finer interleavings  *)
(* of the off-chain handlers are in Settlement, those of claims in         *)
(* WithdrawClaims, those of the poller in DepositIndexing.                 *)
(*                                                                         *)
(* Clients send a batch with the commitments they were given with it.      *)
(* AccountSecrets is never filled in, so every owner has the mock secret.  *)
(* GenesisRoot is three things at once: the literal "0xrootA" of           *)
(* buildManualBatch, OFFCHAIN_GENESIS_ROOT and the chain's first root, as  *)
(* main.go says to configure them.                                         *)
(***************************************************************************)
EXTENDS BatchContract, SequencesExt, FiniteSetsExt

CONSTANTS
    Wirings,          \* the wirings to start in
    MockSecret,       \* mvpMockSecret = withdrawDefaultUserSecret
    WithdrawBodies,   \* [acct, amount, dest] bodies of withdraw requests
    MaxRequests,      \* bound on withdraw requests
    MaxBatches,       \* bound on batches built
    MaxProofs,        \* bound on proofs generated
    MaxClaims,        \* bound on claims of one record
    Refused           \* the builder returned an error

\* builder: BATCH_BUILDER_MODE.  offchain: OFFCHAIN_SETTLEMENT_ENABLED.
\* remote: PROVER_MODE=remote, which also turns the proof gate on.  chain: the
\* relayer, the deposits and the queries are those of a real chain.
Wiring == [builder : {"local", "snapshot"}, offchain : BOOLEAN,
           remote : BOOLEAN, chain : BOOLEAN]

ASSUME ManualModeAssumption ==
    /\ Wirings \subseteq Wiring
    /\ \A b \in WithdrawBodies : b.acct \in Accounts /\ b.amount \in Nat \ {0}
    /\ {MaxRequests, MaxBatches, MaxProofs, MaxClaims} \subseteq Nat

VARIABLES
    wiring,        \* fixed at start-up
    (* process memory *)
    manager,       \* OffchainStateManager.ls
    baseline,      \* BatchService.committedSnapshot
    withdrawSeq,   \* MemoryStore.nextWithdrawSeq - 1, or the database sequence
    batchSeq,      \* SettlementUpdateBuilder.seq
    indexed,       \* MemoryStore.deposits
    requests,      \* MemoryStore.withdrawRequests, or withdraw_requests
    records,       \* MemoryStore.withdrawRecords: ids
    claimed,       \* those of them that are claimed
    credited,      \* MemoryStore.UserBalances: how often each record was credited
    (* clients *)
    built,         \* settlement updates they were given
    bundles,       \* proof bundles they were given
    inflight,      \* submits the relayer has accepted and not answered
    (* chain *)
    chain,         \* the zkdex module
    (* history *)
    accepted       \* every <<update, bundle>> that was accepted

processVars == <<manager, baseline, withdrawSeq, batchSeq, indexed, requests,
                 records, claimed, credited>>
clientVars == <<built, bundles, inflight>>
vars == <<wiring, processVars, clientVars, chain, accepted>>

Init ==
    /\ wiring \in Wirings
    /\ manager = NewLocalState
    /\ baseline = NewLocalState        \* SetStateRollback at wiring time
    /\ withdrawSeq = 0
    /\ batchSeq = 0
    /\ indexed = {}
    /\ requests = {}
    /\ records = {}
    /\ claimed = {}
    /\ credited = [w \in 1..MaxRequests |-> 0]
    /\ built = {}
    /\ bundles = {}
    /\ inflight = {}
    /\ chain = [queued |-> {}, roots |-> <<GenesisRoot>>, deposits |-> {},
                nullifiers |-> {}, ledger |-> NewLocalState.accounts]
    /\ accepted = {}

-----------------------------------------------------------------------------
(* Deposits and withdraw requests *)

\* MsgDeposit, sent by the API or by a wallet; the local chain client stands in
\* for the chain when there is none.
DepositTx(d) ==
    /\ d \notin chain.queued
    /\ chain' = [chain EXCEPT !.queued = @ \cup {d}]
    /\ UNCHANGED <<wiring, processVars, clientVars, accepted>>

\* IndexDepositFromTx.  The memory store has the record before the manager is
\* asked, and keeps it if the manager refuses.  A chain redelivers.
IndexDeposit(d) ==
    /\ d \in chain.queued
    /\ wiring.chain \/ d \notin indexed
    /\ indexed' = indexed \cup {d}
    /\ manager' = IF wiring.offchain /\ CanApplyDeposit(manager, d)
                  THEN ApplyDeposit(manager, d) ELSE manager
    /\ UNCHANGED <<wiring, baseline, withdrawSeq, batchSeq, requests, records, claimed,
                   credited, clientVars, chain, accepted>>

MockNullifier(nonce) == NullifierFor(MockSecret, nonce)

\* The unique index of offchain_pending_withdrawals: the row of every request
\* saved so far has the nullifier of its nonce.
NullifierRecorded(nonce) == \E r \in requests : r.nonce = nonce

\* CreateWithdrawRequest without the off-chain state: id and nonce are both the
\* next number of one sequence for all accounts, and no balance is checked.
RequestWithdrawLegacy(body) ==
    /\ withdrawSeq < MaxRequests
    /\ ~wiring.offchain
    /\ withdrawSeq' = withdrawSeq + 1
    /\ requests' = requests \cup
         {[id |-> withdrawSeq + 1, acct |-> body.acct, amount |-> body.amount,
           dest |-> body.dest, nonce |-> withdrawSeq + 1]}
    /\ UNCHANGED <<wiring, manager, baseline, batchSeq, indexed, records, claimed,
                   credited, clientVars, chain, accepted>>

\* CreateWithdrawRequest with it: take an id, build, apply to the manager, save
\* the pending row and the request.  The id stays spent when a step refuses, and
\* the manager stays debited when the row is refused.
RequestWithdrawOffchain(body) ==
    LET nonce == manager.accounts[body.acct].nonce + 1
        req   == [id |-> withdrawSeq + 1, acct |-> body.acct, amount |-> body.amount,
                  dest |-> body.dest, nonce |-> nonce]
        taken == /\ CanBuildWithdrawRequest(manager, body.acct, body.amount)
                 /\ CanApplyWithdrawal(manager, req, MockNullifier(nonce))
    IN
    /\ withdrawSeq < MaxRequests
    /\ wiring.offchain
    /\ withdrawSeq' = withdrawSeq + 1
    /\ manager' = IF taken THEN ApplyWithdrawal(manager, req, MockNullifier(nonce))
                           ELSE manager
    /\ requests' = IF taken /\ ~NullifierRecorded(nonce) THEN requests \cup {req}
                                                         ELSE requests
    /\ UNCHANGED <<wiring, baseline, batchSeq, indexed, records, claimed,
                   credited, clientVars, chain, accepted>>

-----------------------------------------------------------------------------
(* Batch build *)

\* GetDepositRecord of the chain's REST API; there is no chain to ask in local mode.
ChainDepositFound(d) == wiring.chain /\ d \in chain.queued

\* DepositRepository.GetDeposit: the chain first, then the memory store.
DepositFound(d) == ChainDepositFound(d) \/ d \in indexed

\* The state a build starts from, and the old root it reports: the local
\* builder echoes the literal it is passed, which is the genesis root.
BuilderState == IF wiring.builder = "local" THEN NewLocalState ELSE manager

\* Mutant: the snapshot builder echoes the literal too.
OldStateRootLiteral == GenesisRoot

OldStateRoot == IF wiring.builder = "local" THEN GenesisRoot ELSE manager.root

\* Mutant: the snapshot builder takes the balance before the batch to be 0.
OldBalanceZero(acct) == 0

OldBalance(acct) ==
    IF wiring.builder = "local" THEN 0 ELSE manager.accounts[acct].balance

\* ApplyDeposit and ApplyWithdrawal of the working state, one after the other;
\* the first refusal ends the build.
TryDeposit(ls, d) ==
    IF ls # Refused /\ CanApplyDeposit(ls, d) THEN ApplyDeposit(ls, d) ELSE Refused

\* Mutant: any nonce will do.
TryWithdrawalAnyNonce(ls, req) ==
    IF /\ ls # Refused
       /\ MockNullifier(req.nonce) \notin ls.appliedNullifiers
       /\ CanBuildWithdrawRequest(ls, req.acct, req.amount)
    THEN ApplyWithdrawal(ls, req, MockNullifier(req.nonce)) ELSE Refused

TryWithdrawal(ls, req) ==
    IF ls # Refused /\ CanApplyWithdrawal(ls, req, MockNullifier(req.nonce))
    THEN ApplyWithdrawal(ls, req, MockNullifier(req.nonce)) ELSE Refused

WorkingState(deposits, reqs) ==
    FoldLeft(TryWithdrawal, FoldLeft(TryDeposit, BuilderState, deposits), reqs)

\* The accounts of a batch, by entry.
BatchAccounts(deposits, reqs) ==
    {DepositRecord[d].acct : d \in Range(deposits)} \cup {r.acct : r \in Range(reqs)}

\* SettlementUpdateBuilder.Build: something in it, one denom, another root.
CanSettle(new, deposits, reqs) ==
    /\ deposits # <<>> \/ reqs # <<>>
    /\ OldStateRoot # new
    /\ \A a, b \in BatchAccounts(deposits, reqs) : a[2] = b[2]

\* sumDeposit and sumWithdraw of one owner.
SumDeposit(owner, deposits) ==
    FoldLeft(LAMBDA sum, d : IF DepositRecord[d].acct[1] = owner
                             THEN sum + DepositRecord[d].amount ELSE sum,
             0, deposits)

SumWithdraw(owner, reqs) ==
    FoldLeft(LAMBDA sum, r : IF r.acct[1] = owner THEN sum + r.amount ELSE sum, 0, reqs)

\* WitnessBuilder.Build, ZK-04 for the account of every participant.  ZK-05
\* re-derives nullifiers the builder has just derived and cannot fail.
CanWitness(working, deposits, reqs) ==
    \A a \in BatchAccounts(deposits, reqs) :
        working.accounts[a].balance + SumWithdraw(a[1], reqs)
          = OldBalance(a) + SumDeposit(a[1], deposits)

SettlementWithdrawal(req) ==
    [id |-> req.id, acct |-> req.acct, amount |-> req.amount, dest |-> req.dest,
     destHash |-> WithdrawAddressHash(req.dest), nullifier |-> MockNullifier(req.nonce)]

\* buildManualBatch for the ids a client names, in its order.  The number is
\* taken before the witness is built.
BuildBatch(deposits, reqs) ==
    LET working == WorkingState(deposits, reqs) IN
    /\ batchSeq < MaxBatches
    /\ \A d \in Range(deposits) : DepositFound(d)
    /\ working # Refused
    /\ CanSettle(working.root, deposits, reqs)
    /\ batchSeq' = batchSeq + 1
    /\ built' = IF CanWitness(working, deposits, reqs)
                THEN built \cup
                       {[batch |-> batchSeq + 1, old |-> OldStateRoot, new |-> working.root,
                         deposits |-> deposits,
                         withdrawals |-> [i \in DOMAIN reqs |-> SettlementWithdrawal(reqs[i])]]}
                ELSE built
    /\ UNCHANGED <<wiring, manager, baseline, withdrawSeq, indexed, requests, records,
                   claimed, credited, bundles, inflight, chain, accepted>>

\* ProofService.GenerateProof.  A remote prover may be restarted with another
\* circuit at any time, also before its artifact is asked for.
GenerateProof(upd) ==
    /\ Cardinality(bundles) < MaxProofs
    /\ \E key \in IF wiring.remote THEN Keys ELSE {LocalKey} :
          /\ wiring.remote => \E advertised \in Keys :
                                 MatchesVerifierArtifact(ProofFor(upd, key), advertised)
          /\ bundles' = bundles \cup {ProofFor(upd, key)}
    /\ UNCHANGED <<wiring, processVars, built, inflight, chain, accepted>>

-----------------------------------------------------------------------------
(* Submit *)

\* MsgSubmitBatchProof (external): as in Settlement, and the proof is for the batch.
ChainAccepts(upd, bundle) ==
    /\ upd.old = Last(chain.roots)
    /\ Range(upd.deposits) \cap chain.deposits = {}
    /\ \A w \in Range(upd.withdrawals) : w.nullifier \notin chain.nullifiers
    /\ ValidatePublicInputs(upd, bundle)

\* The accounts as the operations of a batch make them.
CreditDeposit(accounts, d) == Credit(accounts, DepositRecord[d].acct, DepositRecord[d].amount)

DebitWithdrawal(accounts, w) == Debit(accounts, w.acct, w.amount)

Settle(accounts, upd) ==
    FoldLeft(DebitWithdrawal, FoldLeft(CreditDeposit, accounts, upd.deposits), upd.withdrawals)

\* chain.ledger is history: the accounts as the settled operations make them.
ChainAfter(upd) ==
    [chain EXCEPT
       !.roots      = Append(@, upd.new),
       !.deposits   = @ \cup Range(upd.deposits),
       !.nullifiers = @ \cup {w.nullifier : w \in Range(upd.withdrawals)},
       !.ledger     = Settle(@, upd)]

PassesGate(upd, bundle) == wiring.remote => GuardProofContract(upd, bundle)

\* Mutant: a batch the chain already has counts as accepted again.
RelayerAcceptsRetry(upd, bundle) ==
    /\ <<upd, bundle>> \notin inflight
    /\ PassesGate(upd, bundle)
    /\ \/ /\ ~wiring.chain
          /\ ValidatePublicInputs(upd, bundle)
          /\ UNCHANGED chain
       \/ /\ wiring.chain
          /\ ChainAccepts(upd, bundle)
          /\ chain' = ChainAfter(upd)
       \/ /\ wiring.chain
          /\ \E other \in bundles : <<upd, other>> \in accepted
          /\ UNCHANGED chain
    /\ inflight' = inflight \cup {<<upd, bundle>>}
    /\ accepted' = accepted \cup {<<upd, bundle>>}
    /\ UNCHANGED <<wiring, processVars, built, bundles>>

\* SubmitBatch up to the relayer's success: the batch is on the chain, or the
\* local relayer has accepted it.
RelayerAccepts(upd, bundle) ==
    /\ <<upd, bundle>> \notin inflight
    /\ PassesGate(upd, bundle)
    /\ IF wiring.chain THEN /\ ChainAccepts(upd, bundle)
                            /\ chain' = ChainAfter(upd)
                       ELSE /\ ValidatePublicInputs(upd, bundle)
                            /\ UNCHANGED chain
    /\ inflight' = inflight \cup {<<upd, bundle>>}
    /\ accepted' = accepted \cup {<<upd, bundle>>}
    /\ UNCHANGED <<wiring, processVars, built, bundles>>

\* Mutant: it is wired with every builder.
RollsBackAlways == TRUE

\* SetStateRollback is wired with the snapshot builder only.
RollsBack == wiring.builder = "snapshot"

\* The answer arrives: commitStateBaseline and SaveBatchSubmitted.  Records that
\* are saved again are saved as not claimed.
SubmitAnswered(upd, bundle) ==
    /\ <<upd, bundle>> \in inflight
    /\ inflight' = inflight \ {<<upd, bundle>>}
    /\ baseline' = IF RollsBack THEN manager ELSE baseline
    /\ records' = records \cup {w.id : w \in Range(upd.withdrawals)}
    /\ claimed' = claimed \ {w.id : w \in Range(upd.withdrawals)}
    /\ UNCHANGED <<wiring, manager, withdrawSeq, batchSeq, indexed, requests, credited,
                   built, bundles, chain, accepted>>

\* rollbackStateToBaseline.
RollbackToBaseline ==
    /\ manager' = IF RollsBack THEN baseline ELSE manager
    /\ UNCHANGED <<wiring, baseline, withdrawSeq, batchSeq, indexed, requests, records,
                   claimed, credited, built, bundles, chain, accepted>>

\* The chain accepted the batch and the confirmation timed out.
SubmitUnconfirmed(upd, bundle) ==
    /\ wiring.chain
    /\ <<upd, bundle>> \in inflight
    /\ inflight' = inflight \ {<<upd, bundle>>}
    /\ RollbackToBaseline

\* The gate refuses, the verifier refuses or cannot be reached, the local
\* relayer refuses, or the broadcast fails.
SubmitRefused(upd, bundle) ==
    /\ \/ wiring.remote
       \/ wiring.chain
       \/ ~ValidatePublicInputs(upd, bundle)
    /\ UNCHANGED inflight
    /\ RollbackToBaseline

\* ClaimWithdraw, as one step.  The relayer refuses a record that is claimed;
\* ClaimWithdrawRecord marks it and credits the destination.
ClaimWithdraw(w) ==
    /\ w \in records \ claimed
    /\ credited[w] < MaxClaims
    /\ claimed' = claimed \cup {w}
    /\ credited' = [credited EXCEPT ![w] = @ + 1]
    /\ UNCHANGED <<wiring, manager, baseline, withdrawSeq, batchSeq, indexed, requests,
                   records, clientVars, chain, accepted>>

Next ==
    \/ \E d \in Deposits : DepositTx(d) \/ IndexDeposit(d)
    \/ \E body \in WithdrawBodies : RequestWithdrawLegacy(body) \/ RequestWithdrawOffchain(body)
    \/ \E deposits \in SeqOf(Deposits, Cardinality(Deposits)),
          reqs \in SeqOf(requests, MaxRequests) : BuildBatch(deposits, reqs)
    \/ \E upd \in built : GenerateProof(upd)
    \/ \E upd \in built, bundle \in bundles :
          \/ RelayerAccepts(upd, bundle)
          \/ SubmitAnswered(upd, bundle)
          \/ SubmitUnconfirmed(upd, bundle)
          \/ SubmitRefused(upd, bundle)
    \/ \E w \in records : ClaimWithdraw(w)

Spec == Init /\ [][Next]_vars
-----------------------------------------------------------------------------
(* Properties *)

Request == [id : 1..MaxRequests, acct : Accounts, amount : Nat \ {0},
            dest : {b.dest : b \in WithdrawBodies}, nonce : 1..MaxRequests]

\* Every variable stays in its type: balances of the manager, of its baseline
\* and of what the chain settled stay natural, and clients only hold what the
\* backend gave them.
TypeOK ==
    /\ wiring \in Wirings
    /\ \A s \in {manager, baseline} :
          /\ s.accounts \in [Accounts -> Account]
          /\ s.appliedDeposits \subseteq Deposits
    /\ withdrawSeq \in 0..MaxRequests
    /\ batchSeq \in 0..MaxBatches
    /\ indexed \subseteq chain.queued
    /\ requests \subseteq Request
    /\ claimed \subseteq records
    /\ credited \in [1..MaxRequests -> 0..MaxClaims]
    /\ records \subseteq {r.id : r \in requests}
    /\ {b.of : b \in bundles} \subseteq {upd.batch : upd \in built}
    /\ inflight \subseteq accepted
    /\ accepted \subseteq built \X bundles
    /\ chain.queued \subseteq Deposits
    /\ chain.ledger \in [Accounts -> Account]

\* The chain's root is that of the accounts its settled batches make: however
\* builds, deposits, requests, rollbacks and submits interleave, a batch built
\* from one state is not settled on top of another (the old root a builder
\* reports, local_builder.go:233 and snapshot_builder.go:66).
SettledRootExact ==
    Last(chain.roots) =
        IF Len(chain.roots) = 1 THEN GenesisRoot ELSE ComputeRoot(chain.ledger)

\* Two updates settle the same operations between the same roots.
SameContent(u, v) ==
    /\ u.old = v.old
    /\ u.new = v.new
    /\ u.deposits = v.deposits
    /\ u.withdrawals = v.withdrawals

\* A batch is accepted only with a proof of its own content, and through the
\* proof gate only with one of the pinned circuit: six inputs are enough to
\* tell any two builds apart (guardProofContract, BuildCommitments).
AcceptedProved ==
    \A pair \in accepted :
        /\ \E upd \in built : upd.batch = pair[2].of /\ SameContent(upd, pair[1])
        /\ wiring.remote => pair[2].key = ExpectedKey

\* The proof made for a batch, by the pinned circuit, passes the gate and the
\* local relayer: the three places that list the public inputs agree.
OwnProofPasses ==
    \A upd \in built, bundle \in bundles :
        bundle.of = upd.batch /\ (wiring.remote => bundle.key = ExpectedKey)
          => PassesGate(upd, bundle) /\ ValidatePublicInputs(upd, bundle)

\* Every number the settlement builder hands out is that of a batch some client
\* holds: the witness is never refused after the number is taken, so oldBalance
\* is right for a state that already holds deposits (witness.go:150).
NumbersUsed == {upd.batch : upd \in built} = 1..batchSeq

AmountOfRecords(a) ==
    MapThenSumSet(LAMBDA r : r.amount, {r \in requests : r.acct = a /\ r.id \in records})

AmountDeposited(a) ==
    MapThenSumSet(LAMBDA d : DepositRecord[d].amount,
                  {d \in chain.queued : DepositRecord[d].acct = a})

\* In every wiring: the records an account was ever offered, each counted once,
\* are no more than it deposited, although the local relayer takes a deposit in
\* any number of batches and the builders forget the batches before, because a
\* build accepts an account's withdrawals only from its first nonce on
\* (ApplyWithdrawal).  How often a record is claimed is PayoutsCovered.
RecordsCovered == \A a \in Accounts : AmountOfRecords(a) <= AmountDeposited(a)

\* How often a record has been or can now be paid: each credit, and one more
\* while it is offered.
Payouts(id) == credited[id] + (IF id \in records \ claimed THEN 1 ELSE 0)

AmountPaidOrOffered(a) ==
    MapThenSumSet(LAMBDA r : r.amount * Payouts(r.id),
                  {r \in requests : r.acct = a /\ r.id \in records})

AmountSettled(a) ==
    MapThenSumSet(LAMBDA d : DepositRecord[d].amount,
                  {d \in chain.deposits : DepositRecord[d].acct = a})

\* With a chain: what an account was credited, counting every claim, what it is
\* still offered and what it has left on the chain are no more than the deposits
\* of it that were settled.  No retry, timeout or second batch makes a record
\* that was claimed payable again (memory_store.go:190); with the local relayer
\* one does, see ClaimedStaysLocally.
PayoutsCovered ==
    wiring.chain =>
        \A a \in Accounts :
            AmountPaidOrOffered(a) + chain.ledger[a].balance <= AmountSettled(a)

\* An account never gets out more than it put in.
FundsCovered == RecordsCovered /\ PayoutsCovered

\* While nothing rolls the manager back, the nonce it gives an account next is
\* free in the pending table, so no request is applied and then refused by the
\* unique index (the condition on SetStateRollback, cmd/api/main.go:190).
NextNonceFree ==
    wiring.offchain /\ wiring.builder = "local" =>
        \A a \in Accounts :
            LET next == manager.accounts[a].nonce + 1
            IN  MockNullifier(next) \notin manager.appliedNullifiers
                  => ~NullifierRecorded(next)

\* On a chain a claimed withdrawal stays claimed: SaveBatchSubmitted saves
\* records as not claimed, and no second submit of a batch, or of a withdrawal
\* in another batch, gets as far as that.
ClaimedStays == [][wiring.chain => claimed \subseteq claimed']_vars

-----------------------------------------------------------------------------
(* Formulas that do not hold; see README, "Disagreements without a run".   *)

\* "keep the in-memory off-chain baseline in lockstep with the chain"
\* (batch_service.go:348), once every submit has been answered.
BaselineLockstep ==
    wiring.chain /\ RollsBack /\ inflight = {} => baseline.root = Last(chain.roots)

\* NextNonceFree where the manager is rolled back.
NextNonceFreeAfterRollback ==
    wiring.offchain =>
        \A a \in Accounts :
            LET next == manager.accounts[a].nonce + 1
            IN  MockNullifier(next) \notin manager.appliedNullifiers
                  => ~NullifierRecorded(next)

\* ClaimedStays with the local relayer.
ClaimedStaysLocally == [][claimed \subseteq claimed']_vars
=============================================================================
