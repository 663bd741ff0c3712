--------------------------- MODULE WithdrawClaims ---------------------------
(***************************************************************************)
(* POST /api/withdraw/claim (internal/service/withdraw_service.go,         *)
(* internal/repository/withdraw_repository.go) over the withdraw records   *)
(* that a submitted batch leaves in the memory store and in the database.  *)
(*                                                                         *)
(* A claim reads the record, has the relayer broadcast the claim, reads    *)
(* the record again and writes claimed = TRUE: four separate steps, so two *)
(* requests for one record interleave.  The chain (external) pays a        *)
(* withdrawal once; a claim is broadcast in sync mode, which tells what    *)
(* the check of the transaction says and not what the block makes of it.   *)
(* With the local relayer there is no chain and every call is accepted.    *)
(*                                                                         *)
(* A record is told by how it stands; its amount is what one claim         *)
(* credits, so balances are counts of claims.                              *)
(***************************************************************************)
EXTENDS Naturals

CONSTANTS
    Withdrawals,   \* withdraw ids
    Claimers,      \* concurrent claim requests
    Postgres,      \* WITHDRAW_RECORD_STORE = SUBMIT_BATCH_STORE = postgres
    ChainRelayer,  \* the relayer is the CLI client, not the local one
    MaxClaims,     \* bound on successful claims of one record
    MaxFaults,     \* bound on failing database calls
    MaxRestarts    \* bound on process restarts

ASSUME ClaimsAssumption ==
    /\ {Postgres, ChainRelayer} \subseteq BOOLEAN
    /\ {MaxClaims, MaxFaults, MaxRestarts} \subseteq Nat

VARIABLES
    memory,     \* MemoryStore.withdrawRecords
    saving,     \* records in the memory store that are on their way to the database
    credited,   \* claims credited to UserBalances since the process started
    database,   \* indexed_withdraw_records
    claim,      \* per claimer: program counter and the record claimed
    answered,   \* claims answered with success, per record
    zkdex,      \* the chain's withdraw records
    mempool,    \* claim transactions broadcast and not in a block yet
    lost,       \* history: withdrawals of which a claim was broadcast and not executed
    faults, restarts

chainVars == <<zkdex, mempool, lost>>
vars == <<memory, saving, credited, database, claim, answered, chainVars, faults, restarts>>

Record == {"none", "ready", "claimed"}

Idle == [pc |-> "idle", id |-> "none"]

Init ==
    /\ memory = [w \in Withdrawals |-> "none"]
    /\ saving = {}
    /\ credited = [w \in Withdrawals |-> 0]
    /\ database = [w \in Withdrawals |-> "none"]
    /\ claim = [c \in Claimers |-> Idle]
    /\ answered = [w \in Withdrawals |-> 0]
    /\ zkdex = [w \in Withdrawals |-> "none"]
    /\ mempool = [w \in Withdrawals |-> 0]
    /\ lost = {}
    /\ faults = 0
    /\ restarts = 0

-----------------------------------------------------------------------------
(* SubmitBatch, once the relayer has reported the batch accepted *)

\* Mutant: a batch that is submitted again is taken for a new one.
AcceptsBatchAgain(w) == w \in Withdrawals

\* The chain refuses a withdrawal whose nullifier it has; the local relayer
\* accepts a batch as often as it is submitted.
AcceptsBatch(w) == ChainRelayer => zkdex[w] = "none"

\* SaveBatchSubmitResult: the memory store, unclaimed ...
RecordWithdrawal(w) ==
    /\ AcceptsBatch(w)
    /\ w \notin saving
    /\ zkdex' = [zkdex EXCEPT ![w] = IF @ = "none" THEN "ready" ELSE @]
    /\ memory' = [memory EXCEPT ![w] = "ready"]
    /\ saving' = IF Postgres THEN saving \cup {w} ELSE saving
    /\ UNCHANGED <<credited, database, claim, answered, mempool, lost, faults, restarts>>

\* ... and then the database, unclaimed.
SaveRecord(w) ==
    /\ w \in saving
    /\ database' = [database EXCEPT ![w] = "ready"]
    /\ saving' = saving \ {w}
    /\ UNCHANGED <<memory, credited, claim, answered, chainVars, faults, restarts>>

\* The database write panics and the HTTP server recovers.
SaveFault(w) ==
    /\ w \in saving
    /\ faults < MaxFaults
    /\ faults' = faults + 1
    /\ saving' = saving \ {w}
    /\ UNCHANGED <<memory, credited, database, claim, answered, chainVars, restarts>>

-----------------------------------------------------------------------------
(* WithdrawService.ClaimWithdraw *)

\* The database first, the memory store when it has no row.
InDatabase(w) == Postgres /\ database[w] # "none"

GetWithdrawRecord(w) == IF InDatabase(w) THEN database[w] ELSE memory[w]

Goto(c, pc) == claim' = [claim EXCEPT ![c].pc = pc]

\* Mutant: the request is over and its record is kept.
EndClaimKeepingId(c) == claim' = [claim EXCEPT ![c].pc = "idle"]

EndClaim(c) == claim' = [claim EXCEPT ![c] = Idle]

\* A record that is missing or claimed ends the request with an error.
StartClaim(c, w) ==
    /\ claim[c].pc = "idle"
    /\ GetWithdrawRecord(w) = "ready"
    /\ answered[w] < MaxClaims
    /\ claim' = [claim EXCEPT ![c] = [pc |-> "broadcast", id |-> w]]
    /\ UNCHANGED <<memory, saving, credited, database, answered, chainVars, faults, restarts>>

\* The CLI simulates the message on the last block and broadcasts it.
BroadcastClaim(c) ==
    LET w == claim[c].id IN
    /\ claim[c].pc = "broadcast"
    /\ ChainRelayer => zkdex[w] = "ready"
    /\ mempool' = IF ChainRelayer THEN [mempool EXCEPT ![w] = @ + 1] ELSE mempool
    /\ Goto(c, "check")
    /\ UNCHANGED <<memory, saving, credited, database, answered, zkdex, lost, faults, restarts>>

\* Mutant: the relayer's error is dropped.
RefuseClaimSilently(c) ==
    /\ claim[c].pc = "broadcast"
    /\ ChainRelayer
    /\ Goto(c, "check")
    /\ UNCHANGED <<memory, saving, credited, database, answered, chainVars, faults, restarts>>

\* The CLI or the check of the transaction fails.
RefuseClaim(c) ==
    /\ claim[c].pc = "broadcast"
    /\ ChainRelayer
    /\ EndClaim(c)
    /\ UNCHANGED <<memory, saving, credited, database, answered, chainVars, faults, restarts>>

\* ClaimWithdrawRecord reads the record again ...
CheckRecord(c) ==
    /\ claim[c].pc = "check"
    /\ IF GetWithdrawRecord(claim[c].id) # "ready" THEN EndClaim(c)
       ELSE Goto(c, IF InDatabase(claim[c].id) THEN "writeDatabase" ELSE "writeMemory")
    /\ UNCHANGED <<memory, saving, credited, database, answered, chainVars, faults, restarts>>

\* ... writes claimed = TRUE in the database, if that is where it found it ...
WriteDatabase(c) ==
    /\ claim[c].pc = "writeDatabase"
    /\ database' = [database EXCEPT ![claim[c].id] = "claimed"]
    /\ Goto(c, "writeMemory")
    /\ UNCHANGED <<memory, saving, credited, answered, chainVars, faults, restarts>>

\* MemoryStore.ClaimWithdrawRecord credits the user whenever it has the record.
ClaimInMemory(w) ==
    IF memory[w] = "none" THEN UNCHANGED <<memory, credited>>
    ELSE /\ memory' = [memory EXCEPT ![w] = "claimed"]
         /\ credited' = [credited EXCEPT ![w] = @ + 1]

\* Mutant: the caller is answered before the record is written.
AnswerOnly(c) ==
    /\ claim[c].pc = "writeMemory"
    /\ answered' = [answered EXCEPT ![claim[c].id] = @ + 1]
    /\ EndClaim(c)
    /\ UNCHANGED <<memory, saving, credited, database, chainVars, faults, restarts>>

\* ... and in the memory store, whatever the record says by now.
WriteMemory(c) ==
    /\ claim[c].pc = "writeMemory"
    /\ ClaimInMemory(claim[c].id)
    /\ answered' = [answered EXCEPT ![claim[c].id] = @ + 1]
    /\ EndClaim(c)
    /\ UNCHANGED <<saving, database, chainVars, faults, restarts>>

\* A database call of the claim fails.
ClaimFault(c) ==
    /\ Postgres
    /\ claim[c].pc \in {"check", "writeDatabase"}
    /\ faults < MaxFaults
    /\ faults' = faults + 1
    /\ EndClaim(c)
    /\ UNCHANGED <<memory, saving, credited, database, answered, chainVars, restarts>>

ClaimStep(c) ==
    \/ BroadcastClaim(c) \/ RefuseClaim(c) \/ CheckRecord(c)
    \/ WriteDatabase(c) \/ WriteMemory(c)

-----------------------------------------------------------------------------
(* The chain (external), and the process *)

\* A block executes a claim: it pays a withdrawal that is not paid yet.
DeliverClaim(w) ==
    /\ mempool[w] > 0
    /\ mempool' = [mempool EXCEPT ![w] = @ - 1]
    /\ zkdex' = [zkdex EXCEPT ![w] = "claimed"]
    /\ UNCHANGED <<memory, saving, credited, database, claim, answered, lost, faults, restarts>>

\* A block executes a claim that fails, or the mempool evicts it.
DropClaim(w) ==
    /\ mempool[w] > 0
    /\ mempool' = [mempool EXCEPT ![w] = @ - 1]
    /\ lost' = lost \cup {w}
    /\ UNCHANGED <<memory, saving, credited, database, claim, answered, zkdex, faults, restarts>>

Restart ==
    /\ restarts < MaxRestarts
    /\ restarts' = restarts + 1
    /\ memory' = [w \in Withdrawals |-> "none"]
    /\ saving' = {}
    /\ credited' = [w \in Withdrawals |-> 0]
    /\ claim' = [c \in Claimers |-> Idle]
    /\ UNCHANGED <<database, answered, chainVars, faults>>

Next ==
    \/ \E w \in Withdrawals :
          \/ RecordWithdrawal(w) \/ SaveRecord(w) \/ SaveFault(w)
          \/ DeliverClaim(w) \/ DropClaim(w)
    \/ \E c \in Claimers :
          \/ \E w \in Withdrawals : StartClaim(c, w)
          \/ ClaimStep(c)
          \/ ClaimFault(c)
    \/ Restart

Spec == Init /\ [][Next]_vars

\* A claim request runs to its end; nothing is assumed of users or the chain.
Fairness == \A c \in Claimers : WF_vars(ClaimStep(c))

FairSpec == Spec /\ Fairness

-----------------------------------------------------------------------------
(* Properties *)

\* Every variable stays in its type: a claimer in progress has a withdrawal,
\* and what is on its way to the database is in the memory store.
TypeOK ==
    /\ memory \in [Withdrawals -> Record]
    /\ \A w \in saving : memory[w] # "none"
    /\ database \in [Withdrawals -> Record]
    /\ zkdex \in [Withdrawals -> Record]
    /\ credited \in [Withdrawals -> Nat]
    /\ answered \in [Withdrawals -> Nat]
    /\ mempool \in [Withdrawals -> Nat]
    /\ \A c \in Claimers :
          \/ claim[c] = Idle
          \/ claim[c].pc \in {"broadcast", "check", "writeDatabase", "writeMemory"} /\ claim[c].id \in Withdrawals

\* A record that is claimed in the database stays claimed: neither a second
\* submit of its batch nor a save that arrives late offers it again.
ClaimedFinal ==
    [][\A w \in Withdrawals : database[w] = "claimed" => database'[w] = "claimed"]_database

\* A withdrawal has been credited to the user, at least once, in exactly the
\* states in which the memory store has it claimed (ClaimWithdrawRecord).  How
\* often is another matter: claims that race each other credit it again, which
\* is OneAnswer.
DashboardAgrees == \A w \in Withdrawals : credited[w] > 0 <=> memory[w] = "claimed"

\* A record is claimed in either store only for a withdrawal that the chain has
\* paid, will pay when a block takes a claim in the mempool, or would have paid
\* had a broadcast claim not been lost: sync mode is the one gap between
\* "claimed" and paid, whatever races, fails or restarts.
ClaimsBacked ==
    ChainRelayer =>
        \A w \in Withdrawals :
            "claimed" \in {memory[w], database[w]}
              => zkdex[w] = "claimed" \/ mempool[w] > 0 \/ w \in lost

\* A withdrawal the chain has paid ends up claimed in one of the two stores,
\* unless a failed database call or a crash ended the request that was to record
\* it: no race between claims, or with the save of the record, loses the claim.
PaidEventuallyRecorded ==
    \A w \in Withdrawals :
        zkdex[w] = "claimed" ~> \/ "claimed" \in {memory[w], database[w]}
                               \/ faults + restarts > 0

\* The double-claim test: a second claim of a record is answered with "withdraw
\* already claimed", so one claim of it at most succeeds.
OneAnswer == \A w \in Withdrawals : answered[w] <= 1

\* Suggested by the runbook and not true of the code (README, "Disagreements"):
\* a withdrawal the chain has paid ends up claimed in the record the backend
\* answers from.
PaidEventuallyClaimed ==
    \A w \in Withdrawals : zkdex[w] = "claimed" ~> GetWithdrawRecord(w) = "claimed"
=============================================================================
