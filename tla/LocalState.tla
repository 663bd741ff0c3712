----------------------------- MODULE LocalState -----------------------------
(***************************************************************************)
(* The off-chain account state of package internal/state: what LocalState, *)
(* AccountState, WithdrawRequestBuilder, NullifierFor and ComputeRoot      *)
(* compute, as operators on a state record.  Every mutator of the code     *)
(* runs under one mutex, so a call is one application of an operator.      *)
(*                                                                         *)
(* Amounts are big.Int in the code (parsed from base-10 strings, rejected  *)
(* when not positive), hence unbounded naturals here.  SHA-256 is the      *)
(* ideal hash: the hash of a value is the value under a constructor.       *)
(***************************************************************************)
EXTENDS Naturals

CONSTANTS
    Owners,          \* account owners (addresses)
    Denoms,          \* token denominations
    Deposits,        \* ids of the deposits the chain has queued (depositId)
    DepositRecord,   \* depositId -> [acct, amount], fixed by the chain
    GenesisRoot      \* root of the empty state, pinned to the chain's genesis

\* An account is keyed by (owner, denom).
Accounts == Owners \X Denoms

ASSUME DepositRecordAssumption ==
    DepositRecord \in [Deposits -> [acct : Accounts, amount : Nat \ {0}]]

-----------------------------------------------------------------------------
(* AccountState.  The map of the code has no entry for an account that was *)
(* never credited; such an account reads as {balance 0, nonce 0}, and no   *)
(* entry ever has both at 0, so a total function carries the same data.    *)

Account == [balance : Nat, nonce : Nat]

ZeroAccount == [balance |-> 0, nonce |-> 0]

Credit(accounts, a, amount) ==
    [accounts EXCEPT ![a] = [balance |-> @.balance + amount, nonce |-> @.nonce]]

Debit(accounts, a, amount) ==
    [accounts EXCEPT ![a] = [balance |-> @.balance - amount, nonce |-> @.nonce + 1]]

\* AccountState.Snapshot: the entries that exist.
AccountSnapshot(accounts) ==
    {<<a, accounts[a]>> : a \in {b \in Accounts : accounts[b] # ZeroAccount}}

ComputeRoot(accounts) == [hash |-> AccountSnapshot(accounts)]

\* The genesis root is the root of the empty state, computed or pinned, and so
\* not the root of any other.
ASSUME GenesisRootAssumption == GenesisRoot \notin [hash : (SUBSET (Accounts \X Account)) \ {{}}]

-----------------------------------------------------------------------------
(* LocalState *)

NewLocalState ==
    [accounts          |-> [a \in Accounts |-> ZeroAccount],
     root              |-> GenesisRoot,
     appliedDeposits   |-> {},
     appliedNullifiers |-> {}]

\* Mutant: no replay check.
CanApplyDepositAgain(ls, d) == d \in Deposits

\* ApplyDeposit succeeds unless the depositId was applied before.
CanApplyDeposit(ls, d) == d \notin ls.appliedDeposits

ApplyDeposit(ls, d) ==
    LET accounts == Credit(ls.accounts, DepositRecord[d].acct, DepositRecord[d].amount)
    IN  [accounts          |-> accounts,
         root              |-> ComputeRoot(accounts),
         appliedDeposits   |-> ls.appliedDeposits \cup {d},
         appliedNullifiers |-> ls.appliedNullifiers]

\* The nullifier binds the secret and the nonce, and neither the owner nor the
\* denom of the account.
NullifierFor(secret, nonce) == [secret |-> secret, nonce |-> nonce]

\* WithdrawRequestBuilder.Build is read-only: it checks the balance and takes
\* the account's next nonce.
CanBuildWithdrawRequest(ls, a, amount) == ls.accounts[a].balance >= amount

BuildWithdrawRequest(ls, a, amount, id) ==
    [id |-> id, acct |-> a, amount |-> amount, nonce |-> ls.accounts[a].nonce + 1]

\* Mutants: the balance is trusted from the build, or the nullifier is not looked up.
CanApplyWithoutBalanceCheck(ls, req, nullifier) ==
    /\ nullifier \notin ls.appliedNullifiers
    /\ req.nonce = ls.accounts[req.acct].nonce + 1

CanApplyWithoutNullifierCheck(ls, req, nullifier) ==
    /\ ls.accounts[req.acct].balance >= req.amount
    /\ req.nonce = ls.accounts[req.acct].nonce + 1

\* ApplyWithdrawal re-checks everything the request was built from.
CanApplyWithdrawal(ls, req, nullifier) ==
    /\ nullifier \notin ls.appliedNullifiers
    /\ ls.accounts[req.acct].balance >= req.amount
    /\ req.nonce = ls.accounts[req.acct].nonce + 1

ApplyWithdrawal(ls, req, nullifier) ==
    LET accounts == Debit(ls.accounts, req.acct, req.amount)
    IN  [accounts          |-> accounts,
         root              |-> ComputeRoot(accounts),
         appliedDeposits   |-> ls.appliedDeposits,
         appliedNullifiers |-> ls.appliedNullifiers \cup {nullifier}]
=============================================================================
