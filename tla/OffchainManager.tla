-------------------------- MODULE OffchainManager --------------------------
(***************************************************************************)
(* The long-lived in-memory OffchainStateManager (internal/state) and the  *)
(* STATE-14 rollback the batch service wires to it in manual mode          *)
(* (internal/service/batch_service.go).                                    *)
(*                                                                         *)
(* Concurrent HTTP handlers build a withdraw request and apply it in two   *)
(* separate critical sections, so requests built from one state are        *)
(* applied to another.  A batch submit ends by moving the committed        *)
(* baseline up to the current pending state (accepted) or by rolling the   *)
(* pending state back to the baseline (anything else).                     *)
(*                                                                         *)
(* Left out: the generation counter (debug metadata, read by nothing).     *)
(***************************************************************************)
EXTENDS LocalState, FiniteSetsExt

CONSTANTS
    Handlers,         \* concurrent withdraw handlers
    Secrets,          \* user secrets
    SecretOf,         \* the secret a request of this owner is nullified with
    WithdrawAmounts   \* amounts users ask for

ASSUME SecretOfAssumption == SecretOf \in [Owners -> Secrets]

ASSUME WithdrawAmountsAssumption == WithdrawAmounts \subseteq Nat \ {0}

VARIABLES
    ls,                 \* OffchainStateManager.ls
    committedSnapshot,  \* BatchService.committedSnapshot
    inflight,           \* per handler: the request it has built, or NoRequest
    lastSubmit,         \* how the last SubmitBatch ended
    (* history variables *)
    spent,              \* per account: total debited in ls
    spentAtBaseline     \* the same for committedSnapshot

vars == <<ls, committedSnapshot, inflight, lastSubmit, spent, spentAtBaseline>>

Request == [id : Handlers, acct : Accounts, amount : WithdrawAmounts, nonce : Nat]

NoRequest == [id |-> "none", acct |-> <<"none", "none">>, amount |-> 0, nonce |-> 0]

Nullifier == [secret : Secrets, nonce : Nat]

State == [accounts          : [Accounts -> Account],
          root              : {GenesisRoot} \cup
                                [hash : SUBSET (Accounts \X Account)],
          appliedDeposits   : SUBSET Deposits,
          appliedNullifiers : SUBSET Nullifier]

SubmitOutcome == {"none", "accepted", "verifyFailed", "relayerFailed", "notAccepted"}

\* The nullifier the service derives for a request before it applies it.
RequestNullifier(req) == NullifierFor(SecretOf[req.acct[1]], req.nonce)

-----------------------------------------------------------------------------
Init ==
    /\ ls = NewLocalState
    /\ committedSnapshot = NewLocalState    \* SetStateRollback at wiring time
    /\ inflight = [h \in Handlers |-> NoRequest]
    /\ lastSubmit = "none"
    /\ spent = [a \in Accounts |-> 0]
    /\ spentAtBaseline = [a \in Accounts |-> 0]

\* The indexer delivers a deposit; a replay is refused.
IndexDeposit(d) ==
    /\ CanApplyDeposit(ls, d)
    /\ ls' = ApplyDeposit(ls, d)
    /\ UNCHANGED <<committedSnapshot, inflight, lastSubmit, spent, spentAtBaseline>>

\* A handler builds a request from the live state; too little balance ends it.
BuildRequest(h) ==
    /\ inflight[h] = NoRequest
    /\ \E a \in Accounts, amount \in WithdrawAmounts :
          /\ CanBuildWithdrawRequest(ls, a, amount)
          /\ inflight' = [inflight EXCEPT ![h] = BuildWithdrawRequest(ls, a, amount, h)]
    /\ UNCHANGED <<ls, committedSnapshot, lastSubmit, spent, spentAtBaseline>>

\* The handler applies the request it built.
ApplyRequest(h) ==
    /\ inflight[h] # NoRequest
    /\ CanApplyWithdrawal(ls, inflight[h], RequestNullifier(inflight[h]))
    /\ ls' = ApplyWithdrawal(ls, inflight[h], RequestNullifier(inflight[h]))
    /\ spent' = [spent EXCEPT ![inflight[h].acct] = @ + inflight[h].amount]
    /\ inflight' = [inflight EXCEPT ![h] = NoRequest]
    /\ UNCHANGED <<committedSnapshot, lastSubmit, spentAtBaseline>>

\* The request no longer fits the state: an error to the caller, no change.
RefuseRequest(h) ==
    /\ inflight[h] # NoRequest
    /\ ~CanApplyWithdrawal(ls, inflight[h], RequestNullifier(inflight[h]))
    /\ inflight' = [inflight EXCEPT ![h] = NoRequest]
    /\ UNCHANGED <<ls, committedSnapshot, lastSubmit, spent, spentAtBaseline>>

\* commitStateBaseline, after result.Accepted.
CommitBaseline ==
    /\ committedSnapshot' = ls
    /\ spentAtBaseline' = spent
    /\ lastSubmit' = "accepted"
    /\ UNCHANGED <<ls, inflight, spent>>

\* Mutant: balances come back and the nullifier set does not.
RollbackKeepingNullifiers(outcome) ==
    /\ ls' = [committedSnapshot EXCEPT !.appliedNullifiers = ls.appliedNullifiers]
    /\ spent' = spentAtBaseline
    /\ lastSubmit' = outcome
    /\ UNCHANGED <<committedSnapshot, inflight, spentAtBaseline>>

\* rollbackStateToBaseline, after a failed proof gate, a relayer error or a
\* result that is not accepted.
RollbackToBaseline(outcome) ==
    /\ ls' = committedSnapshot
    /\ spent' = spentAtBaseline
    /\ lastSubmit' = outcome
    /\ UNCHANGED <<committedSnapshot, inflight, spentAtBaseline>>

\* BatchService.SubmitBatch as the manager sees it.
SubmitBatch ==
    \/ CommitBaseline
    \/ \E outcome \in {"verifyFailed", "relayerFailed", "notAccepted"} :
          RollbackToBaseline(outcome)

Next ==
    \/ \E d \in Deposits : IndexDeposit(d)
    \/ \E h \in Handlers : BuildRequest(h) \/ ApplyRequest(h) \/ RefuseRequest(h)
    \/ SubmitBatch

Spec == Init /\ [][Next]_vars

-----------------------------------------------------------------------------
(* Properties *)

\* Every variable stays in its type: in particular balances stay natural, so
\* no interleaving of stale requests and rollbacks overdraws an account.
TypeOK ==
    /\ ls \in State
    /\ committedSnapshot \in State
    /\ inflight \in [Handlers -> {NoRequest} \cup Request]
    /\ lastSubmit \in SubmitOutcome
    /\ spent \in [Accounts -> Nat]
    /\ spentAtBaseline \in [Accounts -> Nat]

\* The nullifiers a state holds are exactly those of nonces 1..nonce of its
\* accounts: none is skipped, none is left behind by a refused or rolled-back
\* request, and none is missing for a withdrawal that was applied.
NullifiersExactIn(s) ==
    s.appliedNullifiers =
        UNION {{NullifierFor(SecretOf[a[1]], k) : k \in 1..s.accounts[a].nonce} :
                 a \in Accounts}

NullifiersExact == NullifiersExactIn(ls) /\ NullifiersExactIn(committedSnapshot)

\* Two accounts nullified with the same secret never both withdraw: the first
\* withdrawal of the second one re-derives nullifier (secret, 1) and is
\* refused.  The service passes one fixed secret for every owner, so in the
\* shipped wiring this is one withdrawing account per process.
SecretExclusiveIn(s) ==
    \A a, b \in Accounts :
        /\ SecretOf[a[1]] = SecretOf[b[1]]
        /\ s.accounts[a].nonce > 0
        /\ s.accounts[b].nonce > 0
        => a = b

SecretExclusive == SecretExclusiveIn(ls) /\ SecretExclusiveIn(committedSnapshot)

\* Funds are conserved: what an account holds plus what was debited from it is
\* what its applied deposits credited, through replays, stale requests and
\* rollbacks.
DepositedTo(s, a) ==
    MapThenSumSet(LAMBDA d : DepositRecord[d].amount,
                  {d \in s.appliedDeposits : DepositRecord[d].acct = a})

FundsConserved ==
    \A a \in Accounts :
        /\ ls.accounts[a].balance + spent[a] = DepositedTo(ls, a)
        /\ committedSnapshot.accounts[a].balance + spentAtBaseline[a]
             = DepositedTo(committedSnapshot, a)

\* Said in a comment of SubmitBatch on a failed proof verification and not true
\* of the code (README, "Disagreements"): "Off-chain pending state is left
\* untouched".
VerifyFailureLeavesStateUntouched ==
    [][lastSubmit' = "verifyFailed" => ls' = ls]_<<ls, lastSubmit>>
=============================================================================
