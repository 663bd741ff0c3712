--------------------------- MODULE BatchContract ---------------------------
(***************************************************************************)
(* What ties a batch to its proof: the commitments of a settlement update  *)
(* (internal/batch/commitments.go), the six public inputs, which the code  *)
(* lists in three places (internal/batch/public_inputs.go,                 *)
(* internal/prover/client.go, internal/relayer/client.go), and the checks  *)
(* that compare them (internal/service/batch_service.go,                   *)
(* internal/prover/verifier_artifact_validation.go).                       *)
(*                                                                         *)
(* A settlement update is [batch, old, new, deposits, withdrawals]:        *)
(* deposits is a sequence of deposit ids, withdrawals a sequence of        *)
(* [id, acct, amount, dest, destHash, nullifier].  A hash is its input     *)
(* under a domain tag.  Roots and hashes are well-formed hex strings, so   *)
(* the format checks never fire and are left out.                          *)
(***************************************************************************)
EXTENDS LocalState, Sequences

CONSTANTS
    Keys,          \* verification key ids the remote prover can run
    ExpectedKey,   \* PROOF_VERIFICATION_KEY_ID
    LocalKey       \* the key id of the in-process prover, "local-v1"

ASSUME KeysAssumption == ExpectedKey \in Keys

-----------------------------------------------------------------------------
(* Commitments *)

WithdrawAddressHash(dest) == [destination |-> dest]

\* Mutant: the deposit ids are left out of the hash.
DepositsRootWithoutIds(deposits) ==
    [tag   |-> "deposits",
     items |-> [i \in DOMAIN deposits |-> DepositRecord[deposits[i]]]]

DepositsRoot(deposits) ==
    [tag   |-> "deposits",
     items |-> [i \in DOMAIN deposits |-> <<deposits[i], DepositRecord[deposits[i]]>>]]

WithdrawalsRoot(withdrawals) == [tag |-> "withdrawals", items |-> withdrawals]

NullifiersRoot(withdrawals) ==
    [tag   |-> "nullifiers",
     items |-> [i \in DOMAIN withdrawals |-> withdrawals[i].nullifier]]

\* The payout the chain makes: destination hash, amount and denom.
WithdrawOutputsRoot(withdrawals) ==
    [tag   |-> "outputs",
     items |-> [i \in DOMAIN withdrawals |->
                  <<withdrawals[i].destHash, withdrawals[i].amount, withdrawals[i].acct[2]>>]]

BuildCommitments(upd) ==
    [deposits    |-> DepositsRoot(upd.deposits),
     withdrawals |-> WithdrawalsRoot(upd.withdrawals),
     nullifiers  |-> NullifiersRoot(upd.withdrawals),
     outputs     |-> WithdrawOutputsRoot(upd.withdrawals)]

-----------------------------------------------------------------------------
(* The six public inputs: as the batch package derives them, as a prover   *)
(* returns them and as the local relayer expects them.                     *)

\* PublicInputBuilder.Build refuses a batch that leaves the root as it is.
CanBuildPublicInputs(upd) == upd.old # upd.new

\* Mutant: two of the indices are exchanged.
BuildPublicInputsSwapped(upd, com) ==
    <<upd.old, upd.new, com.deposits, com.withdrawals, com.outputs, com.nullifiers>>

BuildPublicInputs(upd, com) ==
    <<upd.old, upd.new, com.deposits, com.withdrawals, com.nullifiers, com.outputs>>

ProverPublicInputs(upd, com) ==
    <<upd.old, upd.new, com.deposits, com.withdrawals, com.nullifiers, com.outputs>>

RelayerPublicInputs(upd, com) ==
    <<upd.old, upd.new, com.deposits, com.withdrawals, com.nullifiers, com.outputs>>

-----------------------------------------------------------------------------
(* Proofs *)

\* prover.Client.GenerateProof; "of" is history: the batch it was asked for.
ProofFor(upd, key) ==
    [key |-> key, inputs |-> ProverPublicInputs(upd, BuildCommitments(upd)), of |-> upd.batch]

\* ValidateProofBundleMatchesVerifierArtifact: the prover still runs the
\* circuit the proof was made with.
MatchesVerifierArtifact(bundle, advertisedKey) == bundle.key = advertisedKey

\* guardProofContract, before the verifier is asked.
GuardProofContract(upd, bundle) ==
    /\ bundle.key = ExpectedKey
    /\ CanBuildPublicInputs(upd)
    /\ bundle.inputs = BuildPublicInputs(upd, BuildCommitments(upd))

\* The local relayer's only check.
ValidatePublicInputs(upd, bundle) ==
    bundle.inputs = RelayerPublicInputs(upd, BuildCommitments(upd))
=============================================================================
