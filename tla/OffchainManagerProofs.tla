----------------------- MODULE OffchainManagerProofs -----------------------
(***************************************************************************)
(* The manager's invariants, proved for every set of owners, denoms,       *)
(* deposits, handlers and secrets and every amount.                        *)
(*                                                                         *)
(* Inv is inductive.  SecretExclusive is not so by itself: that the second *)
(* account of a secret is refused follows from the first one's nullifiers  *)
(* being in the set, which is NullifiersExact; and a rollback re-installs  *)
(* the baseline, so each part has to hold of committedSnapshot too.        *)
(***************************************************************************)
EXTENDS OffchainManager, LocalStateProofs

Inv == TypeOK /\ NullifiersExact /\ SecretExclusive

-----------------------------------------------------------------------------
(* The operators of LocalState *)

\* NewLocalState is a state, without nullifiers or spent nonces.
LEMMA NewLocalStateOK ==
    /\ NewLocalState \in State
    /\ NullifiersExactIn(NewLocalState)
    /\ SecretExclusiveIn(NewLocalState)
<1>1. NewLocalState \in State
  BY DEF NewLocalState, State, ZeroAccount, Account
<1>2. \A a \in Accounts : NewLocalState.accounts[a].nonce = 0
  BY DEF NewLocalState, ZeroAccount
<1>3. NullifiersExactIn(NewLocalState)
  <2>1. \A a \in Accounts : 1..NewLocalState.accounts[a].nonce = {}
    BY <1>2
  <2>2. \A a \in Accounts :
          {NullifierFor(SecretOf[a[1]], k) : k \in 1..NewLocalState.accounts[a].nonce} = {}
    BY <2>1
  <2>3. NewLocalState.appliedNullifiers = {}
    BY DEF NewLocalState
  <2> QED
    BY <2>2, <2>3 DEF NullifiersExactIn
<1>4. SecretExclusiveIn(NewLocalState)
  BY <1>2 DEF SecretExclusiveIn
<1> QED
  BY <1>1, <1>3, <1>4

\* ApplyDeposit maps states to states and leaves nonces and nullifiers alone.
LEMMA ApplyDepositOK ==
    ASSUME NEW s \in State, NEW d \in Deposits,
           NullifiersExactIn(s), SecretExclusiveIn(s)
    PROVE  /\ ApplyDeposit(s, d) \in State
           /\ NullifiersExactIn(ApplyDeposit(s, d))
           /\ SecretExclusiveIn(ApplyDeposit(s, d))
<1> DEFINE t == ApplyDeposit(s, d)
           r == DepositRecord[d]
           accounts == Credit(s.accounts, r.acct, r.amount)
<1>1. r.acct \in Accounts /\ r.amount \in Nat
  BY DepositRecordAssumption
<1>2. accounts \in [Accounts -> Account]
  BY <1>1 DEF Credit, State, Account
<1>3. \A a \in Accounts : accounts[a].nonce = s.accounts[a].nonce
  BY <1>1 DEF Credit, State, Account
<1>4. /\ t.accounts = accounts
      /\ t.root = ComputeRoot(accounts)
      /\ t.appliedDeposits = s.appliedDeposits \cup {d}
      /\ t.appliedNullifiers = s.appliedNullifiers
  BY DEF ApplyDeposit
<1>5. t \in State
  <2>1. ComputeRoot(accounts) \in [hash : SUBSET (Accounts \X Account)]
    BY <1>2, ComputeRootHash
  <2> HIDE DEF accounts
  <2> QED
    BY <1>2, <2>1 DEF ApplyDeposit, State, accounts
<1>6. \A a \in Accounts : t.accounts[a].nonce = s.accounts[a].nonce
  BY <1>3, <1>4
<1> HIDE DEF t
<1>7. NullifiersExactIn(t)
  BY <1>4, <1>6 DEF NullifiersExactIn
<1>8. SecretExclusiveIn(t)
  BY <1>6 DEF SecretExclusiveIn
<1> QED
  BY <1>5, <1>7, <1>8 DEF t

\* ApplyWithdrawal, under its guard, maps states to states; it raises one nonce
\* by one and adds the nullifier of that nonce, and it does so for the only
\* account of its secret that ever withdraws.
LEMMA ApplyWithdrawalOK ==
    ASSUME NEW s \in State, NEW req \in Request,
           NullifiersExactIn(s), SecretExclusiveIn(s),
           CanApplyWithdrawal(s, req, RequestNullifier(req))
    PROVE  /\ ApplyWithdrawal(s, req, RequestNullifier(req)) \in State
           /\ NullifiersExactIn(ApplyWithdrawal(s, req, RequestNullifier(req)))
           /\ SecretExclusiveIn(ApplyWithdrawal(s, req, RequestNullifier(req)))
<1> DEFINE n == RequestNullifier(req)
           t == ApplyWithdrawal(s, req, n)
           acct == req.acct
           secret == SecretOf[acct[1]]
           accounts == Debit(s.accounts, acct, req.amount)
<1>1. /\ acct \in Accounts
      /\ req.amount \in Nat
      /\ req.nonce = s.accounts[acct].nonce + 1
      /\ s.accounts[acct].balance >= req.amount
      /\ s.accounts \in [Accounts -> Account]
  BY WithdrawAmountsAssumption DEF Request, CanApplyWithdrawal, State
<1>2. secret \in Secrets /\ n = [secret |-> secret, nonce |-> req.nonce]
  BY <1>1, SecretOfAssumption DEF RequestNullifier, NullifierFor, Accounts
<1>3. accounts \in [Accounts -> Account]
  BY <1>1 DEF Debit, Account
<1>4. /\ accounts[acct].nonce = s.accounts[acct].nonce + 1
      /\ \A a \in Accounts : a # acct => accounts[a].nonce = s.accounts[a].nonce
  BY <1>1 DEF Debit, Account
<1>5. /\ t.accounts = accounts
      /\ t.appliedNullifiers = s.appliedNullifiers \cup {n}
  BY DEF ApplyWithdrawal
<1>6. t \in State
  <2>1. ComputeRoot(accounts) \in [hash : SUBSET (Accounts \X Account)]
    BY <1>3, ComputeRootHash
  <2>2. n \in Nullifier
    BY <1>1, <1>2 DEF Nullifier, Account
  <2> HIDE DEF accounts, n
  <2> QED
    BY <1>3, <2>1, <2>2 DEF ApplyWithdrawal, State, accounts
<1>7. \A a \in Accounts : s.accounts[a].nonce \in Nat
  BY <1>1 DEF Account
<1> HIDE DEF t, n, accounts
<1>8. NullifiersExactIn(t)
  <2> DEFINE Spent(x, a) == {NullifierFor(SecretOf[a[1]], k) : k \in 1..x.accounts[a].nonce}
  <2>1. s.appliedNullifiers = UNION {Spent(s, a) : a \in Accounts}
    BY DEF NullifiersExactIn
  <2>2. \A a \in Accounts : a # acct => Spent(t, a) = Spent(s, a)
    BY <1>4, <1>5
  <2>3. Spent(t, acct) = Spent(s, acct) \cup {n}
    <3>1. 1..t.accounts[acct].nonce = 1..s.accounts[acct].nonce \cup {req.nonce}
      BY <1>1, <1>4, <1>5, <1>7
    <3>2. n = NullifierFor(secret, req.nonce)
      BY <1>2 DEF NullifierFor
    <3> QED
      BY <3>1, <3>2
  <2> HIDE DEF Spent
  <2>4. \A x : (\E a \in Accounts : x \in Spent(t, a))
                 <=> (\E a \in Accounts : x \in Spent(s, a)) \/ x = n
    BY <1>1, <2>2, <2>3
  <2>5. \A x : x \in t.appliedNullifiers <=> \E a \in Accounts : x \in Spent(t, a)
    <3>1. \A x : x \in s.appliedNullifiers <=> \E a \in Accounts : x \in Spent(s, a)
      BY <2>1
    <3> QED
      BY <1>5, <2>4, <3>1
  <2>6. t.appliedNullifiers = UNION {Spent(t, a) : a \in Accounts}
    BY <2>5
  <2> QED
    BY <2>6 DEF NullifiersExactIn, Spent
<1>9. SecretExclusiveIn(t)
  <2>1. ASSUME NEW b \in Accounts, b # acct, SecretOf[b[1]] = secret, s.accounts[b].nonce > 0
        PROVE  FALSE
    <3>1. CASE s.accounts[acct].nonce > 0
      BY <1>1, <2>1, <3>1 DEF SecretExclusiveIn
    <3>2. CASE ~(s.accounts[acct].nonce > 0)
      <4>1. req.nonce = 1
        BY <1>1, <1>7, <3>2
      <4>2. n = NullifierFor(SecretOf[b[1]], 1)
        BY <1>2, <2>1, <4>1 DEF NullifierFor
      <4>3. 1 \in 1..s.accounts[b].nonce
        BY <1>7, <2>1
      <4>4. n \in s.appliedNullifiers
        BY <2>1, <4>2, <4>3 DEF NullifiersExactIn
      <4> QED
        BY <4>4 DEF CanApplyWithdrawal, n
    <3> QED
      BY <3>1, <3>2
  <2> QED
    BY <1>1, <1>4, <1>5, <2>1 DEF SecretExclusiveIn
<1> QED
  BY <1>6, <1>8, <1>9 DEF t, n
-----------------------------------------------------------------------------
(* The specification *)

\* Every initial state satisfies the inductive invariant.
LEMMA InitInv == Init => Inv
<1> SUFFICES ASSUME Init PROVE Inv
  OBVIOUS
<1> QED
  BY NewLocalStateOK
     DEF Init, Inv, TypeOK, NullifiersExact, SecretExclusive, SubmitOutcome

\* Every step keeps the inductive invariant.
LEMMA NextInv == Inv /\ [Next]_vars => Inv'
<1> SUFFICES ASSUME Inv, [Next]_vars PROVE Inv'
  OBVIOUS
<1> USE DEF Inv, TypeOK, NullifiersExact, SecretExclusive
<1>1. ASSUME NEW d \in Deposits, IndexDeposit(d) PROVE Inv'
  <2>1. /\ ls' \in State
        /\ NullifiersExactIn(ls')
        /\ SecretExclusiveIn(ls')
    BY <1>1, ApplyDepositOK DEF IndexDeposit
  <2> QED
    BY <1>1, <2>1 DEF IndexDeposit
<1>2. ASSUME NEW h \in Handlers, BuildRequest(h) PROVE Inv'
  <2>1. PICK a \in Accounts, amount \in WithdrawAmounts :
          inflight' = [inflight EXCEPT ![h] = BuildWithdrawRequest(ls, a, amount, h)]
    BY <1>2 DEF BuildRequest
  <2>2. BuildWithdrawRequest(ls, a, amount, h) \in Request
    BY DEF BuildWithdrawRequest, Request, State, Account
  <2>3. inflight' \in [Handlers -> {NoRequest} \cup Request]
    BY <2>1, <2>2
  <2> QED
    BY <1>2, <2>3 DEF BuildRequest
<1>3. ASSUME NEW h \in Handlers, ApplyRequest(h) PROVE Inv'
  <2>1. inflight[h] \in Request
    BY <1>3 DEF ApplyRequest
  <2>2. /\ ls' \in State
        /\ NullifiersExactIn(ls')
        /\ SecretExclusiveIn(ls')
    BY <1>3, <2>1, ApplyWithdrawalOK DEF ApplyRequest
  <2>3. spent' \in [Accounts -> Nat]
    <3>1. inflight[h].acct \in Accounts /\ inflight[h].amount \in Nat
      BY <2>1, WithdrawAmountsAssumption DEF Request
    <3>2. spent' = [spent EXCEPT ![inflight[h].acct] = @ + inflight[h].amount]
      BY <1>3 DEF ApplyRequest
    <3> QED
      BY <3>1, <3>2
  <2>4. inflight' \in [Handlers -> {NoRequest} \cup Request]
    BY <1>3 DEF ApplyRequest
  <2> QED
    BY <1>3, <2>2, <2>3, <2>4 DEF ApplyRequest
<1>4. ASSUME NEW h \in Handlers, RefuseRequest(h) PROVE Inv'
  <2>1. inflight' \in [Handlers -> {NoRequest} \cup Request]
    BY <1>4 DEF RefuseRequest
  <2> QED
    BY <1>4, <2>1 DEF RefuseRequest
<1>5. CASE CommitBaseline
  BY <1>5 DEF CommitBaseline, SubmitOutcome
<1>6. ASSUME NEW outcome \in {"verifyFailed", "relayerFailed", "notAccepted"},
             RollbackToBaseline(outcome)
      PROVE  Inv'
  BY <1>6 DEF RollbackToBaseline, SubmitOutcome
<1>7. CASE UNCHANGED vars
  BY <1>7 DEF vars
<1> QED
  BY <1>1, <1>2, <1>3, <1>4, <1>5, <1>6, <1>7 DEF Next, SubmitBatch

\* The inductive invariant holds throughout.
THEOREM Invariance == Spec => []Inv
<1> QED
  BY InitInv, NextInv, PTL DEF Spec

\* The manager is type correct: whatever requests were built from a state that
\* is gone when they are applied, balances never go below zero.
THEOREM TypeCorrect == Spec => []TypeOK
<1>1. Inv => TypeOK
  BY DEF Inv
<1> QED
  BY Invariance, <1>1, PTL

\* The nullifier set is exactly the set of nullifiers of the nonces used, in
\* the live state and in the rollback baseline (ApplyWithdrawal, Rollback).
THEOREM NullifiersAreExact == Spec => []NullifiersExact
<1>1. Inv => NullifiersExact
  BY DEF Inv
<1> QED
  BY Invariance, <1>1, PTL

\* Accounts nullified with one secret never both withdraw (NullifierFor binds
\* neither owner nor denom).
THEOREM OneWithdrawerPerSecret == Spec => []SecretExclusive
<1>1. Inv => SecretExclusive
  BY DEF Inv
<1> QED
  BY Invariance, <1>1, PTL

-----------------------------------------------------------------------------
(* Funds *)

\* A state whose balances, with what was debited, are what its deposits credited.
Balanced(s, debited) ==
    /\ IsFiniteSet(s.appliedDeposits)
    /\ \A a \in Accounts : s.accounts[a].balance + debited[a] = DepositedTo(s, a)

\* The live state and the baseline are both balanced: a rollback installs the baseline.
Funds == Balanced(ls, spent) /\ Balanced(committedSnapshot, spentAtBaseline)

\* Initially nothing was deposited and nothing debited.
LEMMA InitFunds == Init => Funds
<1> SUFFICES ASSUME Init PROVE Funds
  OBVIOUS
<1> DEFINE zero == [a \in Accounts |-> 0]
<1>1. Balanced(NewLocalState, zero)
  <2>1. NewLocalState.appliedDeposits = {} /\ IsFiniteSet({})
    BY FS_EmptySet DEF NewLocalState
  <2>2. ASSUME NEW a \in Accounts PROVE DepositedTo(NewLocalState, a) = 0
    <3>1. DepositedTo(NewLocalState, a) = Deposited({}, a)
      BY <2>1 DEF DepositedTo, Deposited
    <3>2. Deposited({}, a) = 0
      BY <2>1, DepositedNat
    <3> QED
      BY <3>1, <3>2
  <2>3. \A a \in Accounts : NewLocalState.accounts[a].balance + zero[a] = 0
    BY DEF NewLocalState, ZeroAccount
  <2> QED
    BY <2>1, <2>2, <2>3 DEF Balanced
<1> QED
  BY <1>1 DEF Init, Funds

\* A deposit credits its account by its amount, once.
LEMMA DepositFunds ==
    ASSUME NEW s \in State, NEW debited \in [Accounts -> Nat], NEW d \in Deposits,
           Balanced(s, debited), CanApplyDeposit(s, d)
    PROVE  Balanced(ApplyDeposit(s, d), debited)
<1> DEFINE t == ApplyDeposit(s, d)
           D == s.appliedDeposits
           r == DepositRecord[d]
<1>1. r.acct \in Accounts /\ r.amount \in Nat
  BY DepositRecordAssumption
<1>2. D \in SUBSET Deposits /\ IsFiniteSet(D) /\ d \notin D
  BY DEF State, Balanced, CanApplyDeposit
<1>3. t.appliedDeposits = D \cup {d} /\ t.accounts = Credit(s.accounts, r.acct, r.amount)
  BY DEF ApplyDeposit
<1>4. IsFiniteSet(t.appliedDeposits)
  BY <1>2, <1>3, FS_AddElement
<1>5. ASSUME NEW a \in Accounts PROVE t.accounts[a].balance + debited[a] = DepositedTo(t, a)
  <2> DEFINE more == IF a = r.acct THEN r.amount ELSE 0
  <2>1. DepositedTo(t, a) = Deposited(D \cup {d}, a) /\ DepositedTo(s, a) = Deposited(D, a)
    BY <1>3 DEF DepositedTo, Deposited
  <2>2. Deposited(D \cup {d}, a) = Deposited(D, a) + more
    <3> HIDE DEF D
    <3> QED
      BY <1>2, DepositedGrows
  <2>3. s.accounts[a].balance \in Nat /\ debited[a] \in Nat /\ more \in Nat
    BY <1>1 DEF State, Account
  <2>4. t.accounts[a].balance = s.accounts[a].balance + more
    <3>1. s.accounts \in [Accounts -> Account]
      BY DEF State
    <3> HIDE DEF t
    <3> QED
      BY <1>1, <1>3, <3>1 DEF Credit, Account
  <2>5. s.accounts[a].balance + debited[a] = Deposited(D, a)
    BY <2>1 DEF Balanced
  <2> HIDE DEF t, D, more
  <2> QED
    BY <2>1, <2>2, <2>3, <2>4, <2>5
<1> QED
  BY <1>4, <1>5 DEF Balanced

\* A withdrawal moves its amount from the balance to what was debited.
LEMMA WithdrawalFunds ==
    ASSUME NEW s \in State, NEW debited \in [Accounts -> Nat], NEW req \in Request, NEW n,
           Balanced(s, debited)
    PROVE  Balanced(ApplyWithdrawal(s, req, n), [debited EXCEPT ![req.acct] = @ + req.amount])
<1> DEFINE t == ApplyWithdrawal(s, req, n)
           e == [debited EXCEPT ![req.acct] = @ + req.amount]
<1>1. req.acct \in Accounts /\ req.amount \in Nat /\ s.accounts \in [Accounts -> Account]
  BY WithdrawAmountsAssumption DEF Request, State
<1>2. t.appliedDeposits = s.appliedDeposits /\ t.accounts = Debit(s.accounts, req.acct, req.amount)
  BY DEF ApplyWithdrawal
<1>3. ASSUME NEW a \in Accounts PROVE t.accounts[a].balance + e[a] = DepositedTo(t, a)
  <2>1. DepositedTo(t, a) = DepositedTo(s, a)
    BY <1>2 DEF DepositedTo
  <2>2. s.accounts[a].balance + debited[a] = DepositedTo(s, a)
    BY DEF Balanced
  <2>3. s.accounts[a].balance \in Nat /\ debited[a] \in Nat
    BY <1>1 DEF Account
  <2> HIDE DEF t
  <2>4. CASE a = req.acct
    <3>1. t.accounts[a].balance = s.accounts[a].balance - req.amount
      BY <1>1, <1>2, <2>4 DEF Debit
    <3>2. e[a] = debited[a] + req.amount
      BY <2>4
    <3> QED
      BY <1>1, <2>1, <2>2, <2>3, <3>1, <3>2
  <2>5. CASE a # req.acct
    <3>1. t.accounts[a].balance = s.accounts[a].balance
      BY <1>1, <1>2, <2>5 DEF Debit
    <3>2. e[a] = debited[a]
      BY <2>5
    <3> QED
      BY <2>1, <2>2, <3>1, <3>2
  <2> QED
    BY <2>4, <2>5
<1> QED
  BY <1>2, <1>3 DEF Balanced

\* Every step keeps both states balanced.
LEMMA NextFunds == Inv /\ Funds /\ [Next]_vars => Funds'
<1> SUFFICES ASSUME Inv, Funds, [Next]_vars PROVE Funds'
  OBVIOUS
<1> USE DEF Funds
<1>0. /\ ls \in State /\ spent \in [Accounts -> Nat]
      /\ inflight \in [Handlers -> {NoRequest} \cup Request]
  BY DEF Inv, TypeOK
<1>1. ASSUME NEW d \in Deposits, IndexDeposit(d) PROVE Funds'
  <2>1. Balanced(ls', spent)
    BY <1>0, <1>1, DepositFunds DEF IndexDeposit
  <2> QED
    BY <1>1, <2>1 DEF IndexDeposit
<1>2. ASSUME NEW h \in Handlers, ApplyRequest(h) PROVE Funds'
  <2> DEFINE req == inflight[h]
             n == RequestNullifier(req)
  <2>1. /\ req \in Request
        /\ ls' = ApplyWithdrawal(ls, req, n)
        /\ spent' = [spent EXCEPT ![req.acct] = @ + req.amount]
        /\ UNCHANGED <<committedSnapshot, spentAtBaseline>>
    BY <1>0, <1>2 DEF ApplyRequest
  <2> HIDE DEF req, n
  <2>2. Balanced(ls', spent')
    BY <1>0, <2>1, WithdrawalFunds
  <2> QED
    BY <2>1, <2>2
<1>3. ASSUME NEW h \in Handlers, BuildRequest(h) \/ RefuseRequest(h) PROVE Funds'
  BY <1>3 DEF BuildRequest, RefuseRequest
<1>4. CASE CommitBaseline
  BY <1>4 DEF CommitBaseline
<1>5. ASSUME NEW outcome \in {"verifyFailed", "relayerFailed", "notAccepted"},
             RollbackToBaseline(outcome)
      PROVE  Funds'
  BY <1>5 DEF RollbackToBaseline
<1>6. CASE UNCHANGED vars
  BY <1>6 DEF vars
<1> QED
  BY <1>1, <1>2, <1>3, <1>4, <1>5, <1>6 DEF Next, SubmitBatch

\* Funds are conserved for every set of deposits, accounts and amounts: replays,
\* stale requests and rollbacks neither create nor lose a unit (ApplyDeposit,
\* ApplyWithdrawal, Rollback).
THEOREM FundsAreConserved == Spec => []FundsConserved
<1>1. Inv /\ Funds => FundsConserved
  BY DEF Funds, Balanced, FundsConserved
<1> QED
  BY InitInv, NextInv, InitFunds, NextFunds, <1>1, PTL DEF Spec
=============================================================================
