-------------------------- MODULE LocalStateProofs --------------------------
(***************************************************************************)
(* Accounts and their roots: what the root of a state says about it; and   *)
(* what the deposits of an account add up to.                              *)
(***************************************************************************)
EXTENDS LocalState, Induction

\* The accounts of a state.
Accounting == [Accounts -> Account]

\* A state root is the hash of a set of (account, value) pairs.
LEMMA ComputeRootHash ==
    ASSUME NEW accounts \in [Accounts -> Account]
    PROVE  ComputeRoot(accounts) \in [hash : SUBSET (Accounts \X Account)]
<1>1. AccountSnapshot(accounts) \subseteq Accounts \X Account
  BY DEF AccountSnapshot
<1> QED
  BY <1>1 DEF ComputeRoot

\* A root tells the accounts it is the root of.
IsRoot(root, accounts) ==
    root = ComputeRoot(accounts) \/ (root = GenesisRoot /\ accounts = NewLocalState.accounts)

\* Two accounts with the same root are the same.
LEMMA RootInjective ==
    ASSUME NEW root, NEW A \in Accounting, NEW B \in Accounting, IsRoot(root, A), IsRoot(root, B)
    PROVE  A = B
<1> DEFINE Zero == [a \in Accounts |-> ZeroAccount]
           Snap(C) == AccountSnapshot(C)
<1>1. NewLocalState.accounts = Zero
  BY DEF NewLocalState
<1>2. ASSUME NEW C \in Accounting, NEW D \in Accounting, NEW a \in Accounts,
             Snap(C) = Snap(D), C[a] # ZeroAccount
      PROVE  C[a] = D[a]
  <2>1. <<a, C[a]>> \in Snap(D)
    BY <1>2 DEF AccountSnapshot
  <2> QED
    BY <2>1 DEF AccountSnapshot
<1>3. ASSUME NEW C \in Accounting, NEW D \in Accounting, Snap(C) = Snap(D) PROVE C = D
  <2>1. \A a \in Accounts : C[a] = D[a]
    BY <1>2, <1>3
  <2> QED
    BY <2>1 DEF Accounting
<1>4. ASSUME NEW C \in Accounting, GenesisRoot = ComputeRoot(C) PROVE C = Zero
  <2>1. Snap(C) \in SUBSET (Accounts \X Account)
    BY DEF AccountSnapshot, Accounting
  <2>2. Snap(C) = {}
    <3> DEFINE T == (SUBSET (Accounts \X Account)) \ {{}}
               x == Snap(C)
    <3>1. [hash |-> x] \notin [hash : T]
      BY <1>4, GenesisRootAssumption DEF ComputeRoot
    <3> HIDE DEF x
    <3>2. x \in SUBSET (Accounts \X Account)
      BY <2>1 DEF x
    <3>3. x \notin T
      <4> HIDE DEF T
      <4> QED
        BY <3>1
    <3>4. x = {}
      BY <3>2, <3>3
    <3> QED
      BY <3>4 DEF x
  <2>3. \A a \in Accounts : C[a] = ZeroAccount
    BY <2>2 DEF AccountSnapshot
  <2> QED
    BY <2>3 DEF Accounting
<1>5. ASSUME root = ComputeRoot(A), root = ComputeRoot(B) PROVE A = B
  <2>1. Snap(A) = Snap(B)
    BY <1>5 DEF ComputeRoot
  <2> QED
    BY <1>3, <2>1
<1> HIDE DEF Zero, Snap
<1> QED
  BY <1>1, <1>4, <1>5 DEF IsRoot

-----------------------------------------------------------------------------
(* What deposits add up to *)

\* The applied deposits of an account, and the amount of each.
DepositsTo(D, a) == {d \in D : DepositRecord[d].acct = a}

AmountsOf(D) == [d \in D |-> DepositRecord[d].amount]

\* What DepositedTo adds up, of a set of applied deposits.
Deposited(D, a) ==
    MapThenSumSet(LAMBDA d : DepositRecord[d].amount, {d \in D : DepositRecord[d].acct = a})

\* It is a sum, in the order MapThenSumSet happens to take.
LEMMA DepositedSum ==
    ASSUME NEW D \in SUBSET Deposits, IsFiniteSet(D), NEW a
    PROVE  \E g : /\ Sums(g, AmountsOf(DepositsTo(D, a)), DepositsTo(D, a))
                  /\ Deposited(D, a) = g[DepositsTo(D, a)]
<1> DEFINE S == DepositsTo(D, a)
           w == AmountsOf(S)
           Pick(s) == CHOOSE y \in s : TRUE
           Def(g) == [s \in SUBSET S |-> IF s = {} THEN 0
                                         ELSE DepositRecord[Pick(s)].amount + g[s \ {Pick(s)}]]
           iter == CHOOSE g : g = Def(g)
<1>1. Deposited(D, a) = iter[S]
  BY DEF Deposited, MapThenSumSet, MapThenFoldSet, DepositsTo
<1>2. S \in SUBSET Deposits /\ S \in SUBSET D /\ IsFiniteSet(S)
  <2>1. S \in SUBSET D
    BY DEF DepositsTo
  <2> QED
    BY <2>1, FS_Subset
<1> HIDE DEF S
<1>3. w \in [S -> Nat] /\ \A x \in S : w[x] = DepositRecord[x].amount
  BY <1>2, DepositRecordAssumption DEF AmountsOf
<1> HIDE DEF w
<1>4. PICK f : Sums(f, w, S)
  BY <1>2, <1>3, SumExists
<1>5. ASSUME NEW s \in SUBSET S, s # {} PROVE Pick(s) \in S
  BY <1>5
<1>6. f = Def(f)
  <2>1. f \in [SUBSET S -> Nat] /\ f[{}] = 0
    BY <1>4 DEF Sums
  <2>2. ASSUME NEW s \in SUBSET S, s # {}
        PROVE  f[s] = DepositRecord[Pick(s)].amount + f[s \ {Pick(s)}]
    <3>1. f[s] = w[Pick(s)] + f[s \ {Pick(s)}]
      BY <1>4, <2>2 DEF Sums
    <3> HIDE DEF Pick
    <3> QED
      BY <3>1, <1>3, <1>5, <2>2
  <2> HIDE DEF Pick
  <2> QED
    BY <2>1, <2>2
<1>7. iter = Def(iter)
  <2> HIDE DEF Def
  <2> QED
    BY <1>6
<1> HIDE DEF iter
<1>8. Iterates(iter, w, S)
  <2>1. \A s \in SUBSET S : s # {} => w[Pick(s)] = DepositRecord[Pick(s)].amount
    BY <1>3
  <2>2. iter = [s \in SUBSET S |-> IF s = {} THEN 0 ELSE w[Pick(s)] + iter[s \ {Pick(s)}]]
    <3> HIDE DEF Pick
    <3> QED
      BY <1>7, <2>1
  <2> QED
    BY <2>2 DEF Iterates
<1>9. iter = f
  BY <1>2, <1>3, <1>4, <1>8, SumIterates
<1> QED
  BY <1>1, <1>4, <1>9 DEF S, w

\* One more deposit adds its amount to its account.
LEMMA DepositedGrows ==
    ASSUME NEW D \in SUBSET Deposits, IsFiniteSet(D), NEW d \in Deposits, d \notin D, NEW a
    PROVE  Deposited(D \cup {d}, a)
             = Deposited(D, a) + IF a = DepositRecord[d].acct THEN DepositRecord[d].amount ELSE 0
<1> DEFINE S == DepositsTo(D, a)
           T == DepositsTo(D \cup {d}, a)
<1>1. IsFiniteSet(D \cup {d}) /\ D \cup {d} \in SUBSET Deposits
  BY FS_AddElement
<1>2. PICK g : Sums(g, AmountsOf(S), S) /\ Deposited(D, a) = g[S]
  BY DepositedSum
<1>3. PICK h : Sums(h, AmountsOf(T), T) /\ Deposited(D \cup {d}, a) = h[T]
  <2> DEFINE E == D \cup {d}
  <2> HIDE DEF E
  <2>1. PICK h : Sums(h, AmountsOf(DepositsTo(E, a)), DepositsTo(E, a))
                 /\ Deposited(E, a) = h[DepositsTo(E, a)]
    BY <1>1, DepositedSum DEF E
  <2> QED
    BY <2>1 DEF E
<1>4. S \in SUBSET Deposits /\ S \in SUBSET D /\ IsFiniteSet(S)
  <2>1. S \in SUBSET D
    BY DEF DepositsTo
  <2> QED
    BY <2>1, FS_Subset
<1>5. CASE a # DepositRecord[d].acct
  <2>1. T = S
    BY <1>5 DEF DepositsTo
  <2>2. Deposited(D \cup {d}, a) = Deposited(D, a)
    BY <2>1 DEF Deposited, DepositsTo
  <2>3. Deposited(D, a) \in Nat
    <3>1. S \in SUBSET S
      OBVIOUS
    <3> HIDE DEF S
    <3> QED
      BY <1>2, <3>1 DEF Sums
  <2> QED
    BY <1>5, <2>2, <2>3
<1>6. CASE a = DepositRecord[d].acct
  <2>1. T = S \cup {d} /\ d \notin S
    BY <1>6 DEF DepositsTo
  <2> DEFINE w == AmountsOf(T)
             v == AmountsOf(S)
  <2>2. w \in [T -> Nat] /\ w[d] = DepositRecord[d].amount
    BY <1>4, <2>1, DepositRecordAssumption DEF AmountsOf
  <2>3. v = [y \in S |-> w[y]]
    BY <2>1 DEF AmountsOf
  <2>4. Sums(h, w, T) /\ Sums(g, v, S)
    BY <1>2, <1>3
  <2>5. Deposited(D \cup {d}, a) = h[T] /\ Deposited(D, a) = g[S]
    BY <1>2, <1>3
  <2> HIDE DEF S, T, w, v
  <2>6. h[T] = g[S] + w[d]
    BY <1>4, <2>1, <2>2, <2>3, <2>4, SumAdd
  <2> QED
    BY <1>6, <2>2, <2>5, <2>6
<1> QED
  BY <1>5, <1>6

\* Sums are natural numbers, and nothing adds up to nothing.
LEMMA DepositedNat ==
    ASSUME NEW D \in SUBSET Deposits, IsFiniteSet(D), NEW a
    PROVE  Deposited(D, a) \in Nat /\ (D = {} => Deposited(D, a) = 0)
<1> DEFINE S == DepositsTo(D, a)
<1>1. PICK g : Sums(g, AmountsOf(S), S) /\ Deposited(D, a) = g[S]
  BY DepositedSum
<1>2. S \in SUBSET S /\ (D = {} => S = {})
  BY DEF DepositsTo
<1> HIDE DEF S
<1>3. g \in [SUBSET S -> Nat] /\ g[{}] = 0
  BY <1>1 DEF Sums
<1>4. g[S] \in Nat
  BY <1>2, <1>3
<1> QED
  BY <1>1, <1>2, <1>3, <1>4

\* A part of the deposits adds up to no more than all of them.
LEMMA DepositedMonotone ==
    ASSUME NEW D \in SUBSET Deposits, IsFiniteSet(D), NEW E \in SUBSET D, NEW a
    PROVE  Deposited(E, a) <= Deposited(D, a)
<1> DEFINE F == [X \in SUBSET D |-> Deposited(X, a)]
<1>1. ASSUME NEW X \in SUBSET D PROVE X \in SUBSET Deposits /\ IsFiniteSet(X) /\ Deposited(X, a) \in Nat
  BY DepositedNat, FS_Subset
<1>2. ASSUME NEW X \in SUBSET D, NEW x \in D PROVE F[X] <= F[X \cup {x}]
  <2> DEFINE Y == X \cup {x}
             more == IF a = DepositRecord[x].acct THEN DepositRecord[x].amount ELSE 0
  <2>1. Y \in SUBSET D /\ F[X] = Deposited(X, a) /\ F[Y] = Deposited(Y, a)
    OBVIOUS
  <2>2. CASE x \in X
    <3>1. Y = X
      BY <2>2
    <3> QED
      BY <1>1, <2>1, <3>1
  <2>3. CASE x \notin X
    <3>1. Deposited(Y, a) = Deposited(X, a) + more
      BY <1>1, <2>3, DepositedGrows
    <3>2. more \in Nat
      BY DepositRecordAssumption
    <3>3. Deposited(X, a) \in Nat
      BY <1>1
    <3> HIDE DEF F, Y, more
    <3> QED
      BY <2>1, <3>1, <3>2, <3>3 DEF Y
  <2> QED
    BY <2>2, <2>3
<1>3. Grows(F, D)
  BY <1>1, <1>2 DEF Grows
<1>4. F[E] <= F[D]
  <2> HIDE DEF F
  <2> QED
    BY <1>3, GrowsMonotone
<1> QED
  BY <1>4
=============================================================================
