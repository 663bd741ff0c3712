-------------------------- MODULE ManualModeProofs --------------------------
(***************************************************************************)
(* Manual mode for every wiring, every set of owners, deposits, keys and   *)
(* request bodies, and any number of batches, proofs and submits in any    *)
(* order.                                                                  *)
(***************************************************************************)
EXTENDS ManualMode, LocalStateProofs

-----------------------------------------------------------------------------
(* The folds of the builders and of the chain: f[n] is the value after the *)
(* first n elements                                                        *)

\* A sequence of deposits, and one of requests, as a build is given them.
DepositSeq(p, M) == DOMAIN p = 1..M /\ \A i \in 1..M : p[i] \in Deposits

RequestSeq(q, N) ==
    DOMAIN q = 1..N /\ \A i \in 1..N : q[i].acct \in Accounts /\ q[i].amount \in Nat /\ q[i].nonce \in Nat

AfterDeposits(base, q) == FoldLeft(TryDeposit, base, q)

AfterRequests(base, q) == FoldLeft(TryWithdrawal, base, q)

Credited(base, q) == FoldLeft(CreditDeposit, base, q)

Debited(base, q) == FoldLeft(DebitWithdrawal, base, q)

AddDeposit(owner, sum, d) ==
    IF DepositRecord[d].acct[1] = owner THEN sum + DepositRecord[d].amount ELSE sum

AddWithdrawal(owner, sum, r) == IF r.acct[1] = owner THEN sum + r.amount ELSE sum

\* The working state through the deposits of a build.
TryDepositPath(f, S, N, base, q) ==
    /\ f \in [0..N -> S]
    /\ f[0] = base
    /\ \A n \in 1..N : f[n] = TryDeposit(f[n - 1], q[n])

\* Such a path ends in the fold.
LEMMA TryDepositFold ==
    ASSUME NEW S, NEW base \in S, NEW N \in Nat, NEW q, DOMAIN q = 1..N,
           \A n \in 1..N : \A s \in S : TryDeposit(s, q[n]) \in S
    PROVE  \E f : TryDepositPath(f, S, N, base, q) /\ AfterDeposits(base, q) = f[N]
<1> DEFINE Step(n, s) == TryDeposit(s, q[n])
           Def(g) == [s \in SUBSET (1..N) |->
                         IF s = {} THEN base ELSE Step(Max(s), g[s \ {Max(s)}])]
           fold == CHOOSE g : g = Def(g)
           step == [n \in 1..N |-> [s \in S |-> Step(n, s)]]
           f == [n \in 0..N |-> fold[1..n]]
<1>1. AfterDeposits(base, q) = fold[1..N]
  BY DEF AfterDeposits, FoldLeft, MapThenFoldSet
<1>2. \A n \in 1..N : \A s : Step(n, s) = TryDeposit(s, q[n])
  OBVIOUS
<1>3. \A n \in 1..N : \A s \in S : Step(n, s) \in S
  OBVIOUS
<1> HIDE DEF Step
<1>4. fold = Def(fold)
  <2>1. step \in [1..N -> [S -> S]]
    BY <1>3
  <2>2. PICK g : Folds(g, N, S, base, step)
    <3> HIDE DEF step
    <3> QED
      BY <2>1, FoldExists
  <2>3. ASSUME NEW s \in SUBSET (1..N), s # {} PROVE g[s] = Step(Max(s), g[s \ {Max(s)}])
    <3>1. Max(s) \in 1..N
      BY <2>3, MaxOf
    <3>2. g[s \ {Max(s)}] \in S /\ g[s] = step[Max(s)][g[s \ {Max(s)}]]
      BY <2>2, <2>3 DEF Folds
    <3> QED
      BY <3>1, <3>2
  <2>4. g = Def(g)
    BY <2>2, <2>3 DEF Folds
  <2> HIDE DEF Def
  <2> QED
    BY <2>4
<1> HIDE DEF fold, step
<1>5. fold[1..0] = base
  <2>1. 1..0 = {}
    OBVIOUS
  <2> QED
    BY <1>4, <2>1
<1>6. ASSUME NEW n \in 1..N PROVE fold[1..n] = Step(n, fold[1..(n - 1)])
  BY <1>4, PrefixMax
<1> HIDE DEF Def
<1> DEFINE T == {n \in 0..N : fold[1..n] \in S}
<1>7. 0 \in T
  BY <1>5
<1>8. ASSUME NEW n \in 0..N, n < N, n \in T PROVE n + 1 \in T
  <2>1. n + 1 \in 1..N /\ (n + 1) - 1 = n
    BY <1>8
  <2>2. fold[1..(n + 1)] = Step(n + 1, fold[1..n])
    BY <1>6, <2>1
  <2>3. fold[1..n] \in S
    BY <1>8
  <2>4. Step(n + 1, fold[1..n]) \in S
    BY <1>3, <2>1, <2>3
  <2> QED
    BY <2>1, <2>2, <2>4
<1> HIDE DEF T
<1>9. \A n \in 0..N : n \in T
  BY <1>7, <1>8, SetInduction
<1>10. f \in [0..N -> S] /\ f[0] = base /\ fold[1..N] = f[N]
  BY <1>5, <1>9 DEF T
<1>11. ASSUME NEW n \in 1..N PROVE f[n] = Step(n, f[n - 1])
  BY <1>6
<1> HIDE DEF f
<1>12. TryDepositPath(f, S, N, base, q)
  BY <1>2, <1>10, <1>11 DEF TryDepositPath
<1> QED
  BY <1>1, <1>10, <1>12

\* The working state through the withdrawals.
TryWithdrawalPath(f, S, N, base, q) ==
    /\ f \in [0..N -> S]
    /\ f[0] = base
    /\ \A n \in 1..N : f[n] = TryWithdrawal(f[n - 1], q[n])

\* Such a path ends in the fold.
LEMMA TryWithdrawalFold ==
    ASSUME NEW S, NEW base \in S, NEW N \in Nat, NEW q, DOMAIN q = 1..N,
           \A n \in 1..N : \A s \in S : TryWithdrawal(s, q[n]) \in S
    PROVE  \E f : TryWithdrawalPath(f, S, N, base, q) /\ AfterRequests(base, q) = f[N]
<1> DEFINE Step(n, s) == TryWithdrawal(s, q[n])
           Def(g) == [s \in SUBSET (1..N) |->
                         IF s = {} THEN base ELSE Step(Max(s), g[s \ {Max(s)}])]
           fold == CHOOSE g : g = Def(g)
           step == [n \in 1..N |-> [s \in S |-> Step(n, s)]]
           f == [n \in 0..N |-> fold[1..n]]
<1>1. AfterRequests(base, q) = fold[1..N]
  BY DEF AfterRequests, FoldLeft, MapThenFoldSet
<1>2. \A n \in 1..N : \A s : Step(n, s) = TryWithdrawal(s, q[n])
  OBVIOUS
<1>3. \A n \in 1..N : \A s \in S : Step(n, s) \in S
  OBVIOUS
<1> HIDE DEF Step
<1>4. fold = Def(fold)
  <2>1. step \in [1..N -> [S -> S]]
    BY <1>3
  <2>2. PICK g : Folds(g, N, S, base, step)
    <3> HIDE DEF step
    <3> QED
      BY <2>1, FoldExists
  <2>3. ASSUME NEW s \in SUBSET (1..N), s # {} PROVE g[s] = Step(Max(s), g[s \ {Max(s)}])
    <3>1. Max(s) \in 1..N
      BY <2>3, MaxOf
    <3>2. g[s \ {Max(s)}] \in S /\ g[s] = step[Max(s)][g[s \ {Max(s)}]]
      BY <2>2, <2>3 DEF Folds
    <3> QED
      BY <3>1, <3>2
  <2>4. g = Def(g)
    BY <2>2, <2>3 DEF Folds
  <2> HIDE DEF Def
  <2> QED
    BY <2>4
<1> HIDE DEF fold, step
<1>5. fold[1..0] = base
  <2>1. 1..0 = {}
    OBVIOUS
  <2> QED
    BY <1>4, <2>1
<1>6. ASSUME NEW n \in 1..N PROVE fold[1..n] = Step(n, fold[1..(n - 1)])
  BY <1>4, PrefixMax
<1> HIDE DEF Def
<1> DEFINE T == {n \in 0..N : fold[1..n] \in S}
<1>7. 0 \in T
  BY <1>5
<1>8. ASSUME NEW n \in 0..N, n < N, n \in T PROVE n + 1 \in T
  <2>1. n + 1 \in 1..N /\ (n + 1) - 1 = n
    BY <1>8
  <2>2. fold[1..(n + 1)] = Step(n + 1, fold[1..n])
    BY <1>6, <2>1
  <2>3. fold[1..n] \in S
    BY <1>8
  <2>4. Step(n + 1, fold[1..n]) \in S
    BY <1>3, <2>1, <2>3
  <2> QED
    BY <2>1, <2>2, <2>4
<1> HIDE DEF T
<1>9. \A n \in 0..N : n \in T
  BY <1>7, <1>8, SetInduction
<1>10. f \in [0..N -> S] /\ f[0] = base /\ fold[1..N] = f[N]
  BY <1>5, <1>9 DEF T
<1>11. ASSUME NEW n \in 1..N PROVE f[n] = Step(n, f[n - 1])
  BY <1>6
<1> HIDE DEF f
<1>12. TryWithdrawalPath(f, S, N, base, q)
  BY <1>2, <1>10, <1>11 DEF TryWithdrawalPath
<1> QED
  BY <1>1, <1>10, <1>12

\* The ledger through the deposits of a batch.
CreditPath(f, S, N, base, q) ==
    /\ f \in [0..N -> S]
    /\ f[0] = base
    /\ \A n \in 1..N : f[n] = CreditDeposit(f[n - 1], q[n])

\* Such a path ends in the fold.
LEMMA CreditFold ==
    ASSUME NEW S, NEW base \in S, NEW N \in Nat, NEW q, DOMAIN q = 1..N,
           \A n \in 1..N : \A s \in S : CreditDeposit(s, q[n]) \in S
    PROVE  \E f : CreditPath(f, S, N, base, q) /\ Credited(base, q) = f[N]
<1> DEFINE Step(n, s) == CreditDeposit(s, q[n])
           Def(g) == [s \in SUBSET (1..N) |->
                         IF s = {} THEN base ELSE Step(Max(s), g[s \ {Max(s)}])]
           fold == CHOOSE g : g = Def(g)
           step == [n \in 1..N |-> [s \in S |-> Step(n, s)]]
           f == [n \in 0..N |-> fold[1..n]]
<1>1. Credited(base, q) = fold[1..N]
  BY DEF Credited, FoldLeft, MapThenFoldSet
<1>2. \A n \in 1..N : \A s : Step(n, s) = CreditDeposit(s, q[n])
  OBVIOUS
<1>3. \A n \in 1..N : \A s \in S : Step(n, s) \in S
  OBVIOUS
<1> HIDE DEF Step
<1>4. fold = Def(fold)
  <2>1. step \in [1..N -> [S -> S]]
    BY <1>3
  <2>2. PICK g : Folds(g, N, S, base, step)
    <3> HIDE DEF step
    <3> QED
      BY <2>1, FoldExists
  <2>3. ASSUME NEW s \in SUBSET (1..N), s # {} PROVE g[s] = Step(Max(s), g[s \ {Max(s)}])
    <3>1. Max(s) \in 1..N
      BY <2>3, MaxOf
    <3>2. g[s \ {Max(s)}] \in S /\ g[s] = step[Max(s)][g[s \ {Max(s)}]]
      BY <2>2, <2>3 DEF Folds
    <3> QED
      BY <3>1, <3>2
  <2>4. g = Def(g)
    BY <2>2, <2>3 DEF Folds
  <2> HIDE DEF Def
  <2> QED
    BY <2>4
<1> HIDE DEF fold, step
<1>5. fold[1..0] = base
  <2>1. 1..0 = {}
    OBVIOUS
  <2> QED
    BY <1>4, <2>1
<1>6. ASSUME NEW n \in 1..N PROVE fold[1..n] = Step(n, fold[1..(n - 1)])
  BY <1>4, PrefixMax
<1> HIDE DEF Def
<1> DEFINE T == {n \in 0..N : fold[1..n] \in S}
<1>7. 0 \in T
  BY <1>5
<1>8. ASSUME NEW n \in 0..N, n < N, n \in T PROVE n + 1 \in T
  <2>1. n + 1 \in 1..N /\ (n + 1) - 1 = n
    BY <1>8
  <2>2. fold[1..(n + 1)] = Step(n + 1, fold[1..n])
    BY <1>6, <2>1
  <2>3. fold[1..n] \in S
    BY <1>8
  <2>4. Step(n + 1, fold[1..n]) \in S
    BY <1>3, <2>1, <2>3
  <2> QED
    BY <2>1, <2>2, <2>4
<1> HIDE DEF T
<1>9. \A n \in 0..N : n \in T
  BY <1>7, <1>8, SetInduction
<1>10. f \in [0..N -> S] /\ f[0] = base /\ fold[1..N] = f[N]
  BY <1>5, <1>9 DEF T
<1>11. ASSUME NEW n \in 1..N PROVE f[n] = Step(n, f[n - 1])
  BY <1>6
<1> HIDE DEF f
<1>12. CreditPath(f, S, N, base, q)
  BY <1>2, <1>10, <1>11 DEF CreditPath
<1> QED
  BY <1>1, <1>10, <1>12

\* The ledger through the withdrawals of a batch.
DebitPath(f, S, N, base, q) ==
    /\ f \in [0..N -> S]
    /\ f[0] = base
    /\ \A n \in 1..N : f[n] = DebitWithdrawal(f[n - 1], q[n])

\* Such a path ends in the fold.
LEMMA DebitFold ==
    ASSUME NEW S, NEW base \in S, NEW N \in Nat, NEW q, DOMAIN q = 1..N,
           \A n \in 1..N : \A s \in S : DebitWithdrawal(s, q[n]) \in S
    PROVE  \E f : DebitPath(f, S, N, base, q) /\ Debited(base, q) = f[N]
<1> DEFINE Step(n, s) == DebitWithdrawal(s, q[n])
           Def(g) == [s \in SUBSET (1..N) |->
                         IF s = {} THEN base ELSE Step(Max(s), g[s \ {Max(s)}])]
           fold == CHOOSE g : g = Def(g)
           step == [n \in 1..N |-> [s \in S |-> Step(n, s)]]
           f == [n \in 0..N |-> fold[1..n]]
<1>1. Debited(base, q) = fold[1..N]
  BY DEF Debited, FoldLeft, MapThenFoldSet
<1>2. \A n \in 1..N : \A s : Step(n, s) = DebitWithdrawal(s, q[n])
  OBVIOUS
<1>3. \A n \in 1..N : \A s \in S : Step(n, s) \in S
  OBVIOUS
<1> HIDE DEF Step
<1>4. fold = Def(fold)
  <2>1. step \in [1..N -> [S -> S]]
    BY <1>3
  <2>2. PICK g : Folds(g, N, S, base, step)
    <3> HIDE DEF step
    <3> QED
      BY <2>1, FoldExists
  <2>3. ASSUME NEW s \in SUBSET (1..N), s # {} PROVE g[s] = Step(Max(s), g[s \ {Max(s)}])
    <3>1. Max(s) \in 1..N
      BY <2>3, MaxOf
    <3>2. g[s \ {Max(s)}] \in S /\ g[s] = step[Max(s)][g[s \ {Max(s)}]]
      BY <2>2, <2>3 DEF Folds
    <3> QED
      BY <3>1, <3>2
  <2>4. g = Def(g)
    BY <2>2, <2>3 DEF Folds
  <2> HIDE DEF Def
  <2> QED
    BY <2>4
<1> HIDE DEF fold, step
<1>5. fold[1..0] = base
  <2>1. 1..0 = {}
    OBVIOUS
  <2> QED
    BY <1>4, <2>1
<1>6. ASSUME NEW n \in 1..N PROVE fold[1..n] = Step(n, fold[1..(n - 1)])
  BY <1>4, PrefixMax
<1> HIDE DEF Def
<1> DEFINE T == {n \in 0..N : fold[1..n] \in S}
<1>7. 0 \in T
  BY <1>5
<1>8. ASSUME NEW n \in 0..N, n < N, n \in T PROVE n + 1 \in T
  <2>1. n + 1 \in 1..N /\ (n + 1) - 1 = n
    BY <1>8
  <2>2. fold[1..(n + 1)] = Step(n + 1, fold[1..n])
    BY <1>6, <2>1
  <2>3. fold[1..n] \in S
    BY <1>8
  <2>4. Step(n + 1, fold[1..n]) \in S
    BY <1>3, <2>1, <2>3
  <2> QED
    BY <2>1, <2>2, <2>4
<1> HIDE DEF T
<1>9. \A n \in 0..N : n \in T
  BY <1>7, <1>8, SetInduction
<1>10. f \in [0..N -> S] /\ f[0] = base /\ fold[1..N] = f[N]
  BY <1>5, <1>9 DEF T
<1>11. ASSUME NEW n \in 1..N PROVE f[n] = Step(n, f[n - 1])
  BY <1>6
<1> HIDE DEF f
<1>12. DebitPath(f, S, N, base, q)
  BY <1>2, <1>10, <1>11 DEF DebitPath
<1> QED
  BY <1>1, <1>10, <1>12

\* The deposits of an owner, added up.
SumDepositPath(f, owner, N, q) ==
    /\ f \in [0..N -> Nat]
    /\ f[0] = 0
    /\ \A n \in 1..N : f[n] = AddDeposit(owner, f[n - 1], q[n])

\* Such a path ends in the fold.
LEMMA SumDepositFold ==
    ASSUME NEW owner, NEW N \in Nat, NEW q, DepositSeq(q, N)
    PROVE  \E f : SumDepositPath(f, owner, N, q) /\ SumDeposit(owner, q) = f[N]
<1> DEFINE Step(n, s) == AddDeposit(owner, s, q[n])
           Def(g) == [s \in SUBSET (1..N) |->
                         IF s = {} THEN 0 ELSE Step(Max(s), g[s \ {Max(s)}])]
           fold == CHOOSE g : g = Def(g)
           step == [n \in 1..N |-> [s \in Nat |-> Step(n, s)]]
           f == [n \in 0..N |-> fold[1..n]]
<1>1. SumDeposit(owner, q) = fold[1..N]
  BY DEF SumDeposit, AddDeposit, FoldLeft, MapThenFoldSet, DepositSeq
<1>2. \A n \in 1..N : \A s : Step(n, s) = AddDeposit(owner, s, q[n])
  OBVIOUS
<1>3. \A n \in 1..N : \A s \in Nat : Step(n, s) \in Nat
  BY DepositRecordAssumption DEF DepositSeq, AddDeposit
<1> HIDE DEF Step
<1>4. fold = Def(fold)
  <2>1. step \in [1..N -> [Nat -> Nat]]
    BY <1>3
  <2>2. PICK g : Folds(g, N, Nat, 0, step)
    <3> HIDE DEF step
    <3> QED
      BY <2>1, FoldExists
  <2>3. ASSUME NEW s \in SUBSET (1..N), s # {} PROVE g[s] = Step(Max(s), g[s \ {Max(s)}])
    <3>1. Max(s) \in 1..N
      BY <2>3, MaxOf
    <3>2. g[s \ {Max(s)}] \in Nat /\ g[s] = step[Max(s)][g[s \ {Max(s)}]]
      BY <2>2, <2>3 DEF Folds
    <3> QED
      BY <3>1, <3>2
  <2>4. g = Def(g)
    BY <2>2, <2>3 DEF Folds
  <2> HIDE DEF Def
  <2> QED
    BY <2>4
<1> HIDE DEF fold, step
<1>5. fold[1..0] = 0
  <2>1. 1..0 = {}
    OBVIOUS
  <2> QED
    BY <1>4, <2>1
<1>6. ASSUME NEW n \in 1..N PROVE fold[1..n] = Step(n, fold[1..(n - 1)])
  BY <1>4, PrefixMax
<1> HIDE DEF Def
<1> DEFINE T == {n \in 0..N : fold[1..n] \in Nat}
<1>7. 0 \in T
  BY <1>5
<1>8. ASSUME NEW n \in 0..N, n < N, n \in T PROVE n + 1 \in T
  <2>1. n + 1 \in 1..N /\ (n + 1) - 1 = n
    BY <1>8
  <2>2. fold[1..(n + 1)] = Step(n + 1, fold[1..n])
    BY <1>6, <2>1
  <2>3. fold[1..n] \in Nat
    BY <1>8
  <2>4. Step(n + 1, fold[1..n]) \in Nat
    BY <1>3, <2>1, <2>3
  <2>5. n + 1 \in 0..N /\ fold[1..(n + 1)] \in Nat
    BY <2>1, <2>2, <2>4
  <2> QED
    BY <2>5
<1> HIDE DEF T
<1>9. \A n \in 0..N : n \in T
  BY <1>7, <1>8, SetInduction
<1>10. f \in [0..N -> Nat] /\ f[0] = 0 /\ fold[1..N] = f[N]
  BY <1>5, <1>9 DEF T
<1>11. ASSUME NEW n \in 1..N PROVE f[n] = Step(n, f[n - 1])
  BY <1>6
<1> HIDE DEF f
<1>12. SumDepositPath(f, owner, N, q)
  BY <1>2, <1>10, <1>11 DEF SumDepositPath
<1> QED
  BY <1>1, <1>10, <1>12

\* The withdrawals of an owner, added up.
SumWithdrawPath(f, owner, N, q) ==
    /\ f \in [0..N -> Nat]
    /\ f[0] = 0
    /\ \A n \in 1..N : f[n] = AddWithdrawal(owner, f[n - 1], q[n])

\* Such a path ends in the fold.
LEMMA SumWithdrawFold ==
    ASSUME NEW owner, NEW N \in Nat, NEW q, RequestSeq(q, N)
    PROVE  \E f : SumWithdrawPath(f, owner, N, q) /\ SumWithdraw(owner, q) = f[N]
<1> DEFINE Step(n, s) == AddWithdrawal(owner, s, q[n])
           Def(g) == [s \in SUBSET (1..N) |->
                         IF s = {} THEN 0 ELSE Step(Max(s), g[s \ {Max(s)}])]
           fold == CHOOSE g : g = Def(g)
           step == [n \in 1..N |-> [s \in Nat |-> Step(n, s)]]
           f == [n \in 0..N |-> fold[1..n]]
<1>1. SumWithdraw(owner, q) = fold[1..N]
  BY DEF SumWithdraw, AddWithdrawal, FoldLeft, MapThenFoldSet, RequestSeq
<1>2. \A n \in 1..N : \A s : Step(n, s) = AddWithdrawal(owner, s, q[n])
  OBVIOUS
<1>3. \A n \in 1..N : \A s \in Nat : Step(n, s) \in Nat
  BY DEF RequestSeq, AddWithdrawal
<1> HIDE DEF Step
<1>4. fold = Def(fold)
  <2>1. step \in [1..N -> [Nat -> Nat]]
    BY <1>3
  <2>2. PICK g : Folds(g, N, Nat, 0, step)
    <3> HIDE DEF step
    <3> QED
      BY <2>1, FoldExists
  <2>3. ASSUME NEW s \in SUBSET (1..N), s # {} PROVE g[s] = Step(Max(s), g[s \ {Max(s)}])
    <3>1. Max(s) \in 1..N
      BY <2>3, MaxOf
    <3>2. g[s \ {Max(s)}] \in Nat /\ g[s] = step[Max(s)][g[s \ {Max(s)}]]
      BY <2>2, <2>3 DEF Folds
    <3> QED
      BY <3>1, <3>2
  <2>4. g = Def(g)
    BY <2>2, <2>3 DEF Folds
  <2> HIDE DEF Def
  <2> QED
    BY <2>4
<1> HIDE DEF fold, step
<1>5. fold[1..0] = 0
  <2>1. 1..0 = {}
    OBVIOUS
  <2> QED
    BY <1>4, <2>1
<1>6. ASSUME NEW n \in 1..N PROVE fold[1..n] = Step(n, fold[1..(n - 1)])
  BY <1>4, PrefixMax
<1> HIDE DEF Def
<1> DEFINE T == {n \in 0..N : fold[1..n] \in Nat}
<1>7. 0 \in T
  BY <1>5
<1>8. ASSUME NEW n \in 0..N, n < N, n \in T PROVE n + 1 \in T
  <2>1. n + 1 \in 1..N /\ (n + 1) - 1 = n
    BY <1>8
  <2>2. fold[1..(n + 1)] = Step(n + 1, fold[1..n])
    BY <1>6, <2>1
  <2>3. fold[1..n] \in Nat
    BY <1>8
  <2>4. Step(n + 1, fold[1..n]) \in Nat
    BY <1>3, <2>1, <2>3
  <2>5. n + 1 \in 0..N /\ fold[1..(n + 1)] \in Nat
    BY <2>1, <2>2, <2>4
  <2> QED
    BY <2>5
<1> HIDE DEF T
<1>9. \A n \in 0..N : n \in T
  BY <1>7, <1>8, SetInduction
<1>10. f \in [0..N -> Nat] /\ f[0] = 0 /\ fold[1..N] = f[N]
  BY <1>5, <1>9 DEF T
<1>11. ASSUME NEW n \in 1..N PROVE f[n] = Step(n, f[n - 1])
  BY <1>6
<1> HIDE DEF f
<1>12. SumWithdrawPath(f, owner, N, q)
  BY <1>2, <1>10, <1>11 DEF SumWithdrawPath
<1> QED
  BY <1>1, <1>10, <1>12

-----------------------------------------------------------------------------
(* States *)

RootValue == {GenesisRoot} \cup [hash : SUBSET (Accounts \X Account)]

Nullifier == [secret : {MockSecret}, nonce : Nat]

\* The manager's state, its baseline and the working states of the builders.
State == [accounts : Accounting, root : RootValue, appliedDeposits : SUBSET Deposits,
          appliedNullifiers : SUBSET Nullifier]

\* States whose root is that of their accounts.
Rooted == {s \in State : IsRoot(s.root, s.accounts)}

\* The genesis state is one.
LEMMA NewLocalStateRooted == NewLocalState \in Rooted
BY DEF NewLocalState, Rooted, State, RootValue, Accounting, ZeroAccount, Account, IsRoot

\* ApplyDeposit credits the deposit's account and computes the root.
LEMMA ApplyDepositState ==
    ASSUME NEW s \in State, NEW d \in Deposits
    PROVE  /\ ApplyDeposit(s, d) \in Rooted
           /\ ApplyDeposit(s, d).root = ComputeRoot(ApplyDeposit(s, d).accounts)
           /\ ApplyDeposit(s, d).accounts = CreditDeposit(s.accounts, d)
           /\ ApplyDeposit(s, d).appliedNullifiers = s.appliedNullifiers
<1> DEFINE accounts == Credit(s.accounts, DepositRecord[d].acct, DepositRecord[d].amount)
<1>1. DepositRecord[d].acct \in Accounts /\ DepositRecord[d].amount \in Nat
  BY DepositRecordAssumption
<1>2. accounts \in Accounting
  BY <1>1 DEF Credit, State, Accounting, Account
<1>3. accounts = CreditDeposit(s.accounts, d)
  BY DEF CreditDeposit
<1> HIDE DEF accounts
<1>4. ComputeRoot(accounts) \in RootValue
  BY <1>2, ComputeRootHash DEF RootValue, Accounting
<1>5. ApplyDeposit(s, d) \in State /\ ApplyDeposit(s, d).accounts = accounts
      /\ ApplyDeposit(s, d).root = ComputeRoot(accounts)
      /\ ApplyDeposit(s, d).appliedNullifiers = s.appliedNullifiers
  BY <1>2, <1>4 DEF ApplyDeposit, State, accounts
<1> QED
  BY <1>3, <1>5 DEF Rooted, IsRoot

\* ApplyWithdrawal, when it is accepted, debits the request's account.
LEMMA ApplyWithdrawalState ==
    ASSUME NEW s \in State, NEW req, req.acct \in Accounts, req.amount \in Nat,
           NEW nullifier \in Nullifier, CanApplyWithdrawal(s, req, nullifier)
    PROVE  /\ ApplyWithdrawal(s, req, nullifier) \in Rooted
           /\ ApplyWithdrawal(s, req, nullifier).root
                = ComputeRoot(ApplyWithdrawal(s, req, nullifier).accounts)
           /\ ApplyWithdrawal(s, req, nullifier).accounts = Debit(s.accounts, req.acct, req.amount)
           /\ ApplyWithdrawal(s, req, nullifier).appliedNullifiers
                = s.appliedNullifiers \cup {nullifier}
<1> DEFINE accounts == Debit(s.accounts, req.acct, req.amount)
<1>1. s.accounts \in Accounting /\ s.accounts[req.acct].balance >= req.amount
  BY DEF State, CanApplyWithdrawal
<1>2. accounts \in Accounting
  BY <1>1 DEF Debit, Accounting, Account
<1> HIDE DEF accounts
<1>3. ComputeRoot(accounts) \in RootValue
  BY <1>2, ComputeRootHash DEF RootValue, Accounting
<1>4. /\ ApplyWithdrawal(s, req, nullifier) \in State
      /\ ApplyWithdrawal(s, req, nullifier).accounts = accounts
      /\ ApplyWithdrawal(s, req, nullifier).root = ComputeRoot(accounts)
      /\ ApplyWithdrawal(s, req, nullifier).appliedNullifiers
           = s.appliedNullifiers \cup {nullifier}
  BY <1>2, <1>3 DEF ApplyWithdrawal, State, accounts
<1> QED
  BY <1>4 DEF Rooted, IsRoot, accounts


\* The states a build goes through when none of its operations is refused.
DepositsPath(f, M, base, p) ==
    /\ f \in [0..M -> State]
    /\ f[0] = base
    /\ \A n \in 1..M : CanApplyDeposit(f[n - 1], p[n]) /\ f[n] = ApplyDeposit(f[n - 1], p[n])

RequestsPath(f, N, base, q) ==
    /\ f \in [0..N -> State]
    /\ f[0] = base
    /\ \A n \in 1..N : /\ CanApplyWithdrawal(f[n - 1], q[n], MockNullifier(q[n].nonce))
                       /\ f[n] = ApplyWithdrawal(f[n - 1], q[n], MockNullifier(q[n].nonce))

\* A build whose deposits are all taken goes through states.
LEMMA DepositsTaken ==
    ASSUME NEW base \in State, NEW M \in Nat, NEW q, DepositSeq(q, M),
           AfterDeposits(base, q) # Refused
    PROVE  \E f : DepositsPath(f, M, base, q) /\ AfterDeposits(base, q) = f[M]
<1> USE DEF DepositSeq
<1> DEFINE S == State \cup {Refused}
<1>1. \A n \in 1..M : \A s \in S : TryDeposit(s, q[n]) \in S
  <2> SUFFICES ASSUME NEW n \in 1..M, NEW s \in S PROVE TryDeposit(s, q[n]) \in S
    OBVIOUS
  <2>1. s # Refused => ApplyDeposit(s, q[n]) \in State
    BY ApplyDepositState DEF Rooted
  <2> QED
    BY <2>1 DEF TryDeposit
<1>2. base \in S
  OBVIOUS
<1>3. PICK f \in [0..M -> S] : /\ f[0] = base
                               /\ \A n \in 1..M : f[n] = TryDeposit(f[n - 1], q[n])
                               /\ AfterDeposits(base, q) = f[M]
  <2> HIDE DEF S
  <2>1. PICK f : TryDepositPath(f, S, M, base, q) /\ AfterDeposits(base, q) = f[M]
    BY <1>1, <1>2, TryDepositFold
  <2> QED
    BY <2>1 DEF TryDepositPath
<1>4. ASSUME NEW n \in 1..M, f[n] # Refused
      PROVE  /\ f[n - 1] # Refused
             /\ CanApplyDeposit(f[n - 1], q[n])
             /\ f[n] = ApplyDeposit(f[n - 1], q[n])
  BY <1>3, <1>4 DEF TryDeposit
<1> DEFINE T == {k \in 0..M : f[M - k] # Refused}
<1>5. 0 \in T
  BY <1>3
<1>6. ASSUME NEW k \in 0..M, k < M, k \in T PROVE k + 1 \in T
  <2>1. M - k \in 1..M /\ (M - k) - 1 = M - (k + 1)
    BY <1>6
  <2> QED
    BY <1>4, <1>6, <2>1
<1> HIDE DEF T
<1>7. \A k \in 0..M : k \in T
  BY <1>5, <1>6, SetInduction
<1>8. ASSUME NEW n \in 0..M PROVE f[n] # Refused
  <2>1. M - n \in T /\ M - (M - n) = n
    BY <1>7
  <2> QED
    BY <2>1 DEF T
<1>9. f \in [0..M -> State]
  BY <1>3, <1>8
<1>10. \A n \in 1..M : /\ CanApplyDeposit(f[n - 1], q[n])
                       /\ f[n] = ApplyDeposit(f[n - 1], q[n])
  BY <1>4, <1>8
<1>11. DepositsPath(f, M, base, q)
  BY <1>3, <1>9, <1>10 DEF DepositsPath
<1> QED
  BY <1>3, <1>11

\* So does one whose withdrawals are all taken.
LEMMA RequestsTaken ==
    ASSUME NEW base \in State \cup {Refused}, NEW N \in Nat, NEW q, RequestSeq(q, N),
           AfterRequests(base, q) # Refused
    PROVE  /\ base # Refused
           /\ \E f : RequestsPath(f, N, base, q) /\ AfterRequests(base, q) = f[N]
<1> USE DEF RequestSeq
<1> DEFINE S == State \cup {Refused}
<1>1. \A n \in 1..N : \A s \in S : TryWithdrawal(s, q[n]) \in S
  <2> SUFFICES ASSUME NEW n \in 1..N, NEW s \in S PROVE TryWithdrawal(s, q[n]) \in S
    OBVIOUS
  <2> DEFINE null == MockNullifier(q[n].nonce)
  <2>1. null \in Nullifier
    BY DEF MockNullifier, NullifierFor, Nullifier
  <2> HIDE DEF null
  <2>2. s # Refused /\ CanApplyWithdrawal(s, q[n], null) => ApplyWithdrawal(s, q[n], null) \in State
    BY <2>1, ApplyWithdrawalState DEF Rooted
  <2> QED
    BY <2>2 DEF TryWithdrawal, null
<1>3. PICK f \in [0..N -> S] : /\ f[0] = base
                               /\ \A n \in 1..N : f[n] = TryWithdrawal(f[n - 1], q[n])
                               /\ AfterRequests(base, q) = f[N]
  <2>1. base \in S
    OBVIOUS
  <2> HIDE DEF S
  <2>2. PICK f : TryWithdrawalPath(f, S, N, base, q) /\ AfterRequests(base, q) = f[N]
    BY <1>1, <2>1, TryWithdrawalFold
  <2> QED
    BY <2>2 DEF TryWithdrawalPath
<1>4. ASSUME NEW n \in 1..N, f[n] # Refused
      PROVE  /\ f[n - 1] # Refused
             /\ CanApplyWithdrawal(f[n - 1], q[n], MockNullifier(q[n].nonce))
             /\ f[n] = ApplyWithdrawal(f[n - 1], q[n], MockNullifier(q[n].nonce))
  BY <1>3, <1>4 DEF TryWithdrawal
<1> DEFINE T == {k \in 0..N : f[N - k] # Refused}
<1>5. 0 \in T
  BY <1>3
<1>6. ASSUME NEW k \in 0..N, k < N, k \in T PROVE k + 1 \in T
  <2>1. N - k \in 1..N /\ (N - k) - 1 = N - (k + 1)
    BY <1>6
  <2> QED
    BY <1>4, <1>6, <2>1
<1> HIDE DEF T
<1>7. \A k \in 0..N : k \in T
  BY <1>5, <1>6, SetInduction
<1>8. ASSUME NEW n \in 0..N PROVE f[n] # Refused
  <2>1. N - n \in T /\ N - (N - n) = n
    BY <1>7
  <2> QED
    BY <2>1 DEF T
<1>9. f \in [0..N -> State]
  BY <1>3, <1>8
<1>10. \A n \in 1..N : /\ CanApplyWithdrawal(f[n - 1], q[n], MockNullifier(q[n].nonce))
                       /\ f[n] = ApplyWithdrawal(f[n - 1], q[n], MockNullifier(q[n].nonce))
  BY <1>4, <1>8
<1>11. base # Refused
  BY <1>3, <1>8
<1>12. RequestsPath(f, N, base, q)
  BY <1>3, <1>9, <1>10 DEF RequestsPath
<1> QED
  BY <1>3, <1>11, <1>12

\* Credits through a sequence of deposits are those the states went through.
LEMMA CreditedIs ==
    ASSUME NEW M \in Nat, NEW q, DepositSeq(q, M), NEW f, NEW s0, DepositsPath(f, M, s0, q)
    PROVE  Credited(s0.accounts, q) = f[M].accounts
<1> USE DEF DepositSeq, DepositsPath
<1> DEFINE base == s0.accounts
<1>1. \A n \in 1..M : \A s \in Accounting : CreditDeposit(s, q[n]) \in Accounting
  <2> SUFFICES ASSUME NEW n \in 1..M, NEW s \in Accounting PROVE CreditDeposit(s, q[n]) \in Accounting
    OBVIOUS
  <2>1. DepositRecord[q[n]].acct \in Accounts /\ DepositRecord[q[n]].amount \in Nat
    BY DepositRecordAssumption
  <2> QED
    BY <2>1 DEF CreditDeposit, Credit, Accounting, Account
<1>2. \A n \in 0..M : f[n].accounts \in Accounting
  BY DEF State
<1>3. base \in Accounting
  BY <1>2
<1> HIDE DEF base
<1>4. PICK c : CreditPath(c, Accounting, M, base, q) /\ Credited(base, q) = c[M]
  BY <1>1, <1>3, CreditFold
<1> DEFINE T == {n \in 0..M : c[n] = f[n].accounts}
<1>5. 0 \in T
  BY <1>4 DEF CreditPath, base
<1>6. ASSUME NEW n \in 0..M, n < M, n \in T PROVE n + 1 \in T
  <2>1. n + 1 \in 1..M /\ (n + 1) - 1 = n /\ n + 1 \in 0..M
    BY <1>6
  <2>2. c[n + 1] = CreditDeposit(c[n], q[n + 1])
    BY <1>4, <2>1 DEF CreditPath
  <2>3. f[n + 1] = ApplyDeposit(f[n], q[n + 1]) /\ f[n] \in State /\ q[n + 1] \in Deposits
    BY <2>1
  <2>4. f[n + 1].accounts = CreditDeposit(f[n].accounts, q[n + 1])
    BY <2>3, ApplyDepositState
  <2> QED
    BY <1>6, <2>1, <2>2, <2>4
<1> HIDE DEF T
<1>7. \A n \in 0..M : n \in T
  BY <1>5, <1>6, SetInduction
<1>8. c[M] = f[M].accounts
  BY <1>7 DEF T
<1> QED
  BY <1>4, <1>8 DEF base

\* The entries of a batch are for the accounts and amounts of its requests.
SameEntries(w, q, N) ==
    DOMAIN w = 1..N /\ \A i \in 1..N : w[i].acct = q[i].acct /\ w[i].amount = q[i].amount

\* And debits through a sequence of withdrawals.
LEMMA DebitedIs ==
    ASSUME NEW N \in Nat, NEW q, RequestSeq(q, N), NEW f, NEW s0, RequestsPath(f, N, s0, q),
           NEW w, SameEntries(w, q, N)
    PROVE  Debited(s0.accounts, w) = f[N].accounts
<1> USE DEF RequestSeq, RequestsPath, SameEntries
<1> DEFINE base == s0.accounts
           S == [Accounts -> [balance : Int, nonce : Nat]]
<1>1. \A n \in 1..N : \A s \in S : DebitWithdrawal(s, w[n]) \in S
  <2> SUFFICES ASSUME NEW n \in 1..N, NEW s \in S PROVE DebitWithdrawal(s, w[n]) \in S
    OBVIOUS
  <2>1. w[n].acct \in Accounts /\ w[n].amount \in Nat
    OBVIOUS
  <2> QED
    BY <2>1 DEF DebitWithdrawal, Debit
<1>2. base \in S
  BY DEF State, Accounting, Account
<1> HIDE DEF base, S
<1>3. PICK c : DebitPath(c, S, N, base, w) /\ Debited(base, w) = c[N]
  BY <1>1, <1>2, DebitFold
<1> DEFINE T == {n \in 0..N : c[n] = f[n].accounts}
<1>4. 0 \in T
  BY <1>3 DEF DebitPath, base
<1>5. ASSUME NEW n \in 0..N, n < N, n \in T PROVE n + 1 \in T
  <2>1. n + 1 \in 1..N /\ (n + 1) - 1 = n /\ n + 1 \in 0..N
    BY <1>5
  <2>2. c[n + 1] = DebitWithdrawal(c[n], w[n + 1])
    BY <1>3, <2>1 DEF DebitPath
  <2>3. f[n + 1] = ApplyWithdrawal(f[n], q[n + 1], MockNullifier(q[n + 1].nonce))
    BY <2>1
  <2>4. f[n + 1].accounts = Debit(f[n].accounts, q[n + 1].acct, q[n + 1].amount)
    BY <2>3 DEF ApplyWithdrawal
  <2>5. w[n + 1].acct = q[n + 1].acct /\ w[n + 1].amount = q[n + 1].amount
    BY <2>1
  <2>6. c[n + 1] = f[n + 1].accounts
    BY <1>5, <2>2, <2>4, <2>5 DEF DebitWithdrawal
  <2> QED
    BY <2>1, <2>6
<1> HIDE DEF T
<1>6. \A n \in 0..N : n \in T
  BY <1>4, <1>5, SetInduction
<1>7. c[N] = f[N].accounts
  BY <1>6 DEF T
<1> QED
  BY <1>3, <1>7 DEF base

\* What a build returns: a state that has applied its operations one after the
\* other, with the root of its accounts.
LEMMA WorkingExact ==
    ASSUME NEW base \in State, NEW M \in Nat, NEW p, DepositSeq(p, M),
           NEW N \in Nat, NEW q, RequestSeq(q, N), NEW w, SameEntries(w, q, N),
           NEW t, t = AfterRequests(AfterDeposits(base, p), q), t # Refused
    PROVE  /\ t \in State
           /\ t.accounts = Debited(Credited(base.accounts, p), w)
           /\ M > 0 \/ N > 0 => t.root = ComputeRoot(t.accounts)
<1> DEFINE mid == AfterDeposits(base, p)
<1> HIDE DEF mid
<1>0. t = AfterRequests(mid, q)
  BY DEF mid
<1>1. mid \in State \cup {Refused}
  <2>1. CASE mid # Refused
    <3>1. PICK f : DepositsPath(f, M, base, p) /\ AfterDeposits(base, p) = f[M]
      BY <2>1, DepositsTaken DEF mid
    <3> QED
      BY <3>1 DEF mid, DepositsPath
  <2> QED
    BY <2>1
<1>2. mid # Refused /\ \E g : RequestsPath(g, N, mid, q) /\ t = g[N]
  BY <1>0, <1>1, RequestsTaken
<1>3. PICK g : RequestsPath(g, N, mid, q) /\ t = g[N]
  BY <1>2
<1>4. PICK f : DepositsPath(f, M, base, p) /\ mid = f[M]
  BY <1>2, DepositsTaken DEF mid
<1>5. Credited(base.accounts, p) = mid.accounts
  BY <1>4, CreditedIs
<1>6. Debited(mid.accounts, w) = t.accounts
  BY <1>3, DebitedIs
<1>7. ASSUME N > 0 PROVE t.root = ComputeRoot(t.accounts)
  <2> DEFINE null == MockNullifier(q[N].nonce)
  <2>1. N \in 1..N /\ N - 1 \in 0..N
    BY <1>7
  <2>2. null \in Nullifier
    BY <2>1 DEF MockNullifier, NullifierFor, Nullifier, RequestSeq
  <2>3. t = ApplyWithdrawal(g[N - 1], q[N], null) /\ CanApplyWithdrawal(g[N - 1], q[N], null)
    BY <1>3, <2>1 DEF RequestsPath
  <2>4. g[N - 1] \in State /\ q[N].acct \in Accounts /\ q[N].amount \in Nat
    BY <1>3, <2>1 DEF RequestsPath, RequestSeq
  <2> HIDE DEF null
  <2> QED
    BY <2>2, <2>3, <2>4, ApplyWithdrawalState
<1>8. ASSUME N = 0, M > 0 PROVE t.root = ComputeRoot(t.accounts)
  <2>1. M \in 1..M /\ M - 1 \in 0..M
    BY <1>8
  <2>2. t = ApplyDeposit(f[M - 1], p[M]) /\ f[M - 1] \in State /\ p[M] \in Deposits
    BY <1>3, <1>4, <1>8, <2>1 DEF DepositsPath, RequestsPath, DepositSeq
  <2> QED
    BY <2>2, ApplyDepositState
<1>9. t \in State
  BY <1>3 DEF RequestsPath
<1>10. M > 0 \/ N > 0 => t.root = ComputeRoot(t.accounts)
  BY <1>7, <1>8
<1> QED
  BY <1>5, <1>6, <1>9, <1>10

\* Accounts of one denomination are told apart by their owners.
LEMMA SameDenom ==
    ASSUME NEW a \in Accounts, NEW b \in Accounts, b[2] = a[2]
    PROVE  (b[1] = a[1]) <=> (b = a)
BY DEF Accounts

\* With one denomination, what an owner's deposits add up to is what its balance
\* gains.
LEMMA BalanceCredited ==
    ASSUME NEW M \in Nat, NEW p, DepositSeq(p, M), NEW f, NEW s0, DepositsPath(f, M, s0, p),
           NEW a \in Accounts, \A i \in 1..M : DepositRecord[p[i]].acct[2] = a[2]
    PROVE  /\ SumDeposit(a[1], p) \in Nat
           /\ f[M].accounts[a].balance = s0.accounts[a].balance + SumDeposit(a[1], p)
<1> USE DEF DepositSeq, DepositsPath
<1> DEFINE owner == a[1]
           b == s0.accounts[a].balance
           Rec(n) == DepositRecord[p[n]]
<1>1. ASSUME NEW n \in 1..M
      PROVE  /\ Rec(n).acct \in Accounts /\ Rec(n).amount \in Nat
             /\ (Rec(n).acct[1] = owner) <=> (Rec(n).acct = a)
  <2>1. Rec(n).acct \in Accounts /\ Rec(n).amount \in Nat
    BY DepositRecordAssumption
  <2>2. Rec(n).acct[2] = a[2]
    OBVIOUS
  <2> HIDE DEF Rec
  <2>3. (Rec(n).acct[1] = owner) <=> (Rec(n).acct = a)
    BY <2>1, <2>2, SameDenom
  <2> QED
    BY <2>1, <2>3
<1>3. PICK c : SumDepositPath(c, owner, M, p) /\ SumDeposit(owner, p) = c[M]
  <2> HIDE DEF owner, DepositSeq, DepositsPath
  <2> QED
    BY SumDepositFold
<1>4. \A n \in 0..M : f[n].accounts \in Accounting
  BY DEF State
<1>5. b \in Nat
  <2>1. f[0].accounts \in Accounting
    BY <1>4
  <2> QED
    BY <2>1 DEF Accounting, Account
<1>6. \A n \in 0..M : c[n] \in Nat
  BY <1>3 DEF SumDepositPath
<1> DEFINE T == {n \in 0..M : f[n].accounts[a].balance = b + c[n]}
<1>7. 0 \in T
  BY <1>3, <1>5 DEF SumDepositPath
<1>8. ASSUME NEW n \in 0..M, n < M, n \in T PROVE n + 1 \in T
  <2> DEFINE A == f[n].accounts
             B == f[n + 1].accounts
             r == Rec(n + 1)
  <2>1. n + 1 \in 1..M /\ (n + 1) - 1 = n /\ n + 1 \in 0..M
    BY <1>8
  <2>2. f[n + 1] = ApplyDeposit(f[n], p[n + 1])
    BY <2>1
  <2>3. B = Credit(A, r.acct, r.amount)
    BY <2>2 DEF ApplyDeposit
  <2>4. A \in Accounting /\ c[n] \in Nat
    BY <1>4, <1>6
  <2>5. r.acct \in Accounts /\ r.amount \in Nat /\ (r.acct[1] = owner <=> r.acct = a)
    BY <1>1, <2>1
  <2>6. c[n + 1] = IF r.acct[1] = owner THEN c[n] + r.amount ELSE c[n]
    BY <1>3, <2>1 DEF SumDepositPath, AddDeposit
  <2>7. A[a].balance = b + c[n] /\ A[a].balance \in Nat
    BY <1>8, <2>4 DEF Accounting, Account
  <2> HIDE DEF A, B, r, b, owner, Rec
  <2>8. B[a].balance = IF r.acct = a THEN A[a].balance + r.amount ELSE A[a].balance
    BY <2>3, <2>4, <2>5 DEF Credit, Accounting
  <2>9. B[a].balance = b + c[n + 1]
    BY <1>5, <2>4, <2>5, <2>6, <2>7, <2>8
  <2> QED
    BY <2>1, <2>9 DEF B
<1> HIDE DEF T, b, owner
<1>9. \A n \in 0..M : n \in T
  BY <1>7, <1>8, SetInduction
<1>10. f[M].accounts[a].balance = b + c[M] /\ c[M] \in Nat
  BY <1>6, <1>9 DEF T
<1> QED
  BY <1>3, <1>10 DEF b, owner

\* And what its withdrawals add up to is what its balance loses.
LEMMA BalanceDebited ==
    ASSUME NEW N \in Nat, NEW q, RequestSeq(q, N), NEW f, NEW s0, RequestsPath(f, N, s0, q),
           NEW a \in Accounts, \A i \in 1..N : q[i].acct[2] = a[2]
    PROVE  /\ SumWithdraw(a[1], q) \in Nat
           /\ f[N].accounts[a].balance + SumWithdraw(a[1], q) = s0.accounts[a].balance
<1> USE DEF RequestSeq, RequestsPath
<1> DEFINE owner == a[1]
           b == s0.accounts[a].balance
<1>1. ASSUME NEW n \in 1..N
      PROVE  /\ q[n].acct \in Accounts /\ q[n].amount \in Nat
             /\ (q[n].acct[1] = owner) <=> (q[n].acct = a)
  <2>1. q[n].acct \in Accounts /\ q[n].amount \in Nat /\ q[n].acct[2] = a[2]
    OBVIOUS
  <2>2. (q[n].acct[1] = owner) <=> (q[n].acct = a)
    BY <2>1, SameDenom
  <2> QED
    BY <2>1, <2>2
<1>3. PICK c : SumWithdrawPath(c, owner, N, q) /\ SumWithdraw(owner, q) = c[N]
  <2> HIDE DEF owner, RequestSeq, RequestsPath
  <2> QED
    BY SumWithdrawFold
<1>4. \A n \in 0..N : f[n].accounts \in Accounting
  BY DEF State
<1>5. b \in Nat
  <2>1. f[0].accounts \in Accounting
    BY <1>4
  <2> QED
    BY <2>1 DEF Accounting, Account
<1>6. \A n \in 0..N : c[n] \in Nat
  BY <1>3 DEF SumWithdrawPath
<1> DEFINE T == {n \in 0..N : f[n].accounts[a].balance + c[n] = b}
<1>7. 0 \in T
  BY <1>3, <1>5 DEF SumWithdrawPath
<1>8. ASSUME NEW n \in 0..N, n < N, n \in T PROVE n + 1 \in T
  <2> DEFINE A == f[n].accounts
             B == f[n + 1].accounts
             r == q[n + 1]
  <2>1. n + 1 \in 1..N /\ (n + 1) - 1 = n /\ n + 1 \in 0..N
    BY <1>8
  <2>2. f[n + 1] = ApplyWithdrawal(f[n], q[n + 1], MockNullifier(q[n + 1].nonce))
    BY <2>1
  <2>3. B = Debit(A, r.acct, r.amount)
    BY <2>2 DEF ApplyWithdrawal
  <2>4. A \in Accounting /\ c[n] \in Nat
    BY <1>4, <1>6
  <2>5. r.acct \in Accounts /\ r.amount \in Nat /\ (r.acct[1] = owner <=> r.acct = a)
    BY <1>1, <2>1
  <2>6. c[n + 1] = IF r.acct[1] = owner THEN c[n] + r.amount ELSE c[n]
    BY <1>3, <2>1 DEF SumWithdrawPath, AddWithdrawal
  <2>7. A[a].balance + c[n] = b /\ A[a].balance \in Nat
    BY <1>8, <2>4 DEF Accounting, Account
  <2> HIDE DEF A, B, r, b, owner
  <2>8. B[a].balance = IF r.acct = a THEN A[a].balance - r.amount ELSE A[a].balance
    BY <2>3, <2>4, <2>5 DEF Debit, Accounting
  <2>9. B[a].balance + c[n + 1] = b
    BY <1>5, <2>4, <2>5, <2>6, <2>7, <2>8
  <2> QED
    BY <2>1, <2>9 DEF B
<1> HIDE DEF T, b, owner
<1>9. \A n \in 0..N : n \in T
  BY <1>7, <1>8, SetInduction
<1>10. f[N].accounts[a].balance + c[N] = b /\ c[N] \in Nat
  BY <1>6, <1>9 DEF T
<1> QED
  BY <1>3, <1>10 DEF b, owner

\* So the balance a build ends with is the one the witness re-derives (ZK-04).
LEMMA BalanceExact ==
    ASSUME NEW base \in State, NEW M \in Nat, NEW p, DepositSeq(p, M),
           NEW N \in Nat, NEW q, RequestSeq(q, N),
           NEW t, t = AfterRequests(AfterDeposits(base, p), q), t # Refused,
           NEW a \in Accounts, \A i \in 1..M : DepositRecord[p[i]].acct[2] = a[2],
           \A i \in 1..N : q[i].acct[2] = a[2]
    PROVE  t.accounts[a].balance + SumWithdraw(a[1], q)
             = base.accounts[a].balance + SumDeposit(a[1], p)
<1> DEFINE mid == AfterDeposits(base, p)
<1> HIDE DEF mid
<1>0. t = AfterRequests(mid, q)
  BY DEF mid
<1>1. mid \in State \cup {Refused}
  <2>1. CASE mid # Refused
    <3>1. PICK f : DepositsPath(f, M, base, p) /\ AfterDeposits(base, p) = f[M]
      BY <2>1, DepositsTaken DEF mid
    <3> QED
      BY <3>1 DEF mid, DepositsPath
  <2> QED
    BY <2>1
<1>2. mid # Refused /\ \E g : RequestsPath(g, N, mid, q) /\ t = g[N]
  BY <1>0, <1>1, RequestsTaken
<1>3. PICK g : RequestsPath(g, N, mid, q) /\ t = g[N]
  BY <1>2
<1>4. PICK f : DepositsPath(f, M, base, p) /\ mid = f[M]
  BY <1>2, DepositsTaken DEF mid
<1>5. mid.accounts[a].balance = base.accounts[a].balance + SumDeposit(a[1], p)
  BY <1>4, BalanceCredited
<1>6. t.accounts[a].balance + SumWithdraw(a[1], q) = mid.accounts[a].balance
  BY <1>3, BalanceDebited
<1> QED
  BY <1>5, <1>6

-----------------------------------------------------------------------------
(* The inductive invariant *)

ChainRecord == [queued : SUBSET Deposits, roots : Seq(RootValue), deposits : SUBSET Deposits,
                nullifiers : SUBSET Nullifier, ledger : Accounting]

\* Every variable has its type, and no nonce or id is ahead of the sequence.
Typed ==
    /\ wiring \in Wirings
    /\ manager \in Rooted /\ baseline \in Rooted
    /\ withdrawSeq \in 0..MaxRequests /\ batchSeq \in 0..MaxBatches
    /\ \A a \in Accounts : /\ manager.accounts[a].nonce <= withdrawSeq
                           /\ baseline.accounts[a].nonce <= withdrawSeq
    /\ requests \subseteq Request
    /\ \A r \in requests : r.id <= withdrawSeq
    /\ \A r, s \in requests : r.id = s.id => r = s
    /\ chain \in ChainRecord
    /\ indexed \subseteq chain.queued
    /\ records \subseteq {r.id : r \in requests}
    /\ claimed \subseteq records

\* The operations of a batch are deposits and requests the backend knows.
Operations(u) ==
    /\ \E M \in Nat : u.deposits \in [1..M -> Deposits]
    /\ \E N \in Nat : \E q \in [1..N -> requests] :
          u.withdrawals = [i \in 1..N |-> SettlementWithdrawal(q[i])]

\* A batch leads from the root of some accounts to that of what it makes of them.
Exact(u) ==
    \E A \in Accounting :
        /\ IsRoot(u.old, A)
        /\ Settle(A, u) \in Accounting
        /\ u.new = ComputeRoot(Settle(A, u))

\* What clients hold: exact batches, one for each number, and proofs of them.
Held ==
    /\ \A u \in built : /\ u.batch \in 1..batchSeq
                        /\ u.old # u.new
                        /\ u.new \in RootValue
                        /\ Operations(u)
                        /\ Exact(u)
    /\ \A u, v \in built : u.batch = v.batch => u = v
    /\ \A n \in 1..batchSeq : \E u \in built : u.batch = n
    /\ \A b \in bundles : \E u \in built : \E key : b = ProofFor(u, key)

\* What was accepted passed the checks.
Checked ==
    /\ inflight \subseteq accepted
    /\ accepted \subseteq built \X bundles
    /\ \A pair \in accepted : /\ ValidatePublicInputs(pair[1], pair[2])
                              /\ wiring.remote => pair[2].key = ExpectedKey

\* The last root on the chain is that of the accounts its batches make.
ChainExact ==
    /\ chain.roots # <<>>
    /\ IsRoot(Last(chain.roots), chain.ledger)
    /\ Len(chain.roots) = 1 => Last(chain.roots) = GenesisRoot
    /\ Len(chain.roots) # 1 => Last(chain.roots) = ComputeRoot(chain.ledger)

\* A chain pays each nullifier in one submit, and a record is of one answered.
Paid ==
    wiring.chain =>
        /\ \A pair \in accepted : \A w \in Range(pair[1].withdrawals) :
              w.nullifier \in chain.nullifiers
        /\ \A pair, other \in accepted :
              \A w \in Range(pair[1].withdrawals), v \in Range(other[1].withdrawals) :
                  w.nullifier = v.nullifier => pair = other
        /\ \A id \in records : \E pair \in accepted \ inflight :
              \E w \in Range(pair[1].withdrawals) : w.id = id

\* Without rollback the manager has spent the nullifier of every request.
NonceFree ==
    wiring.offchain /\ wiring.builder = "local" =>
        \A r \in requests : MockNullifier(r.nonce) \in manager.appliedNullifiers

Inv == Typed /\ Held /\ Checked /\ ChainExact /\ Paid /\ NonceFree

\* The sequences of Next are functions on an initial segment.
LEMMA SeqOfIs ==
    ASSUME NEW S, NEW n, NEW q \in SeqOf(S, n)
    PROVE  \E m \in Nat : q \in [1..m -> S]
BY DEF SeqOf

\* A batch that is built is exact, names known operations, and has its witness.
LEMMA BuildExact ==
    ASSUME Typed, NEW M \in Nat, NEW p \in [1..M -> Deposits],
           NEW N \in Nat, NEW q \in [1..N -> requests],
           NEW t, t = WorkingState(p, q), t # Refused, CanSettle(t.root, p, q),
           NEW u, u.old = OldStateRoot, u.new = t.root, u.deposits = p,
           u.withdrawals = [i \in 1..N |-> SettlementWithdrawal(q[i])]
    PROVE  /\ CanWitness(t, p, q)
           /\ u.old # u.new
           /\ u.new \in RootValue
           /\ Operations(u)
           /\ Exact(u)
<1> DEFINE base == BuilderState
           A == base.accounts
           w == u.withdrawals
<1>1. base \in Rooted /\ IsRoot(OldStateRoot, A)
  <2>1. CASE wiring.builder = "local"
    BY <2>1, NewLocalStateRooted DEF BuilderState, OldStateRoot, NewLocalState, IsRoot
  <2>2. CASE wiring.builder # "local"
    BY <2>2 DEF BuilderState, OldStateRoot, Typed, Rooted
  <2> QED
    BY <2>1, <2>2
<1>2. \A a \in Accounts : OldBalance(a) = A[a].balance
  BY DEF OldBalance, BuilderState, NewLocalState, ZeroAccount
<1>3. DepositSeq(p, M)
  BY DEF DepositSeq
<1>4. \A i \in 1..N : q[i] \in Request
  BY DEF Typed
<1>5. RequestSeq(q, N)
  BY <1>4 DEF RequestSeq, Request
<1>6. SameEntries(w, q, N)
  BY DEF SameEntries, SettlementWithdrawal
<1>7. t = AfterRequests(AfterDeposits(base, p), q)
  BY DEF WorkingState, AfterRequests, AfterDeposits
<1>8. base \in State /\ A \in Accounting
  BY <1>1 DEF Rooted, State
<1> HIDE DEF base, A, w
<1>9. /\ t \in State
      /\ t.accounts = Debited(Credited(base.accounts, p), w)
      /\ M > 0 \/ N > 0 => t.root = ComputeRoot(t.accounts)
  BY <1>3, <1>5, <1>6, <1>7, <1>8, WorkingExact
<1>10. M > 0 \/ N > 0
  <2>1. p # <<>> \/ q # <<>>
    BY DEF CanSettle
  <2> QED
    BY <2>1
<1>11. Settle(A, u) = t.accounts
  <2>1. Settle(A, u) = Debited(Credited(A, p), w)
    BY DEF Settle, Debited, Credited, w
  <2> QED
    BY <1>9, <2>1 DEF A
<1>12. t.accounts \in Accounting /\ t.root \in RootValue /\ t.root = ComputeRoot(t.accounts)
  BY <1>9, <1>10 DEF State
<1>13. Exact(u)
  BY <1>1, <1>8, <1>11, <1>12 DEF Exact
<1>14. Operations(u)
  BY DEF Operations
<1>15. u.old # u.new
  BY DEF CanSettle
<1>16. CanWitness(t, p, q)
  <2> SUFFICES ASSUME NEW a \in BatchAccounts(p, q)
               PROVE  t.accounts[a].balance + SumWithdraw(a[1], q)
                        = OldBalance(a) + SumDeposit(a[1], p)
    BY DEF CanWitness
  <2>1. a \in Accounts
    BY <1>4, DepositRecordAssumption DEF BatchAccounts, Range, Request
  <2>2. \A i \in 1..M : DepositRecord[p[i]].acct \in BatchAccounts(p, q)
    BY DEF BatchAccounts, Range
  <2>3. \A i \in 1..N : q[i].acct \in BatchAccounts(p, q)
    BY DEF BatchAccounts, Range
  <2>4. \A b \in BatchAccounts(p, q) : b[2] = a[2]
    BY DEF CanSettle
  <2>5. \A i \in 1..M : DepositRecord[p[i]].acct[2] = a[2]
    BY <2>2, <2>4
  <2>6. \A i \in 1..N : q[i].acct[2] = a[2]
    BY <2>3, <2>4
  <2>7. t.accounts[a].balance + SumWithdraw(a[1], q)
          = base.accounts[a].balance + SumDeposit(a[1], p)
    BY <1>3, <1>5, <1>7, <1>8, <2>1, <2>5, <2>6, BalanceExact
  <2> QED
    BY <1>2, <2>1, <2>7 DEF A
<1> QED
  BY <1>12, <1>13, <1>14, <1>15, <1>16

\* The six inputs tell two batches apart.
LEMMA InputsInjective ==
    ASSUME NEW u, NEW v, Operations(u), Operations(v),
           RelayerPublicInputs(u, BuildCommitments(u)) = ProverPublicInputs(v, BuildCommitments(v))
    PROVE  SameContent(v, u)
<1>1. /\ u.old = v.old
      /\ u.new = v.new
      /\ DepositsRoot(u.deposits) = DepositsRoot(v.deposits)
      /\ WithdrawalsRoot(u.withdrawals) = WithdrawalsRoot(v.withdrawals)
  BY DEF RelayerPublicInputs, ProverPublicInputs, BuildCommitments
<1>2. u.withdrawals = v.withdrawals
  BY <1>1 DEF WithdrawalsRoot
<1>3. u.deposits = v.deposits
  <2>1. PICK M \in Nat, N \in Nat : u.deposits \in [1..M -> Deposits] /\ v.deposits \in [1..N -> Deposits]
    BY DEF Operations
  <2> DEFINE f == [i \in DOMAIN u.deposits |-> <<u.deposits[i], DepositRecord[u.deposits[i]]>>]
             g == [i \in DOMAIN v.deposits |-> <<v.deposits[i], DepositRecord[v.deposits[i]]>>]
  <2>2. f = g
    BY <1>1 DEF DepositsRoot
  <2>3. DOMAIN u.deposits = DOMAIN v.deposits
    BY <2>2
  <2>4. ASSUME NEW i \in DOMAIN u.deposits PROVE u.deposits[i] = v.deposits[i]
    <3>1. f[i] = <<u.deposits[i], DepositRecord[u.deposits[i]]>>
      OBVIOUS
    <3>2. g[i] = <<v.deposits[i], DepositRecord[v.deposits[i]]>>
      BY <2>3
    <3> HIDE DEF f, g
    <3> QED
      BY <2>2, <3>1, <3>2
  <2> QED
    BY <2>1, <2>3, <2>4
<1> QED
  BY <1>1, <1>2, <1>3 DEF SameContent

-----------------------------------------------------------------------------
(* The invariant holds at the start and is kept *)

\* At the start.
LEMMA InitInv == Init => Inv
<1> SUFFICES ASSUME Init PROVE Inv
  OBVIOUS
<1> USE DEF Init
<1>1. chain \in ChainRecord
  <2>1. NewLocalState.accounts \in Accounting
    BY NewLocalStateRooted DEF Rooted, State
  <2>2. GenesisRoot \in RootValue
    BY DEF RootValue
  <2> HIDE DEF RootValue
  <2> QED
    BY <2>1, <2>2 DEF ChainRecord
<1>2. Typed
  BY <1>1, NewLocalStateRooted, ManualModeAssumption DEF Typed, NewLocalState, ZeroAccount
<1>3. Held
  BY DEF Held
<1>4. Checked
  BY DEF Checked
<1>5. ChainExact
  BY DEF ChainExact, IsRoot, Last
<1>6. Paid /\ NonceFree
  BY DEF Paid, NonceFree
<1> QED
  BY <1>2, <1>3, <1>4, <1>5, <1>6 DEF Inv

\* A request that is taken has the next id and the account's next nonce.
LEMMA RequestTyped ==
    ASSUME Typed, NEW body \in WithdrawBodies, withdrawSeq < MaxRequests,
           NEW nonce \in 1..(withdrawSeq + 1),
           NEW req, req = [id |-> withdrawSeq + 1, acct |-> body.acct, amount |-> body.amount,
                           dest |-> body.dest, nonce |-> nonce]
    PROVE  /\ req \in Request /\ req.acct \in Accounts /\ req.amount \in Nat
           /\ withdrawSeq + 1 \in 0..MaxRequests
           /\ \A r \in requests : r.id \in Nat /\ r.id # req.id
<1>1. withdrawSeq + 1 \in 1..MaxRequests /\ nonce \in 1..MaxRequests
  BY ManualModeAssumption DEF Typed
<1>2. body.acct \in Accounts /\ body.amount \in Nat \ {0}
  BY ManualModeAssumption
<1>3. body.dest \in {b.dest : b \in WithdrawBodies}
  OBVIOUS
<1>4. req \in Request
  BY <1>1, <1>2, <1>3 DEF Request
<1>5. \A r \in requests : r.id \in Nat /\ r.id <= withdrawSeq /\ withdrawSeq \in Nat
  BY DEF Typed, Request
<1> QED
  BY <1>1, <1>2, <1>4, <1>5

\* Types are kept.
LEMMA TypedStep == Inv /\ [Next]_vars => Typed'
<1> SUFFICES ASSUME Inv, [Next]_vars PROVE Typed'
  OBVIOUS
<1> USE DEF Inv
<1>0. Typed
  OBVIOUS
<1>1. ASSUME NEW d \in Deposits, DepositTx(d) PROVE Typed'
  <2>1. chain' \in ChainRecord /\ chain'.queued = chain.queued \cup {d}
    BY <1>0, <1>1 DEF DepositTx, Typed, ChainRecord
  <2> QED
    BY <1>0, <1>1, <2>1 DEF DepositTx, Typed, processVars
<1>2. ASSUME NEW d \in Deposits, IndexDeposit(d) PROVE Typed'
  <2>1. manager \in State /\ manager \in Rooted
    BY <1>0 DEF Typed, Rooted
  <2>2. ApplyDeposit(manager, d) \in Rooted
    BY <2>1, ApplyDepositState
  <2>3. \A a \in Accounts : ApplyDeposit(manager, d).accounts[a].nonce = manager.accounts[a].nonce
    <3>1. ApplyDeposit(manager, d).accounts
            = Credit(manager.accounts, DepositRecord[d].acct, DepositRecord[d].amount)
      BY DEF ApplyDeposit
    <3> QED
      BY <2>1, <3>1, DepositRecordAssumption DEF Credit, State, Accounting
  <2> DEFINE s == ApplyDeposit(manager, d)
  <2>4. manager' = s \/ manager' = manager
    BY <1>2 DEF IndexDeposit
  <2> HIDE DEF s
  <2>5. manager' \in Rooted /\ \A a \in Accounts : manager'.accounts[a].nonce <= withdrawSeq
    BY <1>0, <2>2, <2>3, <2>4 DEF Typed, s
  <2> QED
    BY <1>0, <1>2, <2>5 DEF IndexDeposit, Typed
<1>3. ASSUME NEW body \in WithdrawBodies, RequestWithdrawLegacy(body) PROVE Typed'
  <2> DEFINE req == [id |-> withdrawSeq + 1, acct |-> body.acct, amount |-> body.amount,
                     dest |-> body.dest, nonce |-> withdrawSeq + 1]
  <2>1. withdrawSeq + 1 \in 1..(withdrawSeq + 1) /\ withdrawSeq < MaxRequests
    BY <1>0, <1>3 DEF RequestWithdrawLegacy, Typed
  <2>2. withdrawSeq' = withdrawSeq + 1 /\ requests' = requests \cup {req} /\ req.id = withdrawSeq + 1
    BY <1>3 DEF RequestWithdrawLegacy
  <2>3. /\ req \in Request /\ withdrawSeq + 1 \in 0..MaxRequests
        /\ \A r \in requests : r.id \in Nat /\ r.id # req.id
    BY <1>0, <2>1, RequestTyped
  <2> HIDE DEF req
  <2>4. \A r \in requests' : r \in Request /\ r.id <= withdrawSeq'
    BY <1>0, <2>2, <2>3 DEF Typed
  <2>5. \A r, s \in requests' : r.id = s.id => r = s
    BY <1>0, <2>2, <2>3 DEF Typed
  <2>6. \A a \in Accounts : manager.accounts[a].nonce <= withdrawSeq + 1 /\ baseline.accounts[a].nonce <= withdrawSeq + 1
    BY <1>0 DEF Typed, Rooted, State, Accounting, Account
  <2> QED
    BY <1>0, <1>3, <2>2, <2>3, <2>4, <2>5, <2>6 DEF RequestWithdrawLegacy, Typed
<1>4. ASSUME NEW body \in WithdrawBodies, RequestWithdrawOffchain(body) PROVE Typed'
  <2> DEFINE nonce == manager.accounts[body.acct].nonce + 1
             req == [id |-> withdrawSeq + 1, acct |-> body.acct, amount |-> body.amount,
                     dest |-> body.dest, nonce |-> nonce]
             null == MockNullifier(nonce)
             s == ApplyWithdrawal(manager, req, null)
  <2>1. /\ withdrawSeq < MaxRequests
        /\ withdrawSeq' = withdrawSeq + 1
        /\ requests' = requests \/ requests' = requests \cup {req}
        /\ manager' = manager \/ (manager' = s /\ CanApplyWithdrawal(manager, req, null))
    BY <1>4 DEF RequestWithdrawOffchain
  <2>2. body.acct \in Accounts /\ manager \in State
    BY <1>0, ManualModeAssumption DEF Typed, Rooted
  <2>3. nonce \in 1..(withdrawSeq + 1)
    BY <1>0, <2>2 DEF Typed, State, Accounting, Account
  <2>4. null \in Nullifier
    BY <2>3 DEF MockNullifier, NullifierFor, Nullifier
  <2> HIDE DEF nonce, null
  <2>5. /\ req \in Request /\ req.acct \in Accounts /\ req.amount \in Nat
        /\ withdrawSeq + 1 \in 0..MaxRequests
        /\ \A r \in requests : r.id \in Nat /\ r.id # req.id
    BY <1>0, <2>1, <2>3, RequestTyped
  <2>6. req.id = withdrawSeq + 1 /\ req.acct = body.acct
    OBVIOUS
  <2> HIDE DEF req
  <2>7. ASSUME CanApplyWithdrawal(manager, req, null)
        PROVE  s \in Rooted /\ \A a \in Accounts : s.accounts[a].nonce <= withdrawSeq + 1
    <3>1. s \in Rooted /\ s.accounts = Debit(manager.accounts, req.acct, req.amount)
      BY <2>2, <2>4, <2>5, <2>7, ApplyWithdrawalState
    <3>2. manager.accounts \in Accounting /\ withdrawSeq \in Nat
          /\ \A a \in Accounts : manager.accounts[a].nonce <= withdrawSeq
      BY <1>0, <2>2 DEF Typed, State
    <3> HIDE DEF s
    <3> QED
      BY <2>5, <3>1, <3>2 DEF Debit, Accounting, Account
  <2>8. \A a \in Accounts : /\ manager.accounts[a].nonce <= withdrawSeq + 1
                            /\ baseline.accounts[a].nonce <= withdrawSeq + 1
    BY <1>0 DEF Typed, Rooted, State, Accounting, Account
  <2> HIDE DEF s
  <2>9. manager' \in Rooted /\ \A a \in Accounts : manager'.accounts[a].nonce <= withdrawSeq + 1
    BY <1>0, <2>1, <2>7, <2>8 DEF Typed
  <2>10. \A r \in requests' : r \in Request /\ r.id <= withdrawSeq'
    BY <1>0, <2>1, <2>5, <2>6 DEF Typed
  <2>11. \A r, q \in requests' : r.id = q.id => r = q
    BY <1>0, <2>1, <2>5, <2>6 DEF Typed
  <2>12. records' \subseteq {r.id : r \in requests'}
    BY <1>0, <1>4, <2>1 DEF RequestWithdrawOffchain, Typed
  <2>13. UNCHANGED <<wiring, baseline, batchSeq, indexed, records, claimed, chain>>
    BY <1>4 DEF RequestWithdrawOffchain
  <2> QED
    BY <1>0, <2>1, <2>5, <2>8, <2>9, <2>10, <2>11, <2>12, <2>13 DEF Typed
<1>5. ASSUME NEW p, NEW q, BuildBatch(p, q) PROVE Typed'
  <2>1. batchSeq' \in 0..MaxBatches
    BY <1>0, <1>5, ManualModeAssumption DEF BuildBatch, Typed
  <2> QED
    BY <1>0, <1>5, <2>1 DEF BuildBatch, Typed
<1>6. ASSUME NEW u \in built, GenerateProof(u) PROVE Typed'
  BY <1>0, <1>6 DEF GenerateProof, Typed, processVars
<1>7. ASSUME NEW u \in built, NEW b \in bundles, RelayerAccepts(u, b) PROVE Typed'
  <2>1. chain' \in ChainRecord /\ chain'.queued = chain.queued
    <3>1. CASE ~wiring.chain
      BY <1>0, <1>7, <3>1 DEF RelayerAccepts, Typed
    <3>2. CASE wiring.chain
      <4>1. ChainAccepts(u, b) /\ chain' = ChainAfter(u)
        BY <1>7, <3>2 DEF RelayerAccepts
      <4>2. PICK A \in Accounting : /\ IsRoot(u.old, A) /\ Settle(A, u) \in Accounting
        BY DEF Held, Exact
      <4>3. IsRoot(u.old, chain.ledger) /\ chain.ledger \in Accounting
        BY <1>0, <4>1 DEF ChainAccepts, ChainExact, Typed, ChainRecord
      <4>4. A = chain.ledger
        BY <4>2, <4>3, RootInjective
      <4>5. Settle(chain.ledger, u) \in Accounting
        BY <4>2, <4>4
      <4>6. u.new \in RootValue /\ Operations(u)
        BY DEF Held
      <4>7. Range(u.deposits) \subseteq Deposits
        BY <4>6 DEF Operations, Range
      <4>8. {w.nullifier : w \in Range(u.withdrawals)} \subseteq Nullifier
        BY <1>0, <4>6 DEF Operations, Range, Typed, Request, SettlementWithdrawal, MockNullifier,
                          NullifierFor, Nullifier
      <4>9. Append(chain.roots, u.new) \in Seq(RootValue)
        BY <1>0, <4>6 DEF Typed, ChainRecord
      <4> QED
        BY <1>0, <4>1, <4>5, <4>7, <4>8, <4>9 DEF ChainAfter, Typed, ChainRecord
    <3> QED
      BY <3>1, <3>2
  <2> QED
    BY <1>0, <1>7, <2>1 DEF RelayerAccepts, Typed, processVars
<1>8. ASSUME NEW u \in built, NEW b \in bundles, SubmitAnswered(u, b) PROVE Typed'
  <2>1. Operations(u)
    BY DEF Held
  <2>2. {w.id : w \in Range(u.withdrawals)} \subseteq {r.id : r \in requests}
    BY <2>1 DEF Operations, Range, SettlementWithdrawal
  <2>3. records' \subseteq {r.id : r \in requests} /\ claimed' \subseteq records'
    BY <1>0, <1>8, <2>2 DEF SubmitAnswered, Typed
  <2>4. baseline' \in {manager, baseline}
    BY <1>8 DEF SubmitAnswered
  <2> QED
    BY <1>0, <1>8, <2>3, <2>4 DEF SubmitAnswered, Typed
<1>9. ASSUME RollbackToBaseline PROVE Typed'
  <2>1. manager' \in {manager, baseline}
    BY <1>9 DEF RollbackToBaseline
  <2> QED
    BY <1>0, <1>9, <2>1 DEF RollbackToBaseline, Typed
<1>10. ASSUME NEW w \in records, ClaimWithdraw(w) PROVE Typed'
  BY <1>0, <1>10 DEF ClaimWithdraw, Typed
<1>11. ASSUME UNCHANGED vars PROVE Typed'
  BY <1>0, <1>11 DEF vars, processVars, Typed
<1> QED
  BY <1>1, <1>2, <1>3, <1>4, <1>5, <1>6, <1>7, <1>8, <1>9, <1>10, <1>11
     DEF Next, SubmitUnconfirmed, SubmitRefused

\* What clients hold stays exact: a build adds one batch under a new number.
LEMMA HeldStep == Inv /\ [Next]_vars => Held'
<1> SUFFICES ASSUME Inv, [Next]_vars PROVE Held'
  OBVIOUS
<1> USE DEF Inv
<1>0. Typed /\ Held
  OBVIOUS
<1>1. ASSUME UNCHANGED <<built, bundles, batchSeq>>, requests \subseteq requests' PROVE Held'
  <2>1. ASSUME NEW u \in built PROVE Operations(u)'
    <3>1. Operations(u)
      BY <1>0 DEF Held
    <3>2. PICK N \in Nat : \E q \in [1..N -> requests] :
             u.withdrawals = [i \in 1..N |-> SettlementWithdrawal(q[i])]
      BY <3>1 DEF Operations
    <3> PICK q \in [1..N -> requests] :
             u.withdrawals = [i \in 1..N |-> SettlementWithdrawal(q[i])]
      BY <3>2
    <3>3. q \in [1..N -> requests']
      BY <1>1, <3>2
    <3> QED
      BY <3>1, <3>2, <3>3 DEF Operations, SettlementWithdrawal, MockNullifier
  <2> QED
    BY <1>0, <1>1, <2>1 DEF Held, Exact, Settle
<1>2. ASSUME NEW p \in SeqOf(Deposits, Cardinality(Deposits)), NEW q \in SeqOf(requests, MaxRequests),
             BuildBatch(p, q)
      PROVE  Held'
  <2>1. PICK M \in Nat : p \in [1..M -> Deposits]
    BY SeqOfIs
  <2>2. PICK N \in Nat : q \in [1..N -> requests]
    BY SeqOfIs
  <2> DEFINE t == WorkingState(p, q)
             u == [batch |-> batchSeq + 1, old |-> OldStateRoot, new |-> t.root, deposits |-> p,
                   withdrawals |-> [i \in DOMAIN q |-> SettlementWithdrawal(q[i])]]
  <2>3. /\ t # Refused
        /\ CanSettle(t.root, p, q)
        /\ batchSeq' = batchSeq + 1
        /\ CanWitness(t, p, q) => built' = built \cup {u}
        /\ UNCHANGED <<bundles, requests>>
    BY <1>2 DEF BuildBatch
  <2>4. DOMAIN q = 1..N
    BY <2>2
  <2>5. /\ u.batch = batchSeq + 1 /\ u.old = OldStateRoot /\ u.new = t.root /\ u.deposits = p
        /\ u.withdrawals = [i \in 1..N |-> SettlementWithdrawal(q[i])]
    BY <2>4
  <2> HIDE DEF t, u
  <2>6. t = WorkingState(p, q)
    BY DEF t
  <2>7. CanWitness(t, p, q) /\ u.old # u.new /\ u.new \in RootValue /\ Operations(u) /\ Exact(u)
    BY <1>0, <2>1, <2>2, <2>3, <2>5, <2>6, BuildExact
  <2>8. built' = built \cup {u}
    BY <2>3, <2>7
  <2>9. batchSeq \in Nat
    BY <1>0 DEF Typed
  <2>10. \A v : Operations(v) => Operations(v)'
    BY <2>3 DEF Operations, SettlementWithdrawal, MockNullifier
  <2>11. \A v : Exact(v) => Exact(v)'
    BY DEF Exact, Settle
  <2>12. \A v \in built' : /\ v.batch \in 1..batchSeq' /\ v.old # v.new /\ v.new \in RootValue
                           /\ Operations(v)' /\ Exact(v)'
    BY <1>0, <2>3, <2>5, <2>7, <2>8, <2>9, <2>10, <2>11 DEF Held
  <2>13. \A v, w \in built' : v.batch = w.batch => v = w
    BY <1>0, <2>5, <2>8, <2>9 DEF Held
  <2>14. \A n \in 1..batchSeq' : \E v \in built' : v.batch = n
    BY <1>0, <2>3, <2>5, <2>8, <2>9 DEF Held
  <2>15. \A b \in bundles' : \E v \in built' : \E key : b = ProofFor(v, key)
    BY <1>0, <2>3, <2>8 DEF Held
  <2> QED
    BY <2>12, <2>13, <2>14, <2>15 DEF Held
<1>3. ASSUME NEW u \in built, GenerateProof(u) PROVE Held'
  <2>1. PICK key : bundles' = bundles \cup {ProofFor(u, key)}
    BY <1>3 DEF GenerateProof
  <2>2. UNCHANGED <<built, batchSeq, requests>>
    BY <1>3 DEF GenerateProof, processVars
  <2>3. \A b \in bundles' : \E v \in built : \E k : b = ProofFor(v, k)
    BY <1>0, <2>1 DEF Held
  <2>4. \A v : Operations(v) => Operations(v)'
    BY <2>2 DEF Operations, SettlementWithdrawal, MockNullifier
  <2>5. \A v : Exact(v) => Exact(v)'
    BY DEF Exact, Settle
  <2> QED
    BY <1>0, <2>2, <2>3, <2>4, <2>5 DEF Held
<1>4. CASE \E d \in Deposits : DepositTx(d) \/ IndexDeposit(d)
  BY <1>1, <1>4 DEF DepositTx, IndexDeposit, processVars, clientVars
<1>5. ASSUME NEW body \in WithdrawBodies, RequestWithdrawLegacy(body) PROVE Held'
  BY <1>1, <1>5 DEF RequestWithdrawLegacy, clientVars
<1>6. ASSUME NEW body \in WithdrawBodies, RequestWithdrawOffchain(body) PROVE Held'
  <2>1. UNCHANGED <<built, bundles, batchSeq>> /\ requests \subseteq requests'
    BY <1>6 DEF RequestWithdrawOffchain, clientVars
  <2> QED
    BY <1>1, <2>1
<1>7. ASSUME NEW u \in built, NEW b \in bundles,
             \/ RelayerAccepts(u, b) \/ SubmitAnswered(u, b)
             \/ SubmitUnconfirmed(u, b) \/ SubmitRefused(u, b)
      PROVE  Held'
  BY <1>1, <1>7 DEF RelayerAccepts, SubmitAnswered, SubmitUnconfirmed, SubmitRefused,
                    RollbackToBaseline, processVars
<1>8. CASE (\E w \in records : ClaimWithdraw(w)) \/ UNCHANGED vars
  BY <1>1, <1>8 DEF ClaimWithdraw, clientVars, vars, processVars
<1> QED
  BY <1>2, <1>3, <1>4, <1>5, <1>6, <1>7, <1>8 DEF Next

\* What is accepted has passed the checks, and the pair was given to the client.
LEMMA CheckedStep == Inv /\ [Next]_vars => Checked'
<1> SUFFICES ASSUME Inv, [Next]_vars PROVE Checked'
  OBVIOUS
<1> USE DEF Inv
<1>0. Checked
  OBVIOUS
<1>1. ASSUME UNCHANGED <<wiring, accepted>>, inflight' \subseteq inflight,
             built \subseteq built', bundles \subseteq bundles'
      PROVE  Checked'
  BY <1>0, <1>1 DEF Checked, ValidatePublicInputs
<1>2. ASSUME NEW u \in built, NEW b \in bundles, RelayerAccepts(u, b) PROVE Checked'
  <2>1. ValidatePublicInputs(u, b) /\ (wiring.remote => b.key = ExpectedKey)
    BY <1>2 DEF RelayerAccepts, PassesGate, GuardProofContract, ChainAccepts
  <2>2. /\ UNCHANGED <<wiring, built, bundles>>
        /\ inflight' = inflight \cup {<<u, b>>}
        /\ accepted' = accepted \cup {<<u, b>>}
    BY <1>2 DEF RelayerAccepts
  <2> QED
    BY <1>0, <2>1, <2>2 DEF Checked, ValidatePublicInputs
<1>3. ASSUME NEW p, NEW q, BuildBatch(p, q) PROVE Checked'
  <2>1. UNCHANGED <<wiring, accepted, inflight, bundles>> /\ built \subseteq built'
    BY <1>3 DEF BuildBatch
  <2> QED
    BY <1>1, <2>1
<1>4. ASSUME NEW u \in built, GenerateProof(u) PROVE Checked'
  BY <1>1, <1>4 DEF GenerateProof
<1>5. CASE \E d \in Deposits : DepositTx(d) \/ IndexDeposit(d)
  BY <1>1, <1>5 DEF DepositTx, IndexDeposit, clientVars
<1>6. ASSUME NEW body \in WithdrawBodies, RequestWithdrawLegacy(body) \/ RequestWithdrawOffchain(body)
      PROVE  Checked'
  <2>1. UNCHANGED <<wiring, accepted, inflight, built, bundles>>
    BY <1>6 DEF RequestWithdrawLegacy, RequestWithdrawOffchain, clientVars
  <2> QED
    BY <1>1, <2>1
<1>7. ASSUME NEW u \in built, NEW b \in bundles,
             SubmitAnswered(u, b) \/ SubmitUnconfirmed(u, b) \/ SubmitRefused(u, b)
      PROVE  Checked'
  BY <1>1, <1>7 DEF SubmitAnswered, SubmitUnconfirmed, SubmitRefused, RollbackToBaseline
<1>8. CASE (\E w \in records : ClaimWithdraw(w)) \/ UNCHANGED vars
  BY <1>1, <1>8 DEF ClaimWithdraw, clientVars, vars
<1> QED
  BY <1>2, <1>3, <1>4, <1>5, <1>6, <1>7, <1>8 DEF Next

\* The chain stays exact: a batch starts from the root of the accounts it was
\* built from, and roots tell accounts apart.
LEMMA ChainExactStep == Inv /\ [Next]_vars => ChainExact'
<1> SUFFICES ASSUME Inv, [Next]_vars PROVE ChainExact'
  OBVIOUS
<1> USE DEF Inv
<1>0. Typed /\ ChainExact
  OBVIOUS
<1>1. ASSUME chain'.roots = chain.roots, chain'.ledger = chain.ledger PROVE ChainExact'
  BY <1>0, <1>1 DEF ChainExact, IsRoot
<1>2. ASSUME NEW u \in built, NEW b \in bundles, RelayerAccepts(u, b) PROVE ChainExact'
  <2>1. CASE ~wiring.chain
    BY <1>1, <1>2, <2>1 DEF RelayerAccepts
  <2>2. CASE wiring.chain
    <3>1. ChainAccepts(u, b) /\ chain' = ChainAfter(u)
      BY <1>2, <2>2 DEF RelayerAccepts
    <3>2. PICK A \in Accounting : /\ IsRoot(u.old, A)
                                  /\ u.new = ComputeRoot(Settle(A, u))
      BY DEF Held, Exact
    <3>3. IsRoot(u.old, chain.ledger) /\ chain.ledger \in Accounting
      BY <1>0, <3>1 DEF ChainAccepts, ChainExact, Typed, ChainRecord
    <3>4. A = chain.ledger
      BY <3>2, <3>3, RootInjective
    <3>5. chain'.roots = Append(chain.roots, u.new) /\ chain'.ledger = Settle(chain.ledger, u)
      BY <1>0, <3>1 DEF ChainAfter, Typed, ChainRecord
    <3>6. u.new \in RootValue /\ chain.roots \in Seq(RootValue) /\ Len(chain.roots) > 0
      BY <1>0 DEF Held, Typed, ChainRecord, ChainExact
    <3>7. Len(chain'.roots) > 1 /\ Last(chain'.roots) = u.new
      BY <3>5, <3>6 DEF Last
    <3>8. Last(chain'.roots) = ComputeRoot(chain'.ledger)
      BY <3>2, <3>4, <3>5, <3>7
    <3>9. chain'.roots # <<>> /\ Len(chain'.roots) # 1
      BY <3>5, <3>6
    <3>10. IsRoot(Last(chain'.roots), chain'.ledger)
      BY <3>8 DEF IsRoot
    <3>11. IsRoot(Last(chain.roots), chain.ledger)'
      BY <3>10 DEF IsRoot
    <3> QED
      BY <3>8, <3>9, <3>11 DEF ChainExact
  <2> QED
    BY <2>1, <2>2
<1>3. ASSUME NEW d \in Deposits, DepositTx(d) PROVE ChainExact'
  <2>1. chain'.roots = chain.roots /\ chain'.ledger = chain.ledger
    BY <1>0, <1>3 DEF DepositTx, Typed, ChainRecord
  <2> QED
    BY <1>1, <2>1
<1>4. ASSUME NEW d, IndexDeposit(d) PROVE ChainExact'
  BY <1>1, <1>4 DEF IndexDeposit
<1>5. ASSUME NEW body \in WithdrawBodies, RequestWithdrawLegacy(body) \/ RequestWithdrawOffchain(body)
      PROVE  ChainExact'
  <2>1. UNCHANGED chain
    BY <1>5 DEF RequestWithdrawLegacy, RequestWithdrawOffchain
  <2> QED
    BY <1>1, <2>1
<1>6. ASSUME NEW p, NEW q, BuildBatch(p, q) PROVE ChainExact'
  BY <1>1, <1>6 DEF BuildBatch
<1>7. ASSUME NEW u \in built, GenerateProof(u) PROVE ChainExact'
  BY <1>1, <1>7 DEF GenerateProof
<1>8. ASSUME NEW u \in built, NEW b \in bundles,
             SubmitAnswered(u, b) \/ SubmitUnconfirmed(u, b) \/ SubmitRefused(u, b)
      PROVE  ChainExact'
  BY <1>1, <1>8 DEF SubmitAnswered, SubmitUnconfirmed, SubmitRefused, RollbackToBaseline
<1>9. CASE (\E w \in records : ClaimWithdraw(w)) \/ UNCHANGED vars
  BY <1>1, <1>9 DEF ClaimWithdraw, vars
<1> QED
  BY <1>2, <1>3, <1>4, <1>5, <1>6, <1>7, <1>8, <1>9 DEF Next

\* A chain keeps paying each nullifier once: a batch that repeats one is refused.
LEMMA PaidStep == Inv /\ [Next]_vars => Paid'
<1> SUFFICES ASSUME Inv, [Next]_vars PROVE Paid'
  OBVIOUS
<1> USE DEF Inv
<1>0. Typed /\ Checked /\ Paid
  OBVIOUS
<1>1. ASSUME UNCHANGED <<wiring, accepted, records>>, chain'.nullifiers = chain.nullifiers,
             inflight' \subseteq inflight
      PROVE  Paid'
  BY <1>0, <1>1 DEF Paid
<1>2. ASSUME NEW u \in built, NEW b \in bundles, RelayerAccepts(u, b) PROVE Paid'
  <2>1. CASE ~wiring.chain
    BY <1>2, <2>1 DEF RelayerAccepts, Paid
  <2>2. CASE wiring.chain
    <3> DEFINE W(pair) == Range(pair[1].withdrawals)
               new == <<u, b>>
    <3>1. /\ \A w \in W(new) : w.nullifier \notin chain.nullifiers
          /\ inflight' = inflight \cup {new}
          /\ accepted' = accepted \cup {new}
          /\ UNCHANGED <<wiring, records>>
          /\ chain' = ChainAfter(u)
      BY <1>2, <2>2 DEF RelayerAccepts, ChainAccepts, processVars
    <3>2. chain'.nullifiers = chain.nullifiers \cup {w.nullifier : w \in W(new)}
      BY <1>0, <3>1 DEF ChainAfter, Typed, ChainRecord
    <3> HIDE DEF W, new
    <3>3. /\ \A pair \in accepted : \A w \in W(pair) : w.nullifier \in chain.nullifiers
          /\ \A pair, other \in accepted : \A w \in W(pair), v \in W(other) :
                w.nullifier = v.nullifier => pair = other
          /\ \A id \in records : \E pair \in accepted \ inflight : \E w \in W(pair) : w.id = id
      BY <1>0, <2>2 DEF Paid, W
    <3>4. \A pair \in accepted' : \A w \in W(pair) : w.nullifier \in chain'.nullifiers
      BY <3>1, <3>2, <3>3
    <3>5. \A pair, other \in accepted' : \A w \in W(pair), v \in W(other) :
             w.nullifier = v.nullifier => pair = other
      BY <3>1, <3>3
    <3>6. \A id \in records' : \E pair \in accepted' \ inflight' : \E w \in W(pair) : w.id = id
      <4> SUFFICES ASSUME NEW id \in records
                   PROVE  \E pair \in accepted' \ inflight' : \E w \in W(pair) : w.id = id
        BY <3>1
      <4>1. PICK pair \in accepted \ inflight : \E w \in W(pair) : w.id = id
        BY <3>3
      <4>2. pair # new
        BY <3>1, <3>3, <4>1
      <4> QED
        BY <3>1, <4>1, <4>2
    <3> QED
      BY <3>4, <3>5, <3>6 DEF Paid, W
  <2> QED
    BY <2>1, <2>2
<1>3. ASSUME NEW u \in built, NEW b \in bundles, SubmitAnswered(u, b) PROVE Paid'
  <2> DEFINE new == <<u, b>>
  <2>1. /\ new \in accepted /\ inflight' = inflight \ {new}
        /\ records' = records \cup {w.id : w \in Range(u.withdrawals)}
        /\ UNCHANGED <<wiring, accepted, chain>>
    BY <1>0, <1>3 DEF SubmitAnswered, Checked
  <2>2. new[1] = u
    OBVIOUS
  <2> HIDE DEF new
  <2>3. ASSUME wiring.chain, NEW id \in records'
        PROVE  \E pair \in accepted' \ inflight' : \E w \in Range(pair[1].withdrawals) : w.id = id
    <3>1. CASE id \in records
      BY <1>0, <2>1, <2>3, <3>1 DEF Paid
    <3>2. CASE \E w \in Range(u.withdrawals) : w.id = id
      BY <2>1, <2>2, <3>2
    <3> QED
      BY <2>1, <2>3, <3>1, <3>2
  <2> QED
    BY <1>0, <2>1, <2>3 DEF Paid
<1>4. ASSUME NEW d \in Deposits, DepositTx(d) PROVE Paid'
  <2>1. chain'.nullifiers = chain.nullifiers
    BY <1>0, <1>4 DEF DepositTx, Typed, ChainRecord
  <2> QED
    BY <1>1, <1>4, <2>1 DEF DepositTx, processVars, clientVars
<1>5. ASSUME NEW d, IndexDeposit(d) PROVE Paid'
  BY <1>1, <1>5 DEF IndexDeposit, clientVars
<1>6. ASSUME NEW body \in WithdrawBodies, RequestWithdrawLegacy(body) \/ RequestWithdrawOffchain(body)
      PROVE  Paid'
  <2>1. UNCHANGED <<wiring, accepted, records, chain, inflight>>
    BY <1>6 DEF RequestWithdrawLegacy, RequestWithdrawOffchain, clientVars
  <2> QED
    BY <1>1, <2>1
<1>7. ASSUME NEW p, NEW q, BuildBatch(p, q) PROVE Paid'
  BY <1>1, <1>7 DEF BuildBatch
<1>8. ASSUME NEW u \in built, GenerateProof(u) PROVE Paid'
  BY <1>1, <1>8 DEF GenerateProof, processVars
<1>9. ASSUME NEW u \in built, NEW b \in bundles, SubmitUnconfirmed(u, b) \/ SubmitRefused(u, b)
      PROVE  Paid'
  BY <1>1, <1>9 DEF SubmitUnconfirmed, SubmitRefused, RollbackToBaseline
<1>10. CASE (\E w \in records : ClaimWithdraw(w)) \/ UNCHANGED vars
  BY <1>1, <1>10 DEF ClaimWithdraw, clientVars, vars, processVars
<1> QED
  BY <1>2, <1>3, <1>4, <1>5, <1>6, <1>7, <1>8, <1>9, <1>10 DEF Next

\* Without rollback the manager's nullifiers only grow, and a request is saved
\* after its own is added.
LEMMA NonceFreeStep == Inv /\ [Next]_vars => NonceFree'
<1> SUFFICES ASSUME Inv, [Next]_vars, wiring'.offchain, wiring'.builder = "local"
             PROVE  \A r \in requests' : MockNullifier(r.nonce) \in manager'.appliedNullifiers
  BY DEF NonceFree, MockNullifier
<1> USE DEF Inv
<1>0. UNCHANGED wiring
  BY DEF Next, vars, DepositTx, IndexDeposit, RequestWithdrawLegacy, RequestWithdrawOffchain,
         BuildBatch, GenerateProof, RelayerAccepts, SubmitAnswered, SubmitUnconfirmed, SubmitRefused,
         RollbackToBaseline, ClaimWithdraw
<1>1. \A r \in requests : MockNullifier(r.nonce) \in manager.appliedNullifiers
  BY <1>0 DEF NonceFree
<1>2. CASE UNCHANGED <<requests, manager>>
  BY <1>1, <1>2
<1>3. ASSUME NEW d \in Deposits, IndexDeposit(d) PROVE UNCHANGED requests
        /\ manager'.appliedNullifiers = manager.appliedNullifiers
  <2>1. manager \in State
    BY DEF Typed, Rooted
  <2> QED
    BY <1>3, <2>1, ApplyDepositState DEF IndexDeposit
<1>4. ASSUME NEW body \in WithdrawBodies, RequestWithdrawOffchain(body)
      PROVE  \A r \in requests' : MockNullifier(r.nonce) \in manager'.appliedNullifiers
  <2> DEFINE nonce == manager.accounts[body.acct].nonce + 1
             req == [id |-> withdrawSeq + 1, acct |-> body.acct, amount |-> body.amount,
                     dest |-> body.dest, nonce |-> nonce]
             null == MockNullifier(nonce)
             s == ApplyWithdrawal(manager, req, null)
  <2>1. \/ UNCHANGED <<requests, manager>>
        \/ manager' = s /\ requests' \subseteq requests \cup {req}
    BY <1>4 DEF RequestWithdrawOffchain
  <2>2. s.appliedNullifiers = manager.appliedNullifiers \cup {null}
    BY DEF ApplyWithdrawal
  <2>3. MockNullifier(req.nonce) = null
    OBVIOUS
  <2> HIDE DEF nonce, req, null, s
  <2> QED
    BY <1>1, <2>1, <2>2, <2>3
<1>5. ASSUME RollbackToBaseline PROVE UNCHANGED <<requests, manager>>
  BY <1>0, <1>5 DEF RollbackToBaseline, RollsBack
<1>6. ~(\E body \in WithdrawBodies : RequestWithdrawLegacy(body))
  BY <1>0 DEF RequestWithdrawLegacy
<1>7. CASE \E d \in Deposits : DepositTx(d)
  BY <1>2, <1>7 DEF DepositTx, processVars
<1>8. CASE \E p, q : BuildBatch(p, q)
  <2>1. UNCHANGED <<requests, manager>>
    BY <1>8 DEF BuildBatch
  <2> QED
    BY <1>2, <2>1
<1>9. CASE \E u \in built : GenerateProof(u)
  BY <1>2, <1>9 DEF GenerateProof, processVars
<1>10. ASSUME NEW u \in built, NEW b \in bundles,
              \/ RelayerAccepts(u, b) \/ SubmitAnswered(u, b)
              \/ SubmitUnconfirmed(u, b) \/ SubmitRefused(u, b)
       PROVE  UNCHANGED <<requests, manager>>
  BY <1>5, <1>10 DEF RelayerAccepts, SubmitAnswered, SubmitUnconfirmed, SubmitRefused, processVars
<1>11. CASE (\E w \in records : ClaimWithdraw(w)) \/ UNCHANGED vars
  BY <1>2, <1>11 DEF ClaimWithdraw, vars, processVars
<1> QED
  BY <1>1, <1>2, <1>3, <1>4, <1>6, <1>7, <1>8, <1>9, <1>10, <1>11 DEF Next

\* The invariant holds in every state of every wiring.
LEMMA Invariance == Spec => []Inv
<1>1. Inv /\ [Next]_vars => Inv'
  BY TypedStep, HeldStep, CheckedStep, ChainExactStep, PaidStep, NonceFreeStep DEF Inv
<1> QED
  BY InitInv, <1>1, PTL DEF Spec

-----------------------------------------------------------------------------
(* Claims *)

\* On a chain a claimed withdrawal stays claimed: the records a submit saves as
\* not claimed are not among those an earlier submit saved.
LEMMA ClaimedKept == Inv /\ [Next]_vars => (wiring.chain => claimed \subseteq claimed')
<1> SUFFICES ASSUME Inv, Next, wiring.chain PROVE claimed \subseteq claimed'
  BY DEF vars, processVars
<1>1. ASSUME NEW u \in built, NEW b \in bundles, SubmitAnswered(u, b) PROVE claimed \subseteq claimed'
  <2> SUFFICES ASSUME NEW id \in claimed, NEW w \in Range(u.withdrawals), w.id = id PROVE FALSE
    BY <1>1 DEF SubmitAnswered
  <2> DEFINE new == <<u, b>>
  <2>1. new \in inflight /\ new \in accepted /\ new[1] = u
    BY <1>1 DEF SubmitAnswered, Inv, Checked
  <2> HIDE DEF new
  <2>2. id \in records
    BY DEF Inv, Typed
  <2>3. PICK pair \in accepted \ inflight : \E v \in Range(pair[1].withdrawals) : v.id = id
    BY <2>2 DEF Inv, Paid
  <2>4. PICK v \in Range(pair[1].withdrawals) : v.id = id
    BY <2>3
  <2>5. \A x \in built : \A y \in Range(x.withdrawals) : \E r \in requests : y = SettlementWithdrawal(r)
    <3> SUFFICES ASSUME NEW x \in built, NEW y \in Range(x.withdrawals)
                 PROVE  \E r \in requests : y = SettlementWithdrawal(r)
      OBVIOUS
    <3>1. Operations(x)
      BY DEF Inv, Held
    <3> HIDE DEF SettlementWithdrawal
    <3> QED
      BY <3>1 DEF Operations, Range
  <2>6. pair[1] \in built
    BY <2>3 DEF Inv, Checked
  <2>7. PICK r \in requests : w = SettlementWithdrawal(r)
    BY <2>5
  <2>8. PICK s \in requests : v = SettlementWithdrawal(s)
    BY <2>5, <2>6
  <2>9. r.id = s.id
    BY <2>4, <2>7, <2>8 DEF SettlementWithdrawal
  <2>10. r = s
    BY <2>9 DEF Inv, Typed
  <2>11. w.nullifier = v.nullifier
    BY <2>7, <2>8, <2>10
  <2>12. new = pair
    BY <2>1, <2>3, <2>4, <2>11 DEF Inv, Paid
  <2> QED
    BY <2>1, <2>3, <2>12
<1>2. CASE \E d \in Deposits : DepositTx(d) \/ IndexDeposit(d)
  BY <1>2 DEF DepositTx, IndexDeposit, processVars
<1>3. ASSUME NEW body \in WithdrawBodies, RequestWithdrawLegacy(body) \/ RequestWithdrawOffchain(body)
      PROVE  claimed \subseteq claimed'
  BY <1>3 DEF RequestWithdrawLegacy, RequestWithdrawOffchain
<1>4. ASSUME NEW p, NEW q, BuildBatch(p, q) PROVE claimed \subseteq claimed'
  BY <1>4 DEF BuildBatch
<1>5. CASE \E u \in built : GenerateProof(u)
  BY <1>5 DEF GenerateProof, processVars
<1>6. ASSUME NEW u \in built, NEW b \in bundles,
             RelayerAccepts(u, b) \/ SubmitUnconfirmed(u, b) \/ SubmitRefused(u, b)
      PROVE  claimed \subseteq claimed'
  BY <1>6 DEF RelayerAccepts, SubmitUnconfirmed, SubmitRefused, RollbackToBaseline, processVars
<1>7. CASE \E w \in records : ClaimWithdraw(w)
  BY <1>7 DEF ClaimWithdraw
<1> QED
  BY <1>1, <1>2, <1>3, <1>4, <1>5, <1>6, <1>7 DEF Next

\* On a chain a record has been credited once when it is claimed, and never before.
ClaimsOnce ==
    /\ credited \in [1..MaxRequests -> 0..MaxClaims]
    /\ wiring.chain =>
          \A id \in 1..MaxRequests : credited[id] = IF id \in claimed THEN 1 ELSE 0

\* A claim is the only step that credits a record or marks it claimed.
LEMMA OnlyClaims ==
    ASSUME [Next]_vars
    PROVE  \/ \E w \in records : ClaimWithdraw(w)
           \/ UNCHANGED <<credited, wiring>> /\ claimed' \subseteq claimed
<1>1. CASE \E d \in Deposits : DepositTx(d) \/ IndexDeposit(d)
  BY <1>1 DEF DepositTx, IndexDeposit, processVars
<1>2. ASSUME NEW body \in WithdrawBodies, RequestWithdrawLegacy(body) \/ RequestWithdrawOffchain(body)
      PROVE  UNCHANGED <<credited, wiring, claimed>>
  BY <1>2 DEF RequestWithdrawLegacy, RequestWithdrawOffchain
<1>3. ASSUME NEW p, NEW q, BuildBatch(p, q) PROVE UNCHANGED <<credited, wiring, claimed>>
  BY <1>3 DEF BuildBatch
<1>4. CASE \E u \in built : GenerateProof(u)
  BY <1>4 DEF GenerateProof, processVars
<1>5. ASSUME NEW u \in built, NEW b \in bundles,
             \/ RelayerAccepts(u, b) \/ SubmitAnswered(u, b)
             \/ SubmitUnconfirmed(u, b) \/ SubmitRefused(u, b)
      PROVE  UNCHANGED <<credited, wiring>> /\ claimed' \subseteq claimed
  BY <1>5 DEF RelayerAccepts, SubmitAnswered, SubmitUnconfirmed, SubmitRefused,
              RollbackToBaseline, processVars
<1>6. CASE UNCHANGED vars
  BY <1>6 DEF vars, processVars
<1> QED
  BY <1>1, <1>2, <1>3, <1>4, <1>5, <1>6 DEF Next

\* Every step keeps it: what is credited is marked, and the mark is not lost.
LEMMA ClaimsOnceStep == Inv /\ ClaimsOnce /\ [Next]_vars => ClaimsOnce'
<1> SUFFICES ASSUME Inv, ClaimsOnce, [Next]_vars PROVE ClaimsOnce'
  OBVIOUS
<1>1. ASSUME NEW w \in records, ClaimWithdraw(w) PROVE ClaimsOnce'
  <2>1. w \in 1..MaxRequests
    BY DEF Inv, Typed, Request
  <2>2. /\ w \notin claimed /\ claimed' = claimed \cup {w} /\ credited[w] < MaxClaims
        /\ credited' = [credited EXCEPT ![w] = @ + 1] /\ UNCHANGED wiring
    BY <1>1 DEF ClaimWithdraw
  <2> QED
    BY <2>1, <2>2, ManualModeAssumption DEF ClaimsOnce
<1>2. CASE UNCHANGED <<credited, wiring>> /\ claimed' \subseteq claimed
  BY <1>2, ClaimedKept DEF ClaimsOnce
<1> QED
  BY <1>1, <1>2, OnlyClaims

\* It holds in every state.
LEMMA ClaimsInvariance == Spec => [](Inv /\ ClaimsOnce)
<1>1. Init => ClaimsOnce
  BY ManualModeAssumption DEF Init, ClaimsOnce
<1>2. Inv /\ [Next]_vars => Inv'
  BY TypedStep, HeldStep, CheckedStep, ChainExactStep, PaidStep, NonceFreeStep DEF Inv
<1> QED
  BY InitInv, <1>1, <1>2, ClaimsOnceStep, PTL DEF Spec

-----------------------------------------------------------------------------
(* The theorems *)

\* Every variable keeps its type, in every wiring.
THEOREM TypeTheorem == Spec => []TypeOK
<1>1. Inv /\ ClaimsOnce => TypeOK
  <2> SUFFICES ASSUME Inv, ClaimsOnce PROVE TypeOK
    OBVIOUS
  <2> USE DEF Inv
  <2>1. /\ wiring \in Wirings
        /\ withdrawSeq \in 0..MaxRequests /\ batchSeq \in 0..MaxBatches
        /\ indexed \subseteq chain.queued /\ requests \subseteq Request
        /\ claimed \subseteq records /\ records \subseteq {r.id : r \in requests}
    BY DEF Typed
  <2>2. \A s \in {manager, baseline} : s.accounts \in [Accounts -> Account] /\ s.appliedDeposits \subseteq Deposits
    BY DEF Typed, Rooted, State, Accounting
  <2>3. chain.queued \subseteq Deposits /\ chain.ledger \in [Accounts -> Account]
    BY DEF Typed, ChainRecord, Accounting
  <2>4. {b.of : b \in bundles} \subseteq {u.batch : u \in built}
    BY DEF Held, ProofFor
  <2>5. inflight \subseteq accepted /\ accepted \subseteq built \X bundles
    BY DEF Checked
  <2> QED
    BY <2>1, <2>2, <2>3, <2>4, <2>5 DEF TypeOK, ClaimsOnce
<1> QED
  BY <1>1, ClaimsInvariance, PTL

\* The chain's root is that of the accounts its settled batches make, however
\* clients build, prove and submit, and however the manager is rolled back.
THEOREM SettledRootTheorem == Spec => []SettledRootExact
<1>1. Inv => SettledRootExact
  BY DEF Inv, ChainExact, SettledRootExact
<1> QED
  BY <1>1, Invariance, PTL

\* A batch is accepted only with a proof of its own content, and through the gate
\* only with one of the pinned circuit.
THEOREM AcceptedTheorem == Spec => []AcceptedProved
<1>1. Inv => AcceptedProved
  <2> SUFFICES ASSUME Inv, NEW pair \in accepted
               PROVE  /\ \E u \in built : u.batch = pair[2].of /\ SameContent(u, pair[1])
                      /\ wiring.remote => pair[2].key = ExpectedKey
    BY DEF AcceptedProved
  <2> DEFINE u == pair[1]
             b == pair[2]
  <2>1. /\ u \in built /\ b \in bundles
        /\ ValidatePublicInputs(u, b)
        /\ wiring.remote => b.key = ExpectedKey
    BY DEF Inv, Checked
  <2> HIDE DEF u, b
  <2>2. PICK v \in built : \E key : b = ProofFor(v, key)
    BY <2>1 DEF Inv, Held
  <2>3. b.inputs = ProverPublicInputs(v, BuildCommitments(v)) /\ b.of = v.batch
    BY <2>2 DEF ProofFor
  <2>4. RelayerPublicInputs(u, BuildCommitments(u)) = ProverPublicInputs(v, BuildCommitments(v))
    BY <2>1, <2>3 DEF ValidatePublicInputs
  <2>5. Operations(u) /\ Operations(v)
    BY <2>1, <2>2 DEF Inv, Held
  <2>6. SameContent(v, u)
    BY <2>4, <2>5, InputsInjective
  <2> QED
    BY <2>1, <2>2, <2>3, <2>6 DEF u, b
<1> QED
  BY <1>1, Invariance, PTL

\* The proof made for a batch by the pinned circuit passes the gate and the local
\* relayer.
THEOREM OwnProofTheorem == Spec => []OwnProofPasses
<1>1. Inv => OwnProofPasses
  <2> SUFFICES ASSUME Inv, NEW u \in built, NEW b \in bundles, b.of = u.batch,
                      wiring.remote => b.key = ExpectedKey
               PROVE  PassesGate(u, b) /\ ValidatePublicInputs(u, b)
    BY DEF OwnProofPasses
  <2>1. PICK v \in built : \E key : b = ProofFor(v, key)
    BY DEF Inv, Held
  <2>2. b.inputs = ProverPublicInputs(v, BuildCommitments(v)) /\ b.of = v.batch
    BY <2>1 DEF ProofFor
  <2>3. v = u /\ u.old # u.new
    BY <2>2 DEF Inv, Held
  <2> QED
    BY <2>2, <2>3 DEF PassesGate, GuardProofContract, CanBuildPublicInputs, ValidatePublicInputs,
                      ProverPublicInputs, BuildPublicInputs, RelayerPublicInputs
<1> QED
  BY <1>1, Invariance, PTL

\* Every number the settlement builder hands out is that of a batch a client
\* holds: the witness is never refused after the number is taken.
THEOREM NumbersTheorem == Spec => []NumbersUsed
<1>1. Inv => NumbersUsed
  BY DEF Inv, Held, NumbersUsed
<1> QED
  BY <1>1, Invariance, PTL

\* While nothing rolls the manager back, the nonce it gives an account next is
\* free in the pending table.
THEOREM NonceTheorem == Spec => []NextNonceFree
<1>1. Inv => NextNonceFree
  BY DEF Inv, NonceFree, NextNonceFree, NullifierRecorded
<1> QED
  BY <1>1, Invariance, PTL

\* On a chain a claimed withdrawal stays claimed.
THEOREM ClaimedTheorem == Spec => ClaimedStays
<1>1. Inv /\ [Next]_vars => [wiring.chain => claimed \subseteq claimed']_vars
  BY ClaimedKept
<1> QED
  BY <1>1, Invariance, PTL DEF Spec, ClaimedStays

-----------------------------------------------------------------------------
(* What requests add up to *)

RequestsOf(R, a) == {r \in R : r.acct = a}

RequestAmounts(R) == [r \in R |-> r.amount]

\* The amounts that requests of an account ask for.
Requested(R, a) == MapThenSumSet(LAMBDA r : r.amount, {r \in R : r.acct = a})

\* It is a sum, in the order MapThenSumSet happens to take.
LEMMA RequestedSum ==
    ASSUME NEW R \in SUBSET Request, IsFiniteSet(R), NEW a
    PROVE  \E g : /\ Sums(g, RequestAmounts(RequestsOf(R, a)), RequestsOf(R, a))
                  /\ Requested(R, a) = g[RequestsOf(R, a)]
<1> DEFINE S == RequestsOf(R, a)
           w == RequestAmounts(S)
           Pick(s) == CHOOSE y \in s : TRUE
           Def(g) == [s \in SUBSET S |-> IF s = {} THEN 0
                                         ELSE Pick(s).amount + g[s \ {Pick(s)}]]
           iter == CHOOSE g : g = Def(g)
<1>1. Requested(R, a) = iter[S]
  BY DEF Requested, MapThenSumSet, MapThenFoldSet, RequestsOf
<1>2. S \in SUBSET Request /\ S \in SUBSET R /\ IsFiniteSet(S)
  <2>1. S \in SUBSET R
    BY DEF RequestsOf
  <2> QED
    BY <2>1, FS_Subset
<1> HIDE DEF S
<1>3. w \in [S -> Nat] /\ \A x \in S : w[x] = x.amount
  BY <1>2 DEF RequestAmounts, Request
<1> HIDE DEF w
<1>4. PICK f : Sums(f, w, S)
  BY <1>2, <1>3, SumExists
<1>5. ASSUME NEW s \in SUBSET S, s # {} PROVE Pick(s) \in S
  BY <1>5
<1>6. f = Def(f)
  <2>1. f \in [SUBSET S -> Nat] /\ f[{}] = 0
    BY <1>4 DEF Sums
  <2>2. ASSUME NEW s \in SUBSET S, s # {} PROVE f[s] = Pick(s).amount + f[s \ {Pick(s)}]
    <3>1. f[s] = w[Pick(s)] + f[s \ {Pick(s)}]
      BY <1>4, <2>2 DEF Sums
    <3> HIDE DEF Pick
    <3> QED
      BY <3>1, <1>3, <1>5, <2>2
  <2> HIDE DEF Pick
  <2> QED
    BY <2>1, <2>2
<1>7. iter = Def(iter)
  <2> HIDE DEF Def
  <2> QED
    BY <1>6
<1> HIDE DEF iter
<1>8. Iterates(iter, w, S)
  <2>1. \A s \in SUBSET S : s # {} => w[Pick(s)] = Pick(s).amount
    BY <1>3
  <2>2. iter = [s \in SUBSET S |-> IF s = {} THEN 0 ELSE w[Pick(s)] + iter[s \ {Pick(s)}]]
    <3> HIDE DEF Pick
    <3> QED
      BY <1>7, <2>1
  <2> QED
    BY <2>2 DEF Iterates
<1>9. iter = f
  BY <1>2, <1>3, <1>4, <1>8, SumIterates
<1> QED
  BY <1>1, <1>4, <1>9 DEF S, w

\* Sums are natural numbers, and nothing adds up to nothing.
LEMMA RequestedNat ==
    ASSUME NEW R \in SUBSET Request, IsFiniteSet(R), NEW a
    PROVE  Requested(R, a) \in Nat /\ (R = {} => Requested(R, a) = 0)
<1> DEFINE S == RequestsOf(R, a)
<1>1. PICK g : Sums(g, RequestAmounts(S), S) /\ Requested(R, a) = g[S]
  BY RequestedSum
<1>2. S \in SUBSET S /\ (R = {} => S = {})
  BY DEF RequestsOf
<1> HIDE DEF S
<1>3. g \in [SUBSET S -> Nat] /\ g[{}] = 0
  BY <1>1 DEF Sums
<1>4. g[S] \in Nat
  BY <1>2, <1>3
<1> QED
  BY <1>1, <1>2, <1>3, <1>4

\* One more request adds its amount to its account.
LEMMA RequestedGrows ==
    ASSUME NEW R \in SUBSET Request, IsFiniteSet(R), NEW r \in Request, r \notin R, NEW a,
           NEW Q, Q = R \cup {r}
    PROVE  Requested(Q, a) = Requested(R, a) + IF a = r.acct THEN r.amount ELSE 0
<1> DEFINE S == RequestsOf(R, a)
           T == RequestsOf(Q, a)
<1>1. IsFiniteSet(Q) /\ Q \in SUBSET Request
  BY FS_AddElement
<1>2. PICK g : Sums(g, RequestAmounts(S), S) /\ Requested(R, a) = g[S]
  BY RequestedSum
<1>3. PICK h : Sums(h, RequestAmounts(T), T) /\ Requested(Q, a) = h[T]
  BY <1>1, RequestedSum
<1>4. S \in SUBSET Request /\ S \in SUBSET R /\ IsFiniteSet(S)
  <2>1. S \in SUBSET R
    BY DEF RequestsOf
  <2> QED
    BY <2>1, FS_Subset
<1>5. CASE a # r.acct
  <2>1. T = S
    BY <1>5 DEF RequestsOf
  <2>2. Requested(Q, a) = Requested(R, a)
    BY <2>1 DEF Requested, RequestsOf
  <2>3. Requested(R, a) \in Nat
    BY RequestedNat
  <2> QED
    BY <1>5, <2>2, <2>3
<1>6. CASE a = r.acct
  <2>1. T = S \cup {r} /\ r \notin S
    BY <1>6 DEF RequestsOf
  <2> DEFINE w == RequestAmounts(T)
             v == RequestAmounts(S)
  <2>2. w \in [T -> Nat] /\ w[r] = r.amount
    BY <1>4, <2>1 DEF RequestAmounts, Request
  <2>3. v = [y \in S |-> w[y]]
    BY <2>1 DEF RequestAmounts
  <2>4. Sums(h, w, T) /\ Sums(g, v, S)
    BY <1>2, <1>3
  <2>5. Requested(Q, a) = h[T] /\ Requested(R, a) = g[S]
    BY <1>2, <1>3
  <2> HIDE DEF S, T, w, v
  <2>6. h[T] = g[S] + w[r]
    BY <1>4, <2>1, <2>2, <2>3, <2>4, SumAdd
  <2> QED
    BY <1>6, <2>2, <2>5, <2>6
<1> QED
  BY <1>5, <1>6

\* A part of the requests asks for no more than all of them.
LEMMA RequestedMonotone ==
    ASSUME NEW R \in SUBSET Request, IsFiniteSet(R), NEW Q \in SUBSET R, NEW a
    PROVE  Requested(Q, a) <= Requested(R, a)
<1> DEFINE F == [X \in SUBSET R |-> Requested(X, a)]
<1>1. ASSUME NEW X \in SUBSET R PROVE X \in SUBSET Request /\ IsFiniteSet(X) /\ Requested(X, a) \in Nat
  BY RequestedNat, FS_Subset
<1>2. ASSUME NEW X \in SUBSET R, NEW x \in R PROVE F[X] <= F[X \cup {x}]
  <2> DEFINE Y == X \cup {x}
             more == IF a = x.acct THEN x.amount ELSE 0
  <2>1. Y \in SUBSET R /\ F[X] = Requested(X, a) /\ F[Y] = Requested(Y, a)
    OBVIOUS
  <2>2. CASE x \in X
    <3>1. Y = X
      BY <2>2
    <3> QED
      BY <1>1, <2>1, <3>1
  <2>3. CASE x \notin X
    <3>1. Requested(Y, a) = Requested(X, a) + more
      BY <1>1, <2>3, RequestedGrows
    <3>2. more \in Nat
      BY DEF Request
    <3>3. Requested(X, a) \in Nat
      BY <1>1
    <3> HIDE DEF F, Y, more
    <3> QED
      BY <2>1, <3>1, <3>2, <3>3 DEF Y
  <2> QED
    BY <2>2, <2>3
<1>3. Grows(F, R)
  BY <1>1, <1>2 DEF Grows
<1>4. F[Q] <= F[R]
  <2> HIDE DEF F
  <2> QED
    BY <1>3, GrowsMonotone
<1> QED
  BY <1>4

-----------------------------------------------------------------------------
(* What a batch does to a balance *)

\* No element is there twice.
Distinct(q, N) == \A i, j \in 1..N : q[i] = q[j] => i = j

\* The first n elements.
First(q, n) == {q[i] : i \in 1..n}

\* None of them is in a set.
Outside(q, N, S) == \A i \in 1..N : q[i] \notin S

\* They grow one at a time.
LEMMA FirstGrows ==
    ASSUME NEW N \in Nat, NEW q, Distinct(q, N), NEW n \in 0..N, n < N
    PROVE  /\ First(q, 0) = {}
           /\ First(q, n + 1) = First(q, n) \cup {q[n + 1]}
           /\ q[n + 1] \notin First(q, n)
<1>1. 1..0 = {} /\ 1..(n + 1) = 1..n \cup {n + 1} /\ n + 1 \in 1..N /\ n + 1 \notin 1..n
  OBVIOUS
<1>2. \A i \in 1..n : i \in 1..N /\ q[i] # q[n + 1]
  BY <1>1 DEF Distinct
<1> QED
  BY <1>1, <1>2 DEF First

\* The entries of a sequence are those of a function on the same numbers.
LEMMA FirstIsRange ==
    ASSUME NEW N \in Nat, NEW q, DOMAIN q = 1..N
    PROVE  Range(q) = First(q, N)
BY DEF Range, First

\* The accounts A and their deposits D, once the deposits p are credited.
CreditBooks(A, p, M, D, a) ==
    /\ Credited(A, p) \in Accounting
    /\ Credited(A, p)[a].balance + Deposited(D, a)
         = A[a].balance + Deposited(D \cup First(p, M), a)
    /\ IsFiniteSet(D \cup First(p, M)) /\ D \cup First(p, M) \in SUBSET Deposits

\* New deposits credit what they add to the sum of all deposits.
LEMMA CreditSum ==
    ASSUME NEW M \in Nat, NEW p, DepositSeq(p, M), Distinct(p, M),
           NEW D \in SUBSET Deposits, IsFiniteSet(D), Outside(p, M, D),
           NEW A \in Accounting, NEW a \in Accounts
    PROVE  CreditBooks(A, p, M, D, a)
<1>1. \A n \in 1..M : p[n] \in Deposits
  BY DEF DepositSeq
<1>2. \A n \in 1..M : \A s \in Accounting : CreditDeposit(s, p[n]) \in Accounting
  <2> SUFFICES ASSUME NEW n \in 1..M, NEW s \in Accounting PROVE CreditDeposit(s, p[n]) \in Accounting
    OBVIOUS
  <2>1. DepositRecord[p[n]].acct \in Accounts /\ DepositRecord[p[n]].amount \in Nat
    BY <1>1, DepositRecordAssumption
  <2> QED
    BY <2>1 DEF CreditDeposit, Credit, Accounting, Account
<1>3. PICK c : CreditPath(c, Accounting, M, A, p) /\ Credited(A, p) = c[M]
  <2>1. DOMAIN p = 1..M
    BY DEF DepositSeq
  <2> QED
    BY <1>2, <2>1, CreditFold
<1> DEFINE E(n) == D \cup First(p, n)
           Good(n) == /\ IsFiniteSet(E(n)) /\ E(n) \in SUBSET Deposits
                      /\ c[n] \in Accounting
                      /\ c[n][a].balance + Deposited(D, a) = A[a].balance + Deposited(E(n), a)
           T == {n \in 0..M : Good(n)}
<1>4. 0 \in T
  <2>1. First(p, 0) = {}
    BY DEF First
  <2>2. E(0) = D
    BY <2>1
  <2>3. c[0] = A
    BY <1>3 DEF CreditPath
  <2>4. Deposited(D, a) \in Nat
    BY DepositedNat
  <2>5. A[a].balance + Deposited(D, a) = A[a].balance + Deposited(E(0), a)
    BY <2>2
  <2>6. IsFiniteSet(E(0)) /\ E(0) \in SUBSET Deposits
    BY <2>2
  <2> HIDE DEF E
  <2>7. Good(0)
    BY <2>3, <2>5, <2>6
  <2> HIDE DEF Good
  <2> QED
    BY <2>7
<1>5. ASSUME NEW n \in 0..M, n < M, n \in T PROVE n + 1 \in T
  <2> DEFINE d == p[n + 1]
             r == DepositRecord[d]
             X == E(n)
             Y == E(n + 1)
             more == IF a = r.acct THEN r.amount ELSE 0
  <2>1. n + 1 \in 1..M /\ (n + 1) - 1 = n /\ n + 1 \in 0..M
    BY <1>5
  <2>2. d \in Deposits /\ d \notin D /\ r.acct \in Accounts /\ r.amount \in Nat
    BY <1>1, <2>1, DepositRecordAssumption DEF Outside
  <2>3. Y = X \cup {d} /\ d \notin X
    BY <1>5, <2>2, FirstGrows
  <2>4. c[n + 1] = Credit(c[n], r.acct, r.amount)
    BY <1>3, <2>1 DEF CreditPath, CreditDeposit
  <2>5. Good(n)
    BY <1>5
  <2>6. IsFiniteSet(Y) /\ Y \in SUBSET Deposits
    BY <2>2, <2>3, <2>5, FS_AddElement
  <2>7. Deposited(X \cup {d}, a) = Deposited(X, a) + more
    <3> HIDE DEF d, X
    <3> QED
      BY <2>2, <2>3, <2>5, DepositedGrows DEF X
  <2>8. Deposited(X, a) \in Nat /\ Deposited(D, a) \in Nat
    BY <2>5, DepositedNat
  <2>9. c[n][a] \in Account /\ A[a] \in Account
    BY <2>5 DEF Accounting
  <2>10. c[n + 1] \in Accounting
    BY <2>2, <2>4, <2>5 DEF Credit, Accounting, Account
  <2>11. c[n + 1][a].balance = c[n][a].balance + more
    <3> HIDE DEF r
    <3> QED
      BY <2>2, <2>4, <2>5, <2>9 DEF Credit, Accounting, Account
  <2>12. c[n + 1][a].balance + Deposited(D, a) = A[a].balance + Deposited(Y, a)
    <3>1. more \in Nat /\ c[n][a].balance \in Nat /\ A[a].balance \in Nat
      BY <2>2, <2>9 DEF Account
    <3>2. c[n][a].balance + Deposited(D, a) = A[a].balance + Deposited(X, a)
      BY <2>5
    <3> HIDE DEF more, X, Y, E
    <3> QED
      BY <2>3, <2>7, <2>8, <2>11, <3>1, <3>2
  <2> QED
    BY <2>1, <2>5, <2>6, <2>10, <2>11, <2>12
<1> HIDE DEF T
<1>6. \A n \in 0..M : n \in T
  BY <1>4, <1>5, SetInduction
<1>7. Good(M)
  BY <1>6 DEF T
<1> QED
  BY <1>3, <1>7 DEF CreditBooks

\* The accounts A and the requests R they paid, once the requests q are debited.
DebitBooks(A, w, q, N, R, a) ==
    /\ Debited(A, w)[a].balance + Requested(R \cup First(q, N), a)
         = A[a].balance + Requested(R, a)
    /\ IsFiniteSet(R \cup First(q, N)) /\ R \cup First(q, N) \in SUBSET Request

\* New requests debit what they add to the sum of all requests.
LEMMA DebitSum ==
    ASSUME NEW N \in Nat, NEW q \in [1..N -> Request], Distinct(q, N),
           NEW w, SameEntries(w, q, N),
           NEW R \in SUBSET Request, IsFiniteSet(R), Outside(q, N, R),
           NEW A \in Accounting, NEW a \in Accounts
    PROVE  DebitBooks(A, w, q, N, R, a)
<1> DEFINE L == [Accounts -> [balance : Int, nonce : Nat]]
<1>1. \A n \in 1..N : /\ q[n].acct \in Accounts /\ q[n].amount \in Nat
                      /\ w[n].acct = q[n].acct /\ w[n].amount = q[n].amount
  BY DEF SameEntries, Request
<1>2. \A n \in 1..N : \A s \in L : DebitWithdrawal(s, w[n]) \in L
  <2> SUFFICES ASSUME NEW n \in 1..N, NEW s \in L PROVE DebitWithdrawal(s, w[n]) \in L
    OBVIOUS
  <2>1. w[n].acct \in Accounts /\ w[n].amount \in Nat
    BY <1>1
  <2> QED
    BY <2>1 DEF DebitWithdrawal, Debit
<1>3. A \in L
  BY DEF Accounting, Account
<1> HIDE DEF L
<1>4. PICK c : DebitPath(c, L, N, A, w) /\ Debited(A, w) = c[N]
  <2>1. DOMAIN w = 1..N
    BY DEF SameEntries
  <2> QED
    BY <1>2, <1>3, <2>1, DebitFold
<1> DEFINE E(n) == R \cup First(q, n)
           Good(n) == /\ IsFiniteSet(E(n)) /\ E(n) \in SUBSET Request
                      /\ c[n][a].balance + Requested(E(n), a) = A[a].balance + Requested(R, a)
           T == {n \in 0..N : Good(n)}
<1>5. 0 \in T
  <2>1. First(q, 0) = {}
    BY DEF First
  <2>2. E(0) = R
    BY <2>1
  <2>3. c[0] = A
    BY <1>4 DEF DebitPath
  <2>4. A[a].balance + Requested(E(0), a) = A[a].balance + Requested(R, a)
    BY <2>2
  <2>5. IsFiniteSet(E(0)) /\ E(0) \in SUBSET Request
    BY <2>2
  <2> HIDE DEF E
  <2>6. Good(0)
    BY <2>3, <2>4, <2>5
  <2> HIDE DEF Good
  <2> QED
    BY <2>6
<1>6. ASSUME NEW n \in 0..N, n < N, n \in T PROVE n + 1 \in T
  <2> DEFINE r == q[n + 1]
             X == E(n)
             Y == E(n + 1)
             more == IF a = r.acct THEN r.amount ELSE 0
  <2>1. n + 1 \in 1..N /\ (n + 1) - 1 = n /\ n + 1 \in 0..N
    BY <1>6
  <2>2. r \in Request /\ r \notin R /\ r.acct \in Accounts /\ r.amount \in Nat
    BY <1>1, <2>1 DEF Outside
  <2>3. Y = X \cup {r} /\ r \notin X
    BY <1>6, <2>2, FirstGrows
  <2>4. c[n + 1] = Debit(c[n], r.acct, r.amount) /\ c[n] \in L
    <3>1. c[n + 1] = DebitWithdrawal(c[n], w[n + 1]) /\ c[n] \in L
      BY <1>4, <2>1 DEF DebitPath
    <3> QED
      BY <1>1, <2>1, <3>1 DEF DebitWithdrawal
  <2>5. Good(n)
    BY <1>6
  <2>6. IsFiniteSet(Y) /\ Y \in SUBSET Request
    BY <2>2, <2>3, <2>5, FS_AddElement
  <2>7. Requested(Y, a) = Requested(X, a) + more
    <3>1. X \in SUBSET Request /\ IsFiniteSet(X)
      BY <2>5
    <3> HIDE DEF r, X, Y
    <3> QED
      BY <2>2, <2>3, <3>1, RequestedGrows
  <2>8. Requested(X, a) \in Nat /\ Requested(R, a) \in Nat
    BY <2>5, RequestedNat
  <2>9. c[n][a].balance \in Int /\ A[a].balance \in Int
    BY <1>3, <2>4 DEF L
  <2>10. c[n + 1][a].balance = c[n][a].balance - more
    <3> HIDE DEF r
    <3> QED
      BY <2>2, <2>4, <2>9 DEF Debit, L
  <2>11. c[n + 1][a].balance + Requested(Y, a) = A[a].balance + Requested(R, a)
    <3>1. more \in Nat
      BY <2>2
    <3>2. c[n][a].balance + Requested(X, a) = A[a].balance + Requested(R, a)
      BY <2>5
    <3> HIDE DEF more, X, Y, E
    <3> QED
      BY <2>7, <2>8, <2>9, <2>10, <3>1, <3>2
  <2> QED
    BY <2>1, <2>6, <2>11
<1> HIDE DEF T
<1>7. \A n \in 0..N : n \in T
  BY <1>5, <1>6, SetInduction
<1>8. Good(N)
  <2>1. N \in T
    BY <1>7
  <2> HIDE DEF Good
  <2> QED
    BY <2>1 DEF T
<1> QED
  BY <1>4, <1>8 DEF DebitBooks
-----------------------------------------------------------------------------
(* What a build refuses *)

\* A batch has no deposit twice and none its builder's state already has; its
\* deposits spend no nullifier and no nonce.
LEMMA DepositsDistinct ==
    ASSUME NEW base \in State, NEW M \in Nat, NEW p, DepositSeq(p, M),
           NEW f, DepositsPath(f, M, base, p)
    PROVE  /\ Distinct(p, M)
           /\ \A i \in 1..M : p[i] \notin base.appliedDeposits
           /\ f[M] \in State
           /\ f[M].appliedNullifiers = base.appliedNullifiers
           /\ \A a \in Accounts : f[M].accounts[a].nonce = base.accounts[a].nonce
<1> DEFINE Good(n) == /\ f[n].appliedDeposits = base.appliedDeposits \cup First(p, n)
                      /\ f[n].appliedNullifiers = base.appliedNullifiers
                      /\ \A a \in Accounts : f[n].accounts[a].nonce = base.accounts[a].nonce
           T == {n \in 0..M : Good(n)}
<1>1. 0 \in T
  <2>1. First(p, 0) = {} /\ f[0] = base
    BY DEF First, DepositsPath
  <2> QED
    BY <2>1
<1>2. ASSUME NEW n \in 0..M, n < M, n \in T PROVE n + 1 \in T
  <2> DEFINE d == p[n + 1]
  <2>1. n + 1 \in 1..M /\ (n + 1) - 1 = n /\ n + 1 \in 0..M
    BY <1>2
  <2>2. f[n + 1] = ApplyDeposit(f[n], d) /\ f[n] \in State /\ d \in Deposits
    BY <2>1 DEF DepositsPath, DepositSeq
  <2>3. Good(n)
    BY <1>2
  <2>4. First(p, n + 1) = First(p, n) \cup {d}
    <3>1. 1..(n + 1) = 1..n \cup {n + 1}
      OBVIOUS
    <3> QED
      BY <3>1 DEF First
  <2>5. f[n + 1].appliedDeposits = f[n].appliedDeposits \cup {d}
    BY <2>2 DEF ApplyDeposit
  <2>6. /\ f[n + 1].appliedNullifiers = f[n].appliedNullifiers
        /\ f[n + 1].accounts = CreditDeposit(f[n].accounts, d)
    BY <2>2, ApplyDepositState
  <2>7. f[n].accounts \in Accounting
    BY <2>2 DEF State
  <2>8. \A a \in Accounts : f[n + 1].accounts[a].nonce = f[n].accounts[a].nonce
    <3>1. DepositRecord[d].acct \in Accounts
      BY <2>2, DepositRecordAssumption
    <3> HIDE DEF d
    <3> QED
      BY <2>6, <2>7, <3>1 DEF CreditDeposit, Credit, Accounting, Account
  <2>9. Good(n + 1)
    BY <2>3, <2>4, <2>5, <2>6, <2>8
  <2> QED
    BY <2>1, <2>9
<1> HIDE DEF T
<1>3. \A n \in 0..M : n \in T
  BY <1>1, <1>2, SetInduction
<1>4. \A n \in 0..M : Good(n)
  BY <1>3 DEF T
<1>5. ASSUME NEW j \in 1..M PROVE p[j] \notin base.appliedDeposits \cup First(p, j - 1)
  <2>1. j - 1 \in 0..M
    OBVIOUS
  <2>2. CanApplyDeposit(f[j - 1], p[j])
    BY DEF DepositsPath
  <2> QED
    BY <1>4, <2>1, <2>2 DEF CanApplyDeposit
<1>6. ASSUME NEW i \in 1..M, NEW j \in 1..M, i < j PROVE p[i] # p[j]
  <2>1. i \in 1..(j - 1)
    BY <1>6
  <2>2. p[i] \in First(p, j - 1)
    BY <2>1 DEF First
  <2> QED
    BY <1>5, <2>2
<1>7. Distinct(p, M)
  <2> SUFFICES ASSUME NEW i \in 1..M, NEW j \in 1..M, p[i] = p[j] PROVE i = j
    BY DEF Distinct
  <2>1. ~(i < j) /\ ~(j < i)
    BY <1>6
  <2> QED
    BY <2>1
<1>8. M \in 0..M
  OBVIOUS
<1>9. Good(M)
  BY <1>4, <1>8
<1>10. f[M] \in State
  BY <1>8 DEF DepositsPath
<1> QED
  BY <1>5, <1>7, <1>9, <1>10

\* The nullifiers of the first n requests.
Spent(q, n) == {MockNullifier(q[i].nonce) : i \in 1..n}

\* A batch has no nullifier twice and none its builder's state has spent.
LEMMA RequestsDistinct ==
    ASSUME NEW base \in State, NEW N \in Nat, NEW q, RequestSeq(q, N),
           NEW f, RequestsPath(f, N, base, q)
    PROVE  \A i \in 1..N : /\ MockNullifier(q[i].nonce) \notin base.appliedNullifiers
                           /\ \A j \in 1..N : q[i].nonce = q[j].nonce => i = j
<1> DEFINE Good(n) == f[n].appliedNullifiers = base.appliedNullifiers \cup Spent(q, n)
           T == {n \in 0..N : Good(n)}
<1>1. 0 \in T
  <2>1. Spent(q, 0) = {} /\ f[0] = base
    BY DEF Spent, RequestsPath
  <2> QED
    BY <2>1
<1>2. ASSUME NEW n \in 0..N, n < N, n \in T PROVE n + 1 \in T
  <2> DEFINE null == MockNullifier(q[n + 1].nonce)
  <2>1. n + 1 \in 1..N /\ (n + 1) - 1 = n /\ n + 1 \in 0..N
    BY <1>2
  <2>2. f[n + 1] = ApplyWithdrawal(f[n], q[n + 1], null)
    BY <2>1 DEF RequestsPath
  <2>3. Spent(q, n + 1) = Spent(q, n) \cup {null}
    <3>1. 1..(n + 1) = 1..n \cup {n + 1}
      OBVIOUS
    <3> QED
      BY <3>1 DEF Spent
  <2>4. f[n + 1].appliedNullifiers = f[n].appliedNullifiers \cup {null}
    BY <2>2 DEF ApplyWithdrawal
  <2>5. Good(n + 1)
    BY <1>2, <2>3, <2>4
  <2> QED
    BY <2>1, <2>5
<1> HIDE DEF T
<1>3. \A n \in 0..N : n \in T
  BY <1>1, <1>2, SetInduction
<1>4. \A n \in 0..N : Good(n)
  BY <1>3 DEF T
<1>5. ASSUME NEW j \in 1..N
      PROVE  MockNullifier(q[j].nonce) \notin base.appliedNullifiers \cup Spent(q, j - 1)
  <2>1. j - 1 \in 0..N
    OBVIOUS
  <2>2. CanApplyWithdrawal(f[j - 1], q[j], MockNullifier(q[j].nonce))
    BY DEF RequestsPath
  <2> QED
    BY <1>4, <2>1, <2>2 DEF CanApplyWithdrawal
<1>6. ASSUME NEW i \in 1..N, NEW j \in 1..N, i < j PROVE q[i].nonce # q[j].nonce
  <2>1. i \in 1..(j - 1)
    BY <1>6
  <2>2. MockNullifier(q[i].nonce) \in Spent(q, j - 1)
    BY <2>1 DEF Spent
  <2> QED
    BY <1>5, <2>2
<1>7. ASSUME NEW i \in 1..N, NEW j \in 1..N, q[i].nonce = q[j].nonce PROVE i = j
  <2>1. ~(i < j) /\ ~(j < i)
    BY <1>6, <1>7
  <2> QED
    BY <2>1
<1> QED
  BY <1>5, <1>7

\* From a state without nonces a batch takes the nonces 1, 2, ... in order, all
\* of one account: the nullifier of a second account's first nonce is spent.
LEMMA NoncesFromZero ==
    ASSUME NEW base \in State, NEW N \in Nat, NEW q, RequestSeq(q, N),
           NEW f, RequestsPath(f, N, base, q),
           \A a \in Accounts : base.accounts[a].nonce = 0
    PROVE  \A i \in 1..N : q[i].nonce = i
<1> DEFINE Nonce(n, a) == f[n].accounts[a].nonce
           Good(n) == /\ \A i \in 1..n : q[i].nonce = i
                      /\ \A a \in Accounts : /\ a = q[1].acct => Nonce(n, a) = n
                                             /\ a # q[1].acct => Nonce(n, a) = 0
           T == {n \in 0..N : Good(n)}
<1>1. 0 \in T
  <2>1. f[0] = base
    BY DEF RequestsPath
  <2>2. 1..0 = {}
    OBVIOUS
  <2>3. \A a \in Accounts : Nonce(0, a) = 0
    BY <2>1
  <2> HIDE DEF Nonce
  <2> QED
    BY <2>2, <2>3
<1>2. ASSUME NEW n \in 0..N, n < N, n \in T PROVE n + 1 \in T
  <2> DEFINE r == q[n + 1]
  <2>1. n + 1 \in 1..N /\ (n + 1) - 1 = n /\ n + 1 \in 0..N
    BY <1>2
  <2>2. /\ f[n + 1] = ApplyWithdrawal(f[n], r, MockNullifier(r.nonce))
        /\ CanApplyWithdrawal(f[n], r, MockNullifier(r.nonce))
        /\ f[n] \in State
    BY <2>1 DEF RequestsPath
  <2>3. r.acct \in Accounts /\ r.nonce = Nonce(n, r.acct) + 1
    BY <2>1, <2>2 DEF CanApplyWithdrawal, RequestSeq
  <2>4. f[n + 1].accounts = Debit(f[n].accounts, r.acct, r.amount) /\ f[n].accounts \in Accounting
    BY <2>2 DEF ApplyWithdrawal, State
  <2>5. \A a \in Accounts : /\ Nonce(n, a) \in Nat
                            /\ a = r.acct => Nonce(n + 1, a) = Nonce(n, a) + 1
                            /\ a # r.acct => Nonce(n + 1, a) = Nonce(n, a)
    <3> HIDE DEF r
    <3> QED
      BY <2>3, <2>4 DEF Debit, Accounting, Account
  <2> HIDE DEF Nonce
  <2>6. Good(n)
    BY <1>2
  <2>7. r.acct = q[1].acct
    <3>1. CASE n = 0
      BY <3>1
    <3>2. CASE n > 0
      <4>1. 1 \in 1..N /\ n + 1 # 1 /\ 1 \in 1..n
        BY <2>1, <3>2
      <4>2. q[1].nonce = 1
        BY <2>6, <4>1
      <4>3. r.nonce # 1
        BY <2>1, <4>1, <4>2, RequestsDistinct
      <4> QED
        BY <2>3, <2>6, <4>3
    <3> QED
      BY <3>1, <3>2
  <2>8. r.nonce = n + 1
    BY <2>3, <2>6, <2>7
  <2>9. \A i \in 1..(n + 1) : q[i].nonce = i
    <3>1. 1..(n + 1) = 1..n \cup {n + 1}
      OBVIOUS
    <3> QED
      BY <2>6, <2>8, <3>1
  <2>10. \A a \in Accounts : /\ a = q[1].acct => Nonce(n + 1, a) = n + 1
                             /\ a # q[1].acct => Nonce(n + 1, a) = 0
    BY <2>5, <2>6, <2>7
  <2>11. Good(n + 1)
    BY <2>9, <2>10
  <2> QED
    BY <2>1, <2>11
<1> HIDE DEF T
<1>3. \A n \in 0..N : n \in T
  BY <1>1, <1>2, SetInduction
<1>4. N \in T
  BY <1>3
<1> QED
  BY <1>4 DEF T

\* What a batch that is built keeps apart.
LEMMA BuildDistinct ==
    ASSUME NEW base \in State, NEW M \in Nat, NEW p, DepositSeq(p, M),
           NEW N \in Nat, NEW q, RequestSeq(q, N),
           AfterRequests(AfterDeposits(base, p), q) # Refused
    PROVE  /\ Distinct(p, M)
           /\ \A i \in 1..M : p[i] \notin base.appliedDeposits
           /\ \A i \in 1..N : MockNullifier(q[i].nonce) \notin base.appliedNullifiers
           /\ \A i, j \in 1..N : q[i].nonce = q[j].nonce => i = j
           /\ base = NewLocalState => \A i \in 1..N : q[i].nonce = i
<1> DEFINE mid == AfterDeposits(base, p)
<1> HIDE DEF mid
<1>0. AfterRequests(mid, q) # Refused
  BY DEF mid
<1>1. mid \in State \cup {Refused}
  <2>1. CASE mid # Refused
    <3>1. PICK f : DepositsPath(f, M, base, p) /\ AfterDeposits(base, p) = f[M]
      BY <2>1, DepositsTaken DEF mid
    <3> QED
      BY <3>1 DEF mid, DepositsPath
  <2> QED
    BY <2>1
<1>2. mid # Refused /\ \E g : RequestsPath(g, N, mid, q) /\ AfterRequests(mid, q) = g[N]
  BY <1>0, <1>1, RequestsTaken
<1>3. PICK g : RequestsPath(g, N, mid, q)
  BY <1>2
<1>4. PICK f : DepositsPath(f, M, base, p) /\ mid = f[M]
  BY <1>2, DepositsTaken DEF mid
<1>5. /\ Distinct(p, M)
      /\ \A i \in 1..M : p[i] \notin base.appliedDeposits
      /\ mid \in State
      /\ mid.appliedNullifiers = base.appliedNullifiers
      /\ \A a \in Accounts : mid.accounts[a].nonce = base.accounts[a].nonce
  BY <1>4, DepositsDistinct
<1>6. \A i \in 1..N : /\ MockNullifier(q[i].nonce) \notin mid.appliedNullifiers
                      /\ \A j \in 1..N : q[i].nonce = q[j].nonce => i = j
  BY <1>3, <1>5, RequestsDistinct
<1>7. ASSUME base = NewLocalState PROVE \A i \in 1..N : q[i].nonce = i
  <2>1. \A a \in Accounts : mid.accounts[a].nonce = 0
    BY <1>5, <1>7 DEF NewLocalState, ZeroAccount
  <2> QED
    BY <1>3, <1>5, <2>1, NoncesFromZero
<1> QED
  BY <1>5, <1>6, <1>7

-----------------------------------------------------------------------------
(* What records are covered by *)

\* The requests some accepted batch pays.
Settled == {r \in requests : \E pair \in accepted :
                                \E w \in Range(pair[1].withdrawals) : w.id = r.id}

\* Requests are told apart by their nonces too, and without the off-chain state
\* the manager stays empty.
Numbered ==
    /\ IsFiniteSet(requests) /\ IsFiniteSet(chain.queued)
    /\ \A r \in requests : r.nonce <= withdrawSeq
    /\ \A r, s \in requests : r.nonce = s.nonce => r = s
    /\ ~wiring.offchain => manager = NewLocalState /\ baseline = NewLocalState

\* A batch has each of its operations once, and its deposits exist.
Apart ==
    \A u \in built :
        /\ Range(u.deposits) \subseteq chain.queued
        /\ \A i, j \in DOMAIN u.deposits : u.deposits[i] = u.deposits[j] => i = j
        /\ \A i, j \in DOMAIN u.withdrawals :
              u.withdrawals[i].nullifier = u.withdrawals[j].nullifier => i = j

\* With the local relayer: the builds start from the empty state ...
FromZero == ~wiring.chain /\ (wiring.builder = "local" \/ ~wiring.offchain)

\* ... so that every batch takes the same first nonces, and one batch has all
\* the records.
Nested ==
    FromZero =>
        /\ \A u \in built : /\ u.old = GenesisRoot
                            /\ \A i \in DOMAIN u.withdrawals :
                                  u.withdrawals[i].nullifier = MockNullifier(i)
        /\ records # {} => \E u \in built : records \subseteq {w.id : w \in Range(u.withdrawals)}

\* ... or from a manager that has every deposit and every request already, and
\* there are none.
FromManager == ~wiring.chain /\ wiring.builder = "snapshot" /\ wiring.offchain

Barren ==
    FromManager =>
        /\ built = {} /\ records = {}
        /\ indexed \subseteq manager.appliedDeposits
        /\ \A r \in requests : MockNullifier(r.nonce) \in manager.appliedNullifiers

\* On a chain: what an account has, and what it was paid, is what it deposited.
Balanced ==
    wiring.chain =>
        /\ chain.deposits \subseteq chain.queued
        /\ \A a \in Accounts :
              chain.ledger[a].balance + Requested(Settled, a) = Deposited(chain.deposits, a)

Backed == Numbered /\ Apart /\ Nested /\ Barren /\ Balanced

\* A nullifier of the mock secret tells its nonce.
LEMMA NonceOfNullifier ==
    ASSUME NEW x, NEW y, MockNullifier(x) = MockNullifier(y)
    PROVE  x = y
<1>1. MockNullifier(x).nonce = x /\ MockNullifier(y).nonce = y
  BY DEF MockNullifier, NullifierFor
<1> QED
  BY <1>1

\* The wiring is fixed at start-up.
LEMMA WiringFixed == [Next]_vars => UNCHANGED wiring
BY DEF Next, vars, DepositTx, IndexDeposit, RequestWithdrawLegacy, RequestWithdrawOffchain,
       BuildBatch, GenerateProof, RelayerAccepts, SubmitAnswered, SubmitUnconfirmed, SubmitRefused,
       RollbackToBaseline, ClaimWithdraw

\* Nonces stay apart: the legacy sequence is one for all accounts, and the
\* pending table refuses a nonce it has.
LEMMA NumberedStep == Inv /\ Numbered /\ [Next]_vars => Numbered'
<1> SUFFICES ASSUME Inv, Numbered, [Next]_vars PROVE Numbered'
  OBVIOUS
<1>0. Typed /\ UNCHANGED wiring
  BY WiringFixed DEF Inv
<1>1. ASSUME chain'.queued = chain.queued, UNCHANGED <<requests, withdrawSeq>>,
             manager' \in {manager, baseline}, baseline' \in {manager, baseline}
      PROVE  Numbered'
  BY <1>0, <1>1 DEF Numbered
<1>2. ASSUME NEW d \in Deposits, DepositTx(d) PROVE Numbered'
  <2>1. chain'.queued = chain.queued \cup {d} /\ UNCHANGED <<requests, withdrawSeq, manager, baseline>>
    BY <1>0, <1>2 DEF DepositTx, Typed, ChainRecord, processVars
  <2>2. IsFiniteSet(chain'.queued)
    BY <2>1, FS_AddElement DEF Numbered
  <2> QED
    BY <1>0, <2>1, <2>2 DEF Numbered
<1>3. ASSUME NEW d \in Deposits, IndexDeposit(d) PROVE Numbered'
  <2>1. UNCHANGED <<chain, requests, withdrawSeq, baseline>> /\ (~wiring.offchain => manager' = manager)
    BY <1>3 DEF IndexDeposit
  <2> QED
    BY <1>0, <2>1 DEF Numbered
<1>4. ASSUME NEW r, r.nonce \in Nat, r.nonce <= withdrawSeq + 1, withdrawSeq' = withdrawSeq + 1,
             requests' = requests \cup {r}, UNCHANGED <<chain, baseline>>,
             ~wiring.offchain => manager' = manager,
             \A s \in requests : s.nonce # r.nonce
      PROVE  Numbered'
  <2>1. IsFiniteSet(requests')
    BY <1>4, FS_AddElement DEF Numbered
  <2>2. \A s \in requests : s.nonce \in Nat /\ withdrawSeq \in Nat
    BY <1>0 DEF Typed, Request
  <2>3. \A s \in requests' : s.nonce <= withdrawSeq'
    BY <1>4, <2>2 DEF Numbered
  <2>4. \A s, t \in requests' : s.nonce = t.nonce => s = t
    BY <1>4 DEF Numbered
  <2> QED
    BY <1>0, <1>4, <2>1, <2>3, <2>4 DEF Numbered
<1>5. ASSUME NEW body \in WithdrawBodies, RequestWithdrawLegacy(body) PROVE Numbered'
  <2> DEFINE r == [id |-> withdrawSeq + 1, acct |-> body.acct, amount |-> body.amount,
                   dest |-> body.dest, nonce |-> withdrawSeq + 1]
  <2>1. /\ requests' = requests \cup {r} /\ withdrawSeq' = withdrawSeq + 1
        /\ UNCHANGED <<chain, baseline, manager>>
    BY <1>5 DEF RequestWithdrawLegacy
  <2>2. r.nonce = withdrawSeq + 1 /\ withdrawSeq \in Nat
    BY <1>0 DEF Typed
  <2>3. \A s \in requests : s.nonce \in Nat /\ s.nonce <= withdrawSeq
    BY <1>0 DEF Typed, Request, Numbered
  <2> HIDE DEF r
  <2> QED
    BY <1>4, <2>1, <2>2, <2>3
<1>6. ASSUME NEW body \in WithdrawBodies, RequestWithdrawOffchain(body) PROVE Numbered'
  <2> DEFINE nonce == manager.accounts[body.acct].nonce + 1
             r == [id |-> withdrawSeq + 1, acct |-> body.acct, amount |-> body.amount,
                   dest |-> body.dest, nonce |-> nonce]
  <2>1. /\ withdrawSeq' = withdrawSeq + 1 /\ wiring.offchain
        /\ UNCHANGED <<chain, baseline>>
        /\ \/ requests' = requests
           \/ requests' = requests \cup {r} /\ ~NullifierRecorded(nonce)
    BY <1>6 DEF RequestWithdrawOffchain
  <2>2. body.acct \in Accounts
    BY ManualModeAssumption
  <2>3. manager.accounts[body.acct].nonce \in Nat /\ withdrawSeq \in Nat
        /\ manager.accounts[body.acct].nonce <= withdrawSeq
    BY <1>0, <2>2 DEF Typed, Rooted, State, Accounting, Account
  <2>4. r.nonce = nonce /\ nonce \in Nat /\ nonce <= withdrawSeq + 1
    BY <2>3
  <2> HIDE DEF r, nonce
  <2>5. CASE requests' = requests
    <3>1. \A s \in requests : s.nonce \in Nat /\ s.nonce <= withdrawSeq
      BY <1>0 DEF Typed, Request, Numbered
    <3>2. \A s \in requests : s.nonce <= withdrawSeq'
      BY <2>1, <2>3, <3>1
    <3> QED
      BY <1>0, <2>1, <2>5, <3>2 DEF Numbered
  <2>6. CASE requests' = requests \cup {r} /\ ~NullifierRecorded(nonce)
    BY <1>4, <2>1, <2>4, <2>6 DEF NullifierRecorded
  <2> QED
    BY <2>1, <2>5, <2>6
<1>7. ASSUME NEW p, NEW q, BuildBatch(p, q) PROVE Numbered'
  BY <1>1, <1>7 DEF BuildBatch
<1>8. ASSUME NEW u \in built, GenerateProof(u) PROVE Numbered'
  BY <1>1, <1>8 DEF GenerateProof, processVars
<1>9. ASSUME NEW u \in built, NEW b \in bundles, RelayerAccepts(u, b) PROVE Numbered'
  <2>1. UNCHANGED <<requests, withdrawSeq, manager, baseline>>
    BY <1>9 DEF RelayerAccepts, processVars
  <2>2. chain' = chain \/ chain' = ChainAfter(u)
    BY <1>9 DEF RelayerAccepts
  <2>3. chain'.queued = chain.queued
    BY <1>0, <2>2 DEF ChainAfter, Typed, ChainRecord
  <2> QED
    BY <1>1, <2>1, <2>3
<1>10. ASSUME NEW u \in built, NEW b \in bundles,
              SubmitAnswered(u, b) \/ SubmitUnconfirmed(u, b) \/ SubmitRefused(u, b)
       PROVE  Numbered'
  BY <1>1, <1>10 DEF SubmitAnswered, SubmitUnconfirmed, SubmitRefused, RollbackToBaseline
<1>11. CASE (\E w \in records : ClaimWithdraw(w)) \/ UNCHANGED vars
  BY <1>1, <1>11 DEF ClaimWithdraw, vars, processVars
<1> QED
  BY <1>2, <1>3, <1>5, <1>6, <1>7, <1>8, <1>9, <1>10, <1>11 DEF Next

\* A build tells its operations apart, and takes deposits the chain has.
LEMMA ApartStep == Inv /\ Apart /\ [Next]_vars => Apart'
<1> SUFFICES ASSUME Inv, Apart, [Next]_vars PROVE Apart'
  OBVIOUS
<1>0. Typed
  BY DEF Inv
<1>1. ASSUME UNCHANGED built, chain.queued \subseteq chain'.queued PROVE Apart'
  BY <1>1 DEF Apart
<1>2. ASSUME NEW p \in SeqOf(Deposits, Cardinality(Deposits)), NEW q \in SeqOf(requests, MaxRequests),
             BuildBatch(p, q)
      PROVE  Apart'
  <2>1. PICK M \in Nat : p \in [1..M -> Deposits]
    BY SeqOfIs
  <2>2. PICK N \in Nat : q \in [1..N -> requests]
    BY SeqOfIs
  <2> DEFINE w == [i \in DOMAIN q |-> SettlementWithdrawal(q[i])]
             u == [batch |-> batchSeq + 1, old |-> OldStateRoot, new |-> WorkingState(p, q).root,
                   deposits |-> p, withdrawals |-> w]
  <2>3. /\ WorkingState(p, q) # Refused
        /\ \A d \in Range(p) : DepositFound(d)
        /\ built' \subseteq built \cup {u}
        /\ UNCHANGED chain
    BY <1>2 DEF BuildBatch
  <2>4. u.deposits = p /\ u.withdrawals = w
    OBVIOUS
  <2>5. DOMAIN w = 1..N /\ \A i \in 1..N : w[i].nullifier = MockNullifier(q[i].nonce)
    BY <2>2 DEF SettlementWithdrawal
  <2>6. DepositSeq(p, M) /\ RequestSeq(q, N)
    BY <1>0, <2>1, <2>2 DEF DepositSeq, RequestSeq, Typed, Request
  <2>7. BuilderState \in State
    BY <1>0, NewLocalStateRooted DEF BuilderState, Typed, Rooted
  <2>8. AfterRequests(AfterDeposits(BuilderState, p), q) # Refused
    BY <2>3 DEF WorkingState, AfterRequests, AfterDeposits
  <2> HIDE DEF u, w
  <2>9. Distinct(p, M) /\ \A i, j \in 1..N : q[i].nonce = q[j].nonce => i = j
    BY <2>6, <2>7, <2>8, BuildDistinct
  <2>10. \A i, j \in DOMAIN u.deposits : u.deposits[i] = u.deposits[j] => i = j
    BY <2>1, <2>4, <2>9 DEF Distinct
  <2>11. \A i, j \in DOMAIN u.withdrawals :
            u.withdrawals[i].nullifier = u.withdrawals[j].nullifier => i = j
    <3>1. \A x, y : MockNullifier(x) = MockNullifier(y) => x = y
      BY NonceOfNullifier
    <3> QED
      BY <2>4, <2>5, <2>9, <3>1
  <2>12. Range(u.deposits) \subseteq chain.queued
    BY <1>0, <2>3, <2>4 DEF DepositFound, ChainDepositFound, Typed
  <2> QED
    BY <2>3, <2>10, <2>11, <2>12 DEF Apart
<1>3. ASSUME NEW d \in Deposits, DepositTx(d) PROVE Apart'
  <2>1. chain'.queued = chain.queued \cup {d} /\ UNCHANGED built
    BY <1>0, <1>3 DEF DepositTx, Typed, ChainRecord, clientVars
  <2> QED
    BY <1>1, <2>1
<1>4. ASSUME NEW d, IndexDeposit(d) PROVE Apart'
  BY <1>1, <1>4 DEF IndexDeposit, clientVars
<1>5. ASSUME NEW body \in WithdrawBodies, RequestWithdrawLegacy(body) \/ RequestWithdrawOffchain(body)
      PROVE  Apart'
  <2>1. UNCHANGED <<chain, built>>
    BY <1>5 DEF RequestWithdrawLegacy, RequestWithdrawOffchain, clientVars
  <2> QED
    BY <1>1, <2>1
<1>6. ASSUME NEW u \in built, GenerateProof(u) PROVE Apart'
  BY <1>1, <1>6 DEF GenerateProof
<1>7. ASSUME NEW u \in built, NEW b \in bundles, RelayerAccepts(u, b) PROVE Apart'
  <2>1. UNCHANGED built /\ (chain' = chain \/ chain' = ChainAfter(u))
    BY <1>7 DEF RelayerAccepts
  <2>2. chain'.queued = chain.queued
    BY <1>0, <2>1 DEF ChainAfter, Typed, ChainRecord
  <2> QED
    BY <1>1, <2>1, <2>2
<1>8. ASSUME NEW u \in built, NEW b \in bundles,
             SubmitAnswered(u, b) \/ SubmitUnconfirmed(u, b) \/ SubmitRefused(u, b)
      PROVE  Apart'
  BY <1>1, <1>8 DEF SubmitAnswered, SubmitUnconfirmed, SubmitRefused, RollbackToBaseline
<1>9. CASE (\E w \in records : ClaimWithdraw(w)) \/ UNCHANGED vars
  BY <1>1, <1>9 DEF ClaimWithdraw, clientVars, vars
<1> QED
  BY <1>2, <1>3, <1>4, <1>5, <1>6, <1>7, <1>8, <1>9 DEF Next

\* The withdrawals of a batch are requests the backend knows.
LEMMA WithdrawalsAre ==
    ASSUME Held, NEW u \in built
    PROVE  \E N \in Nat : \E q \in [1..N -> requests] :
              /\ DOMAIN u.withdrawals = 1..N
              /\ \A i \in 1..N : u.withdrawals[i] = SettlementWithdrawal(q[i])
<1>1. Operations(u)
  BY DEF Held
<1>2. PICK N \in Nat : \E q \in [1..N -> requests] :
                          u.withdrawals = [i \in 1..N |-> SettlementWithdrawal(q[i])]
  BY <1>1 DEF Operations
<1>3. PICK q \in [1..N -> requests] : u.withdrawals = [i \in 1..N |-> SettlementWithdrawal(q[i])]
  BY <1>2
<1>4. DOMAIN u.withdrawals = 1..N /\ \A i \in 1..N : u.withdrawals[i] = SettlementWithdrawal(q[i])
  BY <1>3
<1> QED
  BY <1>4

\* Of two batches that take the same first nonces one contains the other.
LEMMA BatchesNest ==
    ASSUME Held, Numbered, NEW u \in built, NEW v \in built,
           \A i \in DOMAIN u.withdrawals : u.withdrawals[i].nullifier = MockNullifier(i),
           \A i \in DOMAIN v.withdrawals : v.withdrawals[i].nullifier = MockNullifier(i)
    PROVE  \/ Range(u.withdrawals) \subseteq Range(v.withdrawals)
           \/ Range(v.withdrawals) \subseteq Range(u.withdrawals)
<1>1. PICK N \in Nat : \E q \in [1..N -> requests] :
              /\ DOMAIN u.withdrawals = 1..N
              /\ \A i \in 1..N : u.withdrawals[i] = SettlementWithdrawal(q[i])
  BY WithdrawalsAre
<1>2. PICK q \in [1..N -> requests] :
              /\ DOMAIN u.withdrawals = 1..N
              /\ \A i \in 1..N : u.withdrawals[i] = SettlementWithdrawal(q[i])
  BY <1>1
<1>3. PICK K \in Nat : \E s \in [1..K -> requests] :
              /\ DOMAIN v.withdrawals = 1..K
              /\ \A i \in 1..K : v.withdrawals[i] = SettlementWithdrawal(s[i])
  BY WithdrawalsAre
<1>4. PICK s \in [1..K -> requests] :
              /\ DOMAIN v.withdrawals = 1..K
              /\ \A i \in 1..K : v.withdrawals[i] = SettlementWithdrawal(s[i])
  BY <1>3
<1>5. \A r : SettlementWithdrawal(r).nullifier = MockNullifier(r.nonce)
  BY DEF SettlementWithdrawal
<1>6. ASSUME NEW i \in 1..N PROVE q[i].nonce = i
  <2>1. MockNullifier(q[i].nonce) = MockNullifier(i)
    BY <1>2, <1>5
  <2> QED
    BY <2>1, NonceOfNullifier
<1>7. ASSUME NEW i \in 1..K PROVE s[i].nonce = i
  <2>1. MockNullifier(s[i].nonce) = MockNullifier(i)
    BY <1>4, <1>5
  <2> QED
    BY <2>1, NonceOfNullifier
<1>8. ASSUME NEW i \in 1..N, i \in 1..K PROVE u.withdrawals[i] = v.withdrawals[i]
  <2>1. q[i] \in requests /\ s[i] \in requests /\ q[i].nonce = s[i].nonce
    BY <1>6, <1>7, <1>8
  <2>2. q[i] = s[i]
    BY <2>1 DEF Numbered
  <2> QED
    BY <1>2, <1>4, <1>8, <2>2
<1>9. CASE N <= K
  <2>1. 1..N \subseteq 1..K
    BY <1>9
  <2> QED
    BY <1>2, <1>4, <1>8, <2>1 DEF Range
<1>10. CASE K <= N
  <2>1. 1..K \subseteq 1..N
    BY <1>10
  <2> QED
    BY <1>2, <1>4, <1>8, <2>1 DEF Range
<1> QED
  BY <1>9, <1>10

\* With the local relayer and builds from the empty state, the largest answered
\* batch has all the records.
LEMMA NestedStep == Inv /\ Numbered /\ Nested /\ [Next]_vars => Nested'
<1> SUFFICES ASSUME Inv, Numbered, Nested, [Next]_vars PROVE Nested'
  OBVIOUS
<1> SUFFICES ASSUME FromZero PROVE Nested'
  <2>1. FromZero' => FromZero
    BY WiringFixed DEF FromZero
  <2> QED
    BY <2>1 DEF Nested
<1>0. Typed /\ Held
  BY DEF Inv
<1>1. ASSUME UNCHANGED <<built, records>> PROVE Nested'
  BY <1>1 DEF Nested, MockNullifier
<1>2. ASSUME NEW p \in SeqOf(Deposits, Cardinality(Deposits)), NEW q \in SeqOf(requests, MaxRequests),
             BuildBatch(p, q)
      PROVE  Nested'
  <2>1. PICK M \in Nat : p \in [1..M -> Deposits]
    BY SeqOfIs
  <2>2. PICK N \in Nat : q \in [1..N -> requests]
    BY SeqOfIs
  <2> DEFINE w == [i \in DOMAIN q |-> SettlementWithdrawal(q[i])]
             u == [batch |-> batchSeq + 1, old |-> OldStateRoot, new |-> WorkingState(p, q).root,
                   deposits |-> p, withdrawals |-> w]
  <2>3. /\ WorkingState(p, q) # Refused
        /\ built' = built \/ built' = built \cup {u}
        /\ UNCHANGED records
    BY <1>2 DEF BuildBatch
  <2>4. u.old = OldStateRoot /\ u.withdrawals = w
    OBVIOUS
  <2>5. DOMAIN w = 1..N /\ \A i \in 1..N : w[i].nullifier = MockNullifier(q[i].nonce)
    BY <2>2 DEF SettlementWithdrawal
  <2>6. DepositSeq(p, M) /\ RequestSeq(q, N)
    BY <1>0, <2>1, <2>2 DEF DepositSeq, RequestSeq, Typed, Request
  <2>7. BuilderState = NewLocalState /\ OldStateRoot = GenesisRoot
    BY DEF FromZero, Numbered, BuilderState, OldStateRoot, NewLocalState
  <2>8. AfterRequests(AfterDeposits(BuilderState, p), q) # Refused
    BY <2>3 DEF WorkingState, AfterRequests, AfterDeposits
  <2> HIDE DEF u, w
  <2>9. BuilderState \in State
    BY <2>7, NewLocalStateRooted DEF Rooted
  <2>10. \A i \in 1..N : q[i].nonce = i
    <3>1. BuilderState = NewLocalState => \A i \in 1..N : q[i].nonce = i
      BY <2>6, <2>8, <2>9, BuildDistinct
    <3> QED
      BY <2>7, <3>1
  <2>11. u.old = GenesisRoot /\ \A i \in DOMAIN u.withdrawals :
                                   u.withdrawals[i].nullifier = MockNullifier(i)
    BY <2>4, <2>5, <2>7, <2>10
  <2> QED
    BY <2>3, <2>11 DEF Nested, MockNullifier
<1>3. ASSUME NEW u \in built, NEW b \in bundles, SubmitAnswered(u, b) PROVE Nested'
  <2> DEFINE Ids(v) == {w.id : w \in Range(v.withdrawals)}
  <2>1. records' = records \cup Ids(u) /\ UNCHANGED built
    BY <1>3 DEF SubmitAnswered
  <2>2. \E v \in built : records \cup Ids(u) \subseteq Ids(v)
    <3>1. CASE records = {}
      BY <3>1
    <3>2. CASE records # {}
      <4>1. PICK v \in built : records \subseteq Ids(v)
        BY <3>2 DEF Nested
      <4>2. \/ Range(u.withdrawals) \subseteq Range(v.withdrawals)
            \/ Range(v.withdrawals) \subseteq Range(u.withdrawals)
        BY <1>0, BatchesNest DEF Nested
      <4> QED
        BY <4>1, <4>2
    <3> QED
      BY <3>1, <3>2
  <2> QED
    BY <2>1, <2>2 DEF Nested, MockNullifier
<1>4. CASE \E d \in Deposits : DepositTx(d) \/ IndexDeposit(d)
  BY <1>1, <1>4 DEF DepositTx, IndexDeposit, processVars, clientVars
<1>5. ASSUME NEW body \in WithdrawBodies, RequestWithdrawLegacy(body) \/ RequestWithdrawOffchain(body)
      PROVE  Nested'
  <2>1. UNCHANGED <<built, records>>
    BY <1>5 DEF RequestWithdrawLegacy, RequestWithdrawOffchain, clientVars
  <2> QED
    BY <1>1, <2>1
<1>6. ASSUME NEW u \in built, GenerateProof(u) PROVE Nested'
  BY <1>1, <1>6 DEF GenerateProof, processVars
<1>7. ASSUME NEW u \in built, NEW b \in bundles,
             RelayerAccepts(u, b) \/ SubmitUnconfirmed(u, b) \/ SubmitRefused(u, b)
      PROVE  Nested'
  BY <1>1, <1>7 DEF RelayerAccepts, SubmitUnconfirmed, SubmitRefused, RollbackToBaseline, processVars
<1>8. CASE (\E w \in records : ClaimWithdraw(w)) \/ UNCHANGED vars
  BY <1>1, <1>8 DEF ClaimWithdraw, clientVars, vars, processVars
<1> QED
  BY <1>2, <1>3, <1>4, <1>5, <1>6, <1>7, <1>8 DEF Next

\* With the local relayer the snapshot builder refuses every batch: what a client
\* can name is in the manager it starts from.
LEMMA BarrenStep == Inv /\ Barren /\ [Next]_vars => Barren'
<1> SUFFICES ASSUME Inv, Barren, [Next]_vars PROVE Barren'
  OBVIOUS
<1> SUFFICES ASSUME FromManager PROVE Barren'
  <2>1. FromManager' => FromManager
    BY WiringFixed DEF FromManager
  <2> QED
    BY <2>1 DEF Barren
<1> DEFINE Has(s, deposits, reqs) ==
             /\ deposits \subseteq s.appliedDeposits
             /\ \A r \in reqs : MockNullifier(r.nonce) \in s.appliedNullifiers
<1>0. /\ Typed /\ ~wiring.chain /\ wiring.builder = "snapshot" /\ wiring.offchain
      /\ built = {} /\ records = {} /\ Has(manager, indexed, requests)
  BY DEF Inv, Barren, FromManager
<1>1. ASSUME UNCHANGED <<built, records>>, Has(manager', indexed', requests') PROVE Barren'
  BY <1>0, <1>1 DEF Barren, MockNullifier
<1>2. CASE UNCHANGED <<built, records, manager, indexed, requests>>
  BY <1>0, <1>1, <1>2
<1>3. ASSUME NEW d \in Deposits, IndexDeposit(d) PROVE Barren'
  <2>1. /\ indexed' = indexed \cup {d} /\ UNCHANGED <<built, records, requests>>
        /\ CanApplyDeposit(manager, d) => manager' = ApplyDeposit(manager, d)
        /\ ~CanApplyDeposit(manager, d) => manager' = manager
    BY <1>0, <1>3 DEF IndexDeposit, clientVars
  <2>2. /\ ApplyDeposit(manager, d).appliedDeposits = manager.appliedDeposits \cup {d}
        /\ ApplyDeposit(manager, d).appliedNullifiers = manager.appliedNullifiers
    BY DEF ApplyDeposit
  <2>3. Has(manager', indexed', requests')
    BY <1>0, <2>1, <2>2 DEF CanApplyDeposit
  <2> QED
    BY <1>1, <2>1, <2>3
<1>4. ASSUME NEW body \in WithdrawBodies, RequestWithdrawOffchain(body) PROVE Barren'
  <2> DEFINE nonce == manager.accounts[body.acct].nonce + 1
             req == [id |-> withdrawSeq + 1, acct |-> body.acct, amount |-> body.amount,
                     dest |-> body.dest, nonce |-> nonce]
             null == MockNullifier(nonce)
             s == ApplyWithdrawal(manager, req, null)
  <2>1. /\ UNCHANGED <<built, records, indexed>>
        /\ \/ UNCHANGED <<requests, manager>>
           \/ manager' = s /\ requests' \subseteq requests \cup {req}
    BY <1>4 DEF RequestWithdrawOffchain, clientVars
  <2>2. /\ s.appliedNullifiers = manager.appliedNullifiers \cup {null}
        /\ s.appliedDeposits = manager.appliedDeposits
    BY DEF ApplyWithdrawal
  <2>3. MockNullifier(req.nonce) = null
    OBVIOUS
  <2> HIDE DEF nonce, req, null, s
  <2>4. Has(manager', indexed', requests')
    BY <1>0, <2>1, <2>2, <2>3
  <2> QED
    BY <1>1, <2>1, <2>4
<1>5. ASSUME NEW p \in SeqOf(Deposits, Cardinality(Deposits)), NEW q \in SeqOf(requests, MaxRequests),
             BuildBatch(p, q)
      PROVE  FALSE
  <2>1. PICK M \in Nat : p \in [1..M -> Deposits]
    BY SeqOfIs
  <2>2. PICK N \in Nat : q \in [1..N -> requests]
    BY SeqOfIs
  <2>3. /\ WorkingState(p, q) # Refused
        /\ \A d \in Range(p) : DepositFound(d)
        /\ p # <<>> \/ q # <<>>
    BY <1>5 DEF BuildBatch, CanSettle
  <2>4. DepositSeq(p, M) /\ RequestSeq(q, N)
    BY <1>0, <2>1, <2>2 DEF DepositSeq, RequestSeq, Typed, Request
  <2>5. manager \in State /\ BuilderState = manager
    BY <1>0 DEF Typed, Rooted, BuilderState
  <2>6. AfterRequests(AfterDeposits(manager, p), q) # Refused
    BY <2>3, <2>5 DEF WorkingState, AfterRequests, AfterDeposits
  <2>7. /\ \A i \in 1..M : p[i] \notin manager.appliedDeposits
        /\ \A i \in 1..N : MockNullifier(q[i].nonce) \notin manager.appliedNullifiers
    BY <2>4, <2>5, <2>6, BuildDistinct
  <2>8. \A i \in 1..M : p[i] \in manager.appliedDeposits
    BY <1>0, <2>1, <2>3 DEF Range, DepositFound, ChainDepositFound
  <2>9. \A i \in 1..N : MockNullifier(q[i].nonce) \in manager.appliedNullifiers
    BY <1>0, <2>2
  <2>10. M > 0 \/ N > 0
    BY <2>1, <2>2, <2>3
  <2>11. 1 \in 1..M \/ 1 \in 1..N
    BY <2>10
  <2> QED
    BY <2>7, <2>8, <2>9, <2>11
<1>6. CASE \E d \in Deposits : DepositTx(d)
  BY <1>2, <1>6 DEF DepositTx, processVars, clientVars
<1>7. ~(\E body \in WithdrawBodies : RequestWithdrawLegacy(body))
  BY <1>0 DEF RequestWithdrawLegacy
<1>8. CASE UNCHANGED vars
  BY <1>2, <1>8 DEF vars, processVars, clientVars
<1> QED
  BY <1>0, <1>3, <1>4, <1>5, <1>6, <1>7, <1>8 DEF Next

\* One withdrawal at a time.
LEMMA WithdrawalIs ==
    ASSUME Held, NEW u \in built, NEW w \in Range(u.withdrawals)
    PROVE  \E r \in requests : w = SettlementWithdrawal(r)
<1>1. PICK N \in Nat : \E q \in [1..N -> requests] :
              /\ DOMAIN u.withdrawals = 1..N
              /\ \A i \in 1..N : u.withdrawals[i] = SettlementWithdrawal(q[i])
  BY WithdrawalsAre
<1>2. PICK q \in [1..N -> requests] :
              /\ DOMAIN u.withdrawals = 1..N
              /\ \A i \in 1..N : u.withdrawals[i] = SettlementWithdrawal(q[i])
  BY <1>1
<1>3. PICK i \in 1..N : w = u.withdrawals[i]
  BY <1>2 DEF Range
<1> QED
  BY <1>2, <1>3

\* A batch that the chain takes pays requests that were not paid before.
LEMMA NotSettled ==
    ASSUME Inv, wiring.chain, NEW r \in requests, MockNullifier(r.nonce) \notin chain.nullifiers
    PROVE  r \notin Settled
<1> SUFFICES ASSUME r \in Settled PROVE FALSE
  OBVIOUS
<1>1. PICK pair \in accepted : \E w \in Range(pair[1].withdrawals) : w.id = r.id
  BY DEF Settled
<1>2. PICK w \in Range(pair[1].withdrawals) : w.id = r.id
  BY <1>1
<1>3. pair[1] \in built
  BY DEF Inv, Checked
<1>4. PICK s \in requests : w = SettlementWithdrawal(s)
  BY <1>3, WithdrawalIs DEF Inv
<1>5. w.id = s.id /\ w.nullifier = MockNullifier(s.nonce)
  BY <1>4 DEF SettlementWithdrawal
<1>6. s = r
  BY <1>2, <1>5 DEF Inv, Typed
<1>7. w.nullifier \in chain.nullifiers
  BY DEF Inv, Paid
<1> QED
  BY <1>5, <1>6, <1>7

\* A chain pays what was deposited and not paid yet.
LEMMA BalancedStep == Inv /\ Numbered /\ Apart /\ Balanced /\ [Next]_vars => Balanced'
<1> SUFFICES ASSUME Inv, Numbered, Apart, Balanced, [Next]_vars PROVE Balanced'
  OBVIOUS
<1> SUFFICES ASSUME wiring.chain PROVE Balanced'
  BY WiringFixed DEF Balanced
<1>0. Typed /\ Held /\ chain.deposits \subseteq chain.queued
      /\ \A a \in Accounts :
            chain.ledger[a].balance + Requested(Settled, a) = Deposited(chain.deposits, a)
  BY DEF Inv, Balanced
<1>1. ASSUME Settled' = Settled, chain'.deposits = chain.deposits, chain'.ledger = chain.ledger,
             chain.queued \subseteq chain'.queued
      PROVE  Balanced'
  BY <1>0, <1>1 DEF Balanced
<1>2. ASSUME UNCHANGED <<requests, accepted, chain>> PROVE Balanced'
  <2>1. Settled' = Settled
    BY <1>2 DEF Settled
  <2> QED
    BY <1>1, <1>2, <2>1
<1>3. ASSUME NEW d \in Deposits, DepositTx(d) PROVE Balanced'
  <2>1. chain'.queued = chain.queued \cup {d} /\ chain'.deposits = chain.deposits
        /\ chain'.ledger = chain.ledger /\ UNCHANGED <<requests, accepted>>
    BY <1>0, <1>3 DEF DepositTx, Typed, ChainRecord, processVars
  <2>2. Settled' = Settled
    BY <2>1 DEF Settled
  <2> QED
    BY <1>1, <2>1, <2>2
<1>4. ASSUME NEW r, r.id = withdrawSeq + 1, requests' \subseteq requests \cup {r},
             requests \subseteq requests', UNCHANGED <<accepted, chain>>
      PROVE  Balanced'
  <2>1. ASSUME NEW pair \in accepted, NEW w \in Range(pair[1].withdrawals) PROVE w.id # r.id
    <3>1. pair[1] \in built
      BY DEF Inv, Checked
    <3>2. PICK s \in requests : w = SettlementWithdrawal(s)
      BY <1>0, <3>1, WithdrawalIs
    <3>3. w.id = s.id
      BY <3>2 DEF SettlementWithdrawal
    <3>4. s.id \in Nat /\ s.id <= withdrawSeq /\ withdrawSeq \in Nat
      BY <1>0 DEF Typed, Request
    <3> QED
      BY <1>4, <3>3, <3>4
  <2>2. Settled' = Settled
    BY <1>4, <2>1 DEF Settled
  <2> QED
    BY <1>1, <1>4, <2>2
<1>5. ASSUME NEW body \in WithdrawBodies, RequestWithdrawLegacy(body) PROVE Balanced'
  <2> DEFINE r == [id |-> withdrawSeq + 1, acct |-> body.acct, amount |-> body.amount,
                   dest |-> body.dest, nonce |-> withdrawSeq + 1]
  <2>1. requests' = requests \cup {r} /\ UNCHANGED <<accepted, chain>>
    BY <1>5 DEF RequestWithdrawLegacy
  <2>2. r.id = withdrawSeq + 1
    OBVIOUS
  <2> HIDE DEF r
  <2> QED
    BY <1>4, <2>1, <2>2
<1>6. ASSUME NEW body \in WithdrawBodies, RequestWithdrawOffchain(body) PROVE Balanced'
  <2> DEFINE r == [id |-> withdrawSeq + 1, acct |-> body.acct, amount |-> body.amount,
                   dest |-> body.dest, nonce |-> manager.accounts[body.acct].nonce + 1]
  <2>1. /\ requests' \subseteq requests \cup {r} /\ requests \subseteq requests'
        /\ UNCHANGED <<accepted, chain>>
    BY <1>6 DEF RequestWithdrawOffchain
  <2>2. r.id = withdrawSeq + 1
    OBVIOUS
  <2> HIDE DEF r
  <2> QED
    BY <1>4, <2>1, <2>2
<1>7. ASSUME NEW u \in built, NEW b \in bundles, RelayerAccepts(u, b) PROVE Balanced'
  <2>1. /\ ChainAccepts(u, b) /\ chain' = ChainAfter(u)
        /\ accepted' = accepted \cup {<<u, b>>} /\ UNCHANGED requests
    BY <1>7 DEF RelayerAccepts, processVars
  <2> DEFINE p == u.deposits
             w == u.withdrawals
             A == chain.ledger
             D == chain.deposits
  <2>2. PICK M \in Nat : p \in [1..M -> Deposits]
    BY <1>0 DEF Held, Operations
  <2>3. PICK N \in Nat : \E q \in [1..N -> requests] :
              /\ DOMAIN w = 1..N
              /\ \A i \in 1..N : w[i] = SettlementWithdrawal(q[i])
    BY <1>0, WithdrawalsAre
  <2>4. PICK q \in [1..N -> requests] :
              /\ DOMAIN w = 1..N
              /\ \A i \in 1..N : w[i] = SettlementWithdrawal(q[i])
    BY <2>3
  <2>5. \A i \in 1..N : /\ w[i].id = q[i].id /\ w[i].nullifier = MockNullifier(q[i].nonce)
                        /\ w[i].acct = q[i].acct /\ w[i].amount = q[i].amount
    <3>1. \A r : /\ SettlementWithdrawal(r).id = r.id
                 /\ SettlementWithdrawal(r).nullifier = MockNullifier(r.nonce)
                 /\ SettlementWithdrawal(r).acct = r.acct
                 /\ SettlementWithdrawal(r).amount = r.amount
      BY DEF SettlementWithdrawal
    <3> QED
      BY <2>4, <3>1
  <2>6. /\ chain'.queued = chain.queued /\ chain'.deposits = D \cup Range(p)
        /\ chain'.ledger = Settle(A, u)
    BY <1>0, <2>1 DEF ChainAfter, Typed, ChainRecord
  <2>7. /\ DepositSeq(p, M) /\ Distinct(p, M)
        /\ Range(p) = First(p, M) /\ Range(p) \subseteq chain.queued
        /\ \A i \in 1..M : p[i] \notin D
    <3>1. \A i \in 1..M : p[i] \in Range(p)
      BY <2>2 DEF Range
    <3> QED
      BY <2>1, <2>2, <3>1, FirstIsRange DEF DepositSeq, Distinct, Apart, ChainAccepts
  <2>8. /\ q \in [1..N -> Request] /\ Distinct(q, N) /\ SameEntries(w, q, N)
    BY <1>0, <2>4, <2>5 DEF Typed, Distinct, Apart, SameEntries
  <2>9. Outside(q, N, Settled)
    <3> SUFFICES ASSUME NEW i \in 1..N PROVE q[i] \notin Settled
      BY DEF Outside
    <3>1. w[i] \in Range(w) /\ q[i] \in requests
      BY <2>4 DEF Range
    <3>2. MockNullifier(q[i].nonce) \notin chain.nullifiers
      BY <2>1, <2>5, <3>1 DEF ChainAccepts
    <3> QED
      BY <3>1, <3>2, NotSettled
  <2>10. A \in Accounting /\ D \in SUBSET Deposits
    BY <1>0 DEF Typed, ChainRecord
  <2>11. IsFiniteSet(D)
    BY <1>0, FS_Subset DEF Numbered
  <2>12. Settled \subseteq requests /\ Settled \in SUBSET Request
    BY <1>0 DEF Settled, Typed
  <2>13. IsFiniteSet(Settled)
    BY <2>12, FS_Subset DEF Numbered
  <2>14. Settled' = Settled \cup First(q, N)
    <3>1. ASSUME NEW r \in requests
          PROVE  (\E x \in Range(w) : x.id = r.id) <=> r \in First(q, N)
      <4>1. ASSUME NEW i \in 1..N PROVE w[i].id = r.id <=> r = q[i]
        BY <1>0, <2>4, <2>5 DEF Typed
      <4> QED
        BY <2>4, <4>1 DEF Range, First
    <3>2. First(q, N) \subseteq requests
      BY <2>4 DEF First
    <3>3. \A r : r \in Settled' <=> r \in requests /\ (\/ r \in Settled
                                                     \/ \E x \in Range(w) : x.id = r.id)
      <4>1. \A pair \in accepted' : pair \in accepted \/ pair[1] = u
        BY <2>1
      <4>2. <<u, b>> \in accepted' /\ <<u, b>>[1] = u
        BY <2>1
      <4>3. \A r : r \in Settled' <=> r \in requests /\ \E pair \in accepted' :
                                         \E x \in Range(pair[1].withdrawals) : x.id = r.id
        BY <2>1 DEF Settled
      <4> QED
        BY <2>1, <4>1, <4>2, <4>3 DEF Settled
    <3> QED
      BY <2>12, <3>1, <3>2, <3>3
  <2>15. chain'.ledger = Debited(Credited(A, p), w)
    BY <2>6 DEF Settle, Debited, Credited
  <2> HIDE DEF p, w, A, D
  <2>16. ASSUME NEW a \in Accounts
         PROVE  chain'.ledger[a].balance + Requested(Settled', a) = Deposited(chain'.deposits, a)
    <3> DEFINE c == Credited(A, p)
               e == chain'.ledger[a].balance
               S == Settled \cup First(q, N)
               E == D \cup First(p, M)
    <3>1. /\ c \in Accounting
          /\ c[a].balance + Deposited(D, a) = A[a].balance + Deposited(E, a)
          /\ IsFiniteSet(E) /\ E \in SUBSET Deposits
      <4>1. DepositSeq(p, M) /\ Distinct(p, M) /\ Outside(p, M, D)
        BY <2>7 DEF Outside
      <4>2. CreditBooks(A, p, M, D, a)
        BY <2>10, <2>11, <4>1, CreditSum
      <4> QED
        BY <4>2 DEF CreditBooks
    <3>2. /\ e + Requested(S, a) = c[a].balance + Requested(Settled, a)
          /\ IsFiniteSet(S) /\ S \in SUBSET Request
      <4> HIDE DEF c
      <4>1. chain'.ledger = Debited(c, w)
        BY <2>15 DEF c
      <4>2. /\ Debited(c, w)[a].balance + Requested(S, a) = c[a].balance + Requested(Settled, a)
            /\ IsFiniteSet(S) /\ S \in SUBSET Request
        <5>1. DebitBooks(c, w, q, N, Settled, a)
          BY <2>8, <2>9, <2>12, <2>13, <3>1, DebitSum
        <5> QED
          BY <5>1 DEF DebitBooks
      <4> QED
        BY <4>1, <4>2
    <3>3. A[a].balance + Requested(Settled, a) = Deposited(D, a)
      BY <1>0 DEF A, D
    <3>4. /\ Deposited(D, a) \in Nat /\ Deposited(E, a) \in Nat
          /\ Requested(Settled, a) \in Nat /\ Requested(S, a) \in Nat
      BY <2>10, <2>11, <2>12, <2>13, <3>1, <3>2, DepositedNat, RequestedNat
    <3>5. A[a].balance \in Nat /\ c[a].balance \in Nat
      BY <2>10, <3>1 DEF Accounting, Account
    <3>6. e \in Nat
      <4>1. chain' \in ChainRecord
        BY TypedStep DEF Typed
      <4> QED
        BY <4>1 DEF ChainRecord, Accounting, Account
    <3>7. Settled' = S /\ chain'.deposits = E
      BY <2>6, <2>7, <2>14 DEF D
    <3> HIDE DEF c, e, S, E
    <3>8. e + Requested(S, a) = Deposited(E, a)
      <4>1. PICK k \in Nat, l \in Nat, z \in Nat :
               k = c[a].balance /\ l = A[a].balance /\ z = e
        BY <3>5, <3>6
      <4>2. PICK x \in Nat, y \in Nat, rs \in Nat, rn \in Nat :
               /\ x = Deposited(D, a) /\ y = Deposited(E, a)
               /\ rs = Requested(Settled, a) /\ rn = Requested(S, a)
        BY <3>4
      <4>3. k + x = l + y
        BY <3>1, <4>1, <4>2
      <4>4. z + rn = k + rs
        BY <3>2, <4>1, <4>2
      <4>5. l + rs = x
        BY <3>3, <4>1, <4>2
      <4>6. z + rn = y
        BY <4>3, <4>4, <4>5
      <4> QED
        BY <4>1, <4>2, <4>6
    <3> QED
      BY <3>7, <3>8 DEF e
  <2>17. chain'.deposits \subseteq chain'.queued
    BY <1>0, <2>6, <2>7 DEF D
  <2> QED
    BY <2>16, <2>17 DEF Balanced
<1>8. ASSUME NEW d, IndexDeposit(d) PROVE Balanced'
  BY <1>2, <1>8 DEF IndexDeposit
<1>9. ASSUME NEW p, NEW q, BuildBatch(p, q) PROVE Balanced'
  BY <1>2, <1>9 DEF BuildBatch
<1>10. ASSUME NEW u \in built, GenerateProof(u) PROVE Balanced'
  BY <1>2, <1>10 DEF GenerateProof, processVars
<1>11. ASSUME NEW u \in built, NEW b \in bundles,
              SubmitAnswered(u, b) \/ SubmitUnconfirmed(u, b) \/ SubmitRefused(u, b)
       PROVE  Balanced'
  BY <1>2, <1>11 DEF SubmitAnswered, SubmitUnconfirmed, SubmitRefused, RollbackToBaseline
<1>12. CASE (\E w \in records : ClaimWithdraw(w)) \/ UNCHANGED vars
  BY <1>2, <1>12 DEF ClaimWithdraw, vars, processVars
<1> QED
  BY <1>3, <1>5, <1>6, <1>7, <1>8, <1>9, <1>10, <1>11, <1>12 DEF Next

\* At the start nothing is deposited, requested or built.
LEMMA InitBacked == Init => Backed
<1> SUFFICES ASSUME Init PROVE Backed
  OBVIOUS
<1>1. Numbered /\ Apart /\ Nested /\ Barren
  BY FS_EmptySet DEF Init, Numbered, Apart, Nested, Barren
<1>2. Settled = {} /\ chain.deposits = {}
  BY DEF Init, Settled
<1>3. \A a \in Accounts : chain.ledger[a].balance = 0
  BY DEF Init, NewLocalState, ZeroAccount
<1>4. \A a : Requested({}, a) = 0 /\ Deposited({}, a) = 0
  BY FS_EmptySet, RequestedNat, DepositedNat
<1>5. Balanced
  BY <1>2, <1>3, <1>4 DEF Balanced
<1> QED
  BY <1>1, <1>5 DEF Backed

\* What pays for the records is kept.
LEMMA BackedInvariance == Spec => [](Inv /\ Backed)
<1>1. Init => Inv /\ Backed
  BY InitInv, InitBacked
<1>2. (Inv /\ Backed) /\ [Next]_vars => (Inv /\ Backed)'
  <2>1. Inv /\ [Next]_vars => Inv'
    BY TypedStep, HeldStep, CheckedStep, ChainExactStep, PaidStep, NonceFreeStep DEF Inv
  <2> QED
    BY <2>1, NumberedStep, ApartStep, NestedStep, BarrenStep, BalancedStep DEF Backed
<1> QED
  BY <1>1, <1>2, PTL DEF Spec

\* The requests a batch pays.
RequestsIn(u) == {r \in requests : \E w \in Range(u.withdrawals) : w.id = r.id}

\* A batch that was built from the empty state pays no more than its deposits.
LEMMA BatchCovered ==
    ASSUME Inv, Numbered, Apart, NEW u \in built, u.old = GenesisRoot, NEW a \in Accounts
    PROVE  Requested(RequestsIn(u), a) <= Deposited(chain.queued, a)
<1> DEFINE p == u.deposits
           w == u.withdrawals
           Z == NewLocalState.accounts
<1>1. PICK M \in Nat : p \in [1..M -> Deposits]
  BY DEF Inv, Held, Operations
<1>2. PICK N \in Nat : \E q \in [1..N -> requests] :
            /\ DOMAIN w = 1..N
            /\ \A i \in 1..N : w[i] = SettlementWithdrawal(q[i])
  BY WithdrawalsAre DEF Inv
<1>3. PICK q \in [1..N -> requests] :
            /\ DOMAIN w = 1..N
            /\ \A i \in 1..N : w[i] = SettlementWithdrawal(q[i])
  BY <1>2
<1>4. \A i \in 1..N : /\ w[i].id = q[i].id
                      /\ w[i].acct = q[i].acct /\ w[i].amount = q[i].amount
  <2>1. \A r : /\ SettlementWithdrawal(r).id = r.id
               /\ SettlementWithdrawal(r).acct = r.acct
               /\ SettlementWithdrawal(r).amount = r.amount
    BY DEF SettlementWithdrawal
  <2> QED
    BY <1>3, <2>1
<1>5. Z \in Accounting /\ Z[a].balance = 0
  BY NewLocalStateRooted DEF Rooted, State, NewLocalState, ZeroAccount
<1>6. Settle(Z, u) \in Accounting
  <2>1. PICK A \in Accounting : IsRoot(u.old, A) /\ Settle(A, u) \in Accounting
    BY DEF Inv, Held, Exact
  <2>2. IsRoot(GenesisRoot, Z)
    BY NewLocalStateRooted DEF Rooted, NewLocalState
  <2>3. A = Z
    BY <1>5, <2>1, <2>2, RootInjective
  <2> QED
    BY <2>1, <2>3
<1>7. DepositSeq(p, M) /\ Distinct(p, M) /\ Range(p) = First(p, M) /\ Range(p) \subseteq chain.queued
  BY <1>1, FirstIsRange DEF DepositSeq, Distinct, Apart
<1>8. q \in [1..N -> Request] /\ Distinct(q, N) /\ SameEntries(w, q, N)
  BY <1>3, <1>4 DEF Inv, Typed, Distinct, Apart, SameEntries
<1>9. RequestsIn(u) = First(q, N)
  <2>1. ASSUME NEW r \in requests
        PROVE  (\E x \in Range(w) : x.id = r.id) <=> r \in First(q, N)
    <3>1. ASSUME NEW i \in 1..N PROVE w[i].id = r.id <=> r = q[i]
      BY <1>3, <1>4 DEF Inv, Typed
    <3> QED
      BY <1>3, <3>1 DEF Range, First
  <2>2. First(q, N) \subseteq requests
    BY <1>3 DEF First
  <2> QED
    BY <2>1, <2>2 DEF RequestsIn
<1>10. Settle(Z, u) = Debited(Credited(Z, p), w)
  BY DEF Settle, Debited, Credited
<1>11. IsFiniteSet({}) /\ Requested({}, a) = 0 /\ Deposited({}, a) = 0
  BY FS_EmptySet, RequestedNat, DepositedNat
<1> DEFINE c == Credited(Z, p)
           D == First(p, M)
           R == First(q, N)
<1> HIDE DEF p, w, Z
<1>12. /\ c \in Accounting /\ IsFiniteSet(D) /\ D \in SUBSET Deposits
       /\ c[a].balance + 0 = 0 + Deposited(D, a)
  <2>1. PICK E \in SUBSET Deposits : E = {}
    OBVIOUS
  <2>2. IsFiniteSet(E) /\ Outside(p, M, E)
    BY <1>11, <2>1 DEF Outside
  <2>3. DepositSeq(p, M) /\ Distinct(p, M) /\ Z \in Accounting
    BY <1>5, <1>7
  <2>4. CreditBooks(Z, p, M, E, a)
    BY <2>2, <2>3, CreditSum
  <2>5. E \cup First(p, M) = D
    BY <2>1
  <2>6. Deposited(E, a) = 0 /\ Z[a].balance = 0
    BY <1>5, <1>11, <2>1
  <2>7. /\ c \in Accounting
        /\ c[a].balance + Deposited(E, a) = Z[a].balance + Deposited(E \cup First(p, M), a)
        /\ IsFiniteSet(E \cup First(p, M)) /\ E \cup First(p, M) \in SUBSET Deposits
    BY <2>4 DEF CreditBooks
  <2> HIDE DEF D, c
  <2> QED
    BY <2>5, <2>6, <2>7
<1> DEFINE e == Settle(Z, u)[a].balance
<1>13. /\ IsFiniteSet(R) /\ R \in SUBSET Request
       /\ e + Requested(R, a) = c[a].balance + 0
  <2> HIDE DEF c
  <2>1. Settle(Z, u) = Debited(c, w)
    BY <1>10 DEF c
  <2>2. /\ Debited(c, w)[a].balance + Requested({} \cup First(q, N), a) = c[a].balance + Requested({}, a)
        /\ IsFiniteSet({} \cup First(q, N)) /\ {} \cup First(q, N) \in SUBSET Request
    <3>1. {} \in SUBSET Request /\ Outside(q, N, {})
      BY DEF Outside
    <3>2. DebitBooks(c, w, q, N, {}, a)
      BY <1>8, <1>11, <1>12, <3>1, DebitSum
    <3> QED
      BY <3>2 DEF DebitBooks
  <2>3. {} \cup R = R
    OBVIOUS
  <2> HIDE DEF R
  <2> QED
    BY <1>11, <2>1, <2>2, <2>3 DEF R
<1>14. e \in Nat /\ c[a].balance \in Nat
  BY <1>6, <1>12 DEF Accounting, Account
<1>15. Requested(R, a) \in Nat /\ Deposited(D, a) \in Nat
  BY <1>12, <1>13, RequestedNat, DepositedNat
<1>16. Deposited(D, a) <= Deposited(chain.queued, a) /\ Deposited(chain.queued, a) \in Nat
  <2>1. chain.queued \in SUBSET Deposits /\ IsFiniteSet(chain.queued) /\ D \in SUBSET chain.queued
    BY <1>7 DEF Inv, Typed, ChainRecord, Numbered
  <2> HIDE DEF D
  <2> QED
    BY <2>1, DepositedMonotone, DepositedNat
<1>17. PICK x \in Nat, y \in Nat, z \in Nat, k \in Nat, l \in Nat :
          /\ x = Requested(R, a) /\ y = Deposited(D, a) /\ z = Deposited(chain.queued, a)
          /\ k = c[a].balance /\ l = e
  BY <1>14, <1>15, <1>16
<1>18. k + 0 = 0 + y /\ l + x = k + 0 /\ y <= z
  BY <1>12, <1>13, <1>16, <1>17
<1>19. x <= z
  BY <1>18
<1> QED
  BY <1>9, <1>17, <1>19

\* In every wiring the records of an account, each counted once, are no more than
\* its deposits.
LEMMA RecordsAreCovered == Inv /\ Backed => RecordsCovered
<1> SUFFICES ASSUME Inv, Backed, NEW a \in Accounts
             PROVE  AmountOfRecords(a) <= AmountDeposited(a)
  BY DEF RecordsCovered
<1> DEFINE R == {r \in requests : r.id \in records}
           total == Deposited(chain.queued, a)
<1>1. AmountOfRecords(a) = Requested(R, a)
  <2>1. {r \in requests : r.acct = a /\ r.id \in records} = {r \in R : r.acct = a}
    OBVIOUS
  <2> HIDE DEF R
  <2> QED
    BY <2>1 DEF AmountOfRecords, Requested
<1>2. AmountDeposited(a) = total
  BY DEF AmountDeposited, Deposited, DepositsTo
<1>3. requests \in SUBSET Request /\ IsFiniteSet(requests)
  BY DEF Inv, Typed, Backed, Numbered
<1>4. chain.queued \in SUBSET Deposits /\ IsFiniteSet(chain.queued)
  BY DEF Inv, Typed, ChainRecord, Backed, Numbered
<1>5. ASSUME NEW S \in SUBSET requests, R \subseteq S, Requested(S, a) <= total
      PROVE  Requested(R, a) <= total
  <2>1. S \in SUBSET Request /\ IsFiniteSet(S) /\ R \in SUBSET Request /\ R \in SUBSET S
    BY <1>3, <1>5, FS_Subset
  <2>2. IsFiniteSet(R)
    BY <2>1, FS_Subset
  <2> HIDE DEF R, total
  <2>3. Requested(R, a) <= Requested(S, a)
    BY <2>1, RequestedMonotone
  <2>4. Requested(R, a) \in Nat /\ Requested(S, a) \in Nat
    BY <2>1, <2>2, RequestedNat
  <2>5. total \in Nat
    BY <1>4, DepositedNat DEF total
  <2> QED
    BY <1>5, <2>3, <2>4, <2>5
<1>6. CASE wiring.chain
  <2>1. /\ chain.deposits \in SUBSET chain.queued
        /\ chain.ledger[a].balance + Requested(Settled, a) = Deposited(chain.deposits, a)
    BY <1>6 DEF Backed, Balanced
  <2>2. R \subseteq Settled
    BY <1>6 DEF Inv, Paid, Settled
  <2>3. Settled \in SUBSET requests /\ IsFiniteSet(Settled) /\ IsFiniteSet(chain.deposits)
    <3>1. Settled \in SUBSET requests
      BY DEF Settled
    <3> QED
      BY <1>3, <1>4, <2>1, <3>1, FS_Subset
  <2>4. Settled \in SUBSET Request /\ chain.deposits \in SUBSET Deposits
    BY <1>3, <1>4, <2>1, <2>3
  <2>5. Deposited(chain.deposits, a) <= total
    BY <1>4, <2>1, DepositedMonotone
  <2>6. chain.ledger[a].balance \in Nat
    BY DEF Inv, Typed, ChainRecord, Accounting, Account
  <2>7. Requested(Settled, a) \in Nat /\ Deposited(chain.deposits, a) \in Nat /\ total \in Nat
    BY <1>4, <2>3, <2>4, RequestedNat, DepositedNat
  <2>8. PICK b \in Nat, x \in Nat, y \in Nat, z \in Nat :
           /\ b = chain.ledger[a].balance /\ x = Requested(Settled, a)
           /\ y = Deposited(chain.deposits, a) /\ z = total
    BY <2>6, <2>7
  <2> HIDE DEF R, total
  <2>9. b + x = y /\ y <= z
    BY <2>1, <2>5, <2>8
  <2>10. x <= z
    BY <2>9
  <2>11. Requested(Settled, a) <= total
    BY <2>8, <2>10
  <2> QED
    BY <1>1, <1>2, <1>5, <2>2, <2>3, <2>11
<1>7. CASE records = {}
  <2>1. R = {}
    BY <1>7
  <2>2. Requested({}, a) = 0 /\ total \in Nat
    BY <1>4, FS_EmptySet, RequestedNat, DepositedNat
  <2> HIDE DEF R, total
  <2> QED
    BY <1>1, <1>2, <2>1, <2>2
<1>8. CASE FromZero /\ records # {}
  <2>1. PICK u \in built : records \subseteq {w.id : w \in Range(u.withdrawals)}
    BY <1>8 DEF Backed, Nested
  <2>2. u.old = GenesisRoot
    BY <1>8 DEF Backed, Nested
  <2>3. Requested(RequestsIn(u), a) <= total
    BY <2>2, BatchCovered DEF Backed
  <2>4. R \subseteq RequestsIn(u) /\ RequestsIn(u) \in SUBSET requests
    BY <2>1 DEF RequestsIn
  <2> HIDE DEF R, total
  <2> QED
    BY <1>1, <1>2, <1>5, <2>3, <2>4
<1>9. wiring.chain \/ FromZero \/ records = {}
  <2>1. wiring.builder \in {"local", "snapshot"}
    BY ManualModeAssumption DEF Inv, Typed, Wiring
  <2> QED
    BY <2>1 DEF FromZero, FromManager, Backed, Barren
<1> QED
  BY <1>6, <1>7, <1>8, <1>9

\* Where each record is paid or offered once, that is what the requests ask for.
LEMMA PayoutsOnce ==
    ASSUME NEW R \in SUBSET Request, IsFiniteSet(R), NEW a, \A r \in R : Payouts(r.id) = 1
    PROVE  MapThenSumSet(LAMBDA r : r.amount * Payouts(r.id), {r \in R : r.acct = a})
             = Requested(R, a)
<1> DEFINE S == RequestsOf(R, a)
           w == RequestAmounts(S)
           Pick(s) == CHOOSE y \in s : TRUE
           Def(g) == [s \in SUBSET S |-> IF s = {} THEN 0
                                         ELSE Pick(s).amount * Payouts(Pick(s).id)
                                                + g[s \ {Pick(s)}]]
           iter == CHOOSE g : g = Def(g)
           total == MapThenSumSet(LAMBDA r : r.amount * Payouts(r.id), S)
<1>1. total = iter[S]
  BY DEF MapThenSumSet, MapThenFoldSet
<1>2. S \in SUBSET Request /\ S \in SUBSET R /\ IsFiniteSet(S)
  <2>1. S \in SUBSET R
    BY DEF RequestsOf
  <2> QED
    BY <2>1, FS_Subset
<1>3. PICK f : Sums(f, w, S) /\ Requested(R, a) = f[S]
  BY RequestedSum
<1>4. total = MapThenSumSet(LAMBDA r : r.amount * Payouts(r.id), {r \in R : r.acct = a})
  BY DEF RequestsOf
<1> HIDE DEF S, total
<1>5. w \in [S -> Nat] /\ \A x \in S : w[x] = x.amount
  BY <1>2 DEF RequestAmounts, Request
<1> HIDE DEF w
<1>6. ASSUME NEW x \in S PROVE x.amount * Payouts(x.id) = w[x]
  <2>1. Payouts(x.id) = 1 /\ w[x] \in Nat /\ w[x] = x.amount
    BY <1>2, <1>5
  <2> QED
    BY <2>1
<1>7. ASSUME NEW s \in SUBSET S, s # {} PROVE Pick(s) \in S
  BY <1>7
<1>8. ASSUME NEW s \in SUBSET S, s # {}
      PROVE  Pick(s).amount * Payouts(Pick(s).id) = w[Pick(s)]
  <2> HIDE DEF Pick
  <2> QED
    BY <1>6, <1>7, <1>8
<1>9. f = Def(f)
  <2>1. f \in [SUBSET S -> Nat] /\ f[{}] = 0
    BY <1>3 DEF Sums
  <2>2. ASSUME NEW s \in SUBSET S, s # {}
        PROVE  f[s] = Pick(s).amount * Payouts(Pick(s).id) + f[s \ {Pick(s)}]
    <3>1. f[s] = w[Pick(s)] + f[s \ {Pick(s)}]
      BY <1>3, <2>2 DEF Sums
    <3> HIDE DEF Pick
    <3> QED
      BY <3>1, <1>8, <2>2
  <2> HIDE DEF Pick
  <2> QED
    BY <2>1, <2>2
<1>10. iter = Def(iter)
  <2> HIDE DEF Def
  <2> QED
    BY <1>9
<1> HIDE DEF iter
<1>11. Iterates(iter, w, S)
  <2>1. iter = [s \in SUBSET S |-> IF s = {} THEN 0 ELSE w[Pick(s)] + iter[s \ {Pick(s)}]]
    <3> HIDE DEF Pick
    <3> QED
      BY <1>10, <1>8
  <2> QED
    BY <2>1 DEF Iterates
<1>12. iter = f
  BY <1>2, <1>3, <1>5, <1>11, SumIterates
<1> QED
  BY <1>1, <1>3, <1>4, <1>12

\* With a chain, what was credited, what is offered and what is left on the chain
\* are no more than the settled deposits: a record is credited once, when it is
\* claimed, or offered, and its request is one that the chain has paid.
LEMMA PayoutsAreCovered == Inv /\ Backed /\ ClaimsOnce => PayoutsCovered
<1> SUFFICES ASSUME Inv, Backed, ClaimsOnce, wiring.chain, NEW a \in Accounts
             PROVE  AmountPaidOrOffered(a) + chain.ledger[a].balance <= AmountSettled(a)
  BY DEF PayoutsCovered
<1> DEFINE R == {r \in requests : r.id \in records}
<1>1. R \subseteq Settled /\ Settled \in SUBSET requests
  BY DEF Inv, Paid, Settled
<1>2. Settled \in SUBSET Request /\ IsFiniteSet(Settled) /\ R \in SUBSET Settled
  <2>1. requests \in SUBSET Request /\ IsFiniteSet(requests)
    BY DEF Inv, Typed, Backed, Numbered
  <2> QED
    BY <1>1, <2>1, FS_Subset
<1>3. R \in SUBSET Request /\ IsFiniteSet(R)
  BY <1>2, FS_Subset
<1>4. ASSUME NEW r \in R PROVE Payouts(r.id) = 1
  <2>1. r.id \in 1..MaxRequests /\ r.id \in records
    BY <1>3 DEF Request
  <2>2. credited[r.id] = IF r.id \in claimed THEN 1 ELSE 0
    BY <2>1 DEF ClaimsOnce
  <2> QED
    BY <2>1, <2>2 DEF Payouts
<1>5. AmountPaidOrOffered(a) = Requested(R, a)
  <2>1. {r \in requests : r.acct = a /\ r.id \in records} = {r \in R : r.acct = a}
    OBVIOUS
  <2> HIDE DEF R
  <2>2. MapThenSumSet(LAMBDA r : r.amount * Payouts(r.id), {r \in R : r.acct = a})
          = Requested(R, a)
    BY <1>3, <1>4, PayoutsOnce
  <2> QED
    BY <2>1, <2>2 DEF AmountPaidOrOffered
<1>6. AmountSettled(a) = Deposited(chain.deposits, a)
  BY DEF AmountSettled, Deposited, DepositsTo
<1>7. chain.ledger[a].balance + Requested(Settled, a) = Deposited(chain.deposits, a)
  BY DEF Backed, Balanced
<1> HIDE DEF R
<1>8. Requested(R, a) <= Requested(Settled, a)
  BY <1>2, RequestedMonotone
<1>9. chain.ledger[a].balance \in Nat
  BY DEF Inv, Typed, ChainRecord, Accounting, Account
<1>10. Requested(R, a) \in Nat /\ Requested(Settled, a) \in Nat
  BY <1>2, <1>3, RequestedNat
<1>11. PICK b \in Nat, x \in Nat, y \in Nat :
          b = chain.ledger[a].balance /\ x = Requested(R, a) /\ y = Requested(Settled, a)
  BY <1>9, <1>10
<1> QED
  BY <1>5, <1>6, <1>7, <1>8, <1>11

\* An account never gets out more than it put in: in every wiring its records, each
\* counted once, are covered by its deposits, and with a chain so is every payout
\* of them, claim by claim, together with what it has left.
THEOREM CoveredTheorem == Spec => []FundsCovered
<1>1. Inv /\ Backed /\ ClaimsOnce => FundsCovered
  BY RecordsAreCovered, PayoutsAreCovered DEF FundsCovered
<1> QED
  BY <1>1, BackedInvariance, ClaimsInvariance, PTL

=============================================================================
