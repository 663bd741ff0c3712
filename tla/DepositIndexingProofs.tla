----------------------- MODULE DepositIndexingProofs -----------------------
(***************************************************************************)
(* What TLAPS proves of DepositIndexing: the types, and that the poller's  *)
(* cursor leaves no deposit behind, for every chain, every number of API   *)
(* callers and every interleaving with them.                               *)
(***************************************************************************)
EXTENDS DepositIndexing, Induction

-----------------------------------------------------------------------------
(* Flattening a sequence of sequences *)

\* f is the first n sequences of s one after the other: element i of it is the
\* one at position pos[i] of the sequence at[i], and every position occurs.
Places(f, s, n, at, pos) ==
    /\ at \in [1..Len(f) -> 1..n]
    /\ pos \in [1..Len(f) -> Nat]
    /\ \A i \in 1..Len(f) : pos[i] \in 1..Len(s[at[i]]) /\ f[i] = s[at[i]][pos[i]]
    /\ \A i, j \in 1..Len(f) :
          i < j => at[i] < at[j] \/ (at[i] = at[j] /\ pos[i] < pos[j])
    /\ \A k \in 1..n : \A a \in 1..Len(s[k]) : \E i \in 1..Len(f) : at[i] = k /\ pos[i] = a

Flattens(f, s, n) == \E at, pos : Places(f, s, n, at, pos)

\* One more sequence put after the others.
LEMMA FlattensNext ==
    ASSUME NEW S, NEW s \in Seq(Seq(S)), NEW n \in Nat, n + 1 \in DOMAIN s,
           NEW f \in Seq(S), Flattens(f, s, n)
    PROVE  f \o s[n + 1] \in Seq(S) /\ Flattens(f \o s[n + 1], s, n + 1)
<1>1. PICK at, pos : Places(f, s, n, at, pos)
  BY DEF Flattens
<1>2. PICK t \in Seq(S) : t = s[n + 1]
  OBVIOUS
<1>3. PICK L \in Nat : L = Len(f)
  OBVIOUS
<1>4. PICK M \in Nat : M = Len(t)
  OBVIOUS
<1> DEFINE g == f \o t
           at2 == [i \in 1..(L + M) |-> IF i <= L THEN at[i] ELSE n + 1]
           pos2 == [i \in 1..(L + M) |-> IF i <= L THEN pos[i] ELSE i - L]
<1>5. g \in Seq(S) /\ Len(g) = L + M
  BY <1>3, <1>4
<1>6. \A i \in 1..L : g[i] = f[i]
  BY <1>3, <1>4
<1>7. \A i \in 1..(L + M) : i > L => g[i] = t[i - L]
  BY <1>3, <1>4
<1> HIDE DEF g
<1>8. /\ at \in [1..L -> 1..n]
      /\ pos \in [1..L -> Nat]
      /\ \A i \in 1..L : pos[i] \in 1..Len(s[at[i]]) /\ f[i] = s[at[i]][pos[i]]
  BY <1>1, <1>3 DEF Places
<1>9. \A i, j \in 1..L : i < j => at[i] < at[j] \/ (at[i] = at[j] /\ pos[i] < pos[j])
  BY <1>1, <1>3 DEF Places
<1>10. \A k \in 1..n : \A a \in 1..Len(s[k]) : \E i \in 1..L : at[i] = k /\ pos[i] = a
  BY <1>1, <1>3 DEF Places
<1>11. at2 \in [1..(L + M) -> 1..(n + 1)] /\ pos2 \in [1..(L + M) -> Nat]
  BY <1>8
<1>12. ASSUME NEW i \in 1..(L + M)
       PROVE  pos2[i] \in 1..Len(s[at2[i]]) /\ g[i] = s[at2[i]][pos2[i]]
  <2>1. CASE i <= L
    <3>1. i \in 1..L /\ at2[i] = at[i] /\ pos2[i] = pos[i]
      BY <2>1
    <3> QED
      BY <3>1, <1>6, <1>8
  <2>2. CASE i > L
    <3>1. at2[i] = n + 1 /\ pos2[i] = i - L
      BY <2>2
    <3>2. i - L \in 1..M
      BY <2>2
    <3> QED
      BY <3>1, <3>2, <2>2, <1>2, <1>4, <1>7
  <2> QED
    BY <2>1, <2>2
<1>13. ASSUME NEW i \in 1..(L + M), NEW j \in 1..(L + M), i < j
       PROVE  at2[i] < at2[j] \/ (at2[i] = at2[j] /\ pos2[i] < pos2[j])
  <2>1. CASE j <= L
    <3>1. i \in 1..L /\ j \in 1..L
      BY <1>13, <2>1
    <3>2. at2[i] = at[i] /\ pos2[i] = pos[i] /\ at2[j] = at[j] /\ pos2[j] = pos[j]
      BY <3>1
    <3> QED
      BY <1>13, <3>1, <3>2, <1>9
  <2>2. CASE i <= L /\ j > L
    <3>1. at2[i] = at[i] /\ at[i] \in 1..n /\ at2[j] = n + 1
      BY <2>2, <1>8
    <3> QED
      BY <3>1
  <2>3. CASE i > L
    BY <2>3, <1>13
  <2> QED
    BY <2>1, <2>2, <2>3
<1>14. ASSUME NEW k \in 1..(n + 1), NEW a \in 1..Len(s[k])
       PROVE  \E i \in 1..(L + M) : at2[i] = k /\ pos2[i] = a
  <2>1. CASE k <= n
    <3>1. PICK i \in 1..L : at[i] = k /\ pos[i] = a
      BY <2>1, <1>10
    <3>2. i \in 1..(L + M) /\ at2[i] = k /\ pos2[i] = a
      BY <3>1
    <3> QED
      BY <3>2
  <2>2. CASE k = n + 1
    <3>1. a \in 1..M
      BY <2>2, <1>2, <1>4
    <3>2. L + a \in 1..(L + M) /\ at2[L + a] = k /\ pos2[L + a] = a
      BY <3>1, <2>2
    <3> QED
      BY <3>2
  <2> QED
    BY <2>1, <2>2
<1> HIDE DEF at2, pos2
<1>15. Places(g, s, n + 1, at2, pos2)
  <2>1. PICK K \in Nat : K = L + M
    OBVIOUS
  <2>2. Len(g) = K
    BY <2>1, <1>5
  <2>3. at2 \in [1..K -> 1..(n + 1)] /\ pos2 \in [1..K -> Nat]
    BY <2>1, <1>11
  <2>4. \A i \in 1..K : pos2[i] \in 1..Len(s[at2[i]]) /\ g[i] = s[at2[i]][pos2[i]]
    BY <2>1, <1>12
  <2>5. \A i, j \in 1..K : i < j => at2[i] < at2[j] \/ (at2[i] = at2[j] /\ pos2[i] < pos2[j])
    BY <2>1, <1>13
  <2>6. \A k \in 1..(n + 1) : \A a \in 1..Len(s[k]) : \E i \in 1..K : at2[i] = k /\ pos2[i] = a
    BY <2>1, <1>14
  <2> QED
    BY <2>2, <2>3, <2>4, <2>5, <2>6, SMTT(30) DEF Places
<1>16. Flattens(g, s, n + 1)
  BY <1>15 DEF Flattens
<1> QED
  BY <1>2, <1>5, <1>16 DEF g

\* FlattenSeq is the sequences one after the other.
LEMMA FlattenSeqFlattens ==
    ASSUME NEW S, NEW s \in Seq(Seq(S))
    PROVE  FlattenSeq(s) \in Seq(S) /\ Flattens(FlattenSeq(s), s, Len(s))
<1> DEFINE N == Len(s)
           Q == Seq(S)
           Step(n, f) == IF n = 1 THEN s[n] ELSE f \o s[n]
           Def(g) == [i \in 1..N |-> IF i = 1 THEN s[i] ELSE g[i - 1] \o s[i]]
           flat == CHOOSE g : g = Def(g)
           b == <<>>
           step == [n \in 1..N |-> [f \in Q |-> Step(n, f)]]
<1>1. N \in Nat /\ b \in Q
  OBVIOUS
<1>2. \A n \in 1..N : s[n] \in Q
  OBVIOUS
<1>3. N # 0 => FlattenSeq(s) = flat[N]
  BY DEF FlattenSeq
<1>4. N = 0 => FlattenSeq(s) = b /\ s = b
  BY DEF FlattenSeq
<1>5. Flattens(b, s, 0)
  <2>1. Places(b, s, 0, b, b)
    BY DEF Places
  <2> HIDE DEF b
  <2> QED
    BY <2>1 DEF Flattens
<1>6. ASSUME NEW n \in 0..N, n < N, NEW f \in Q, Flattens(f, s, n)
      PROVE  f \o s[n + 1] \in Q /\ Flattens(f \o s[n + 1], s, n + 1)
  <2>1. n \in Nat /\ n + 1 \in DOMAIN s
    BY <1>1, <1>6
  <2> QED
    BY <1>6, <2>1, FlattensNext
<1>7. ASSUME NEW n \in 1..N, NEW f \in Q PROVE Step(n, f) \in Q
  BY <1>2
<1>8. N > 0 => b \o s[1] = s[1]
  OBVIOUS
<1> HIDE DEF N, Q, b
<1>9. \E g : g = Def(g)
  <2>1. step \in [1..N -> [Q -> Q]]
    <3> HIDE DEF Step
    <3> QED
      BY <1>7
  <2> HIDE DEF step
  <2>2. PICK f : Recurs(f, N, Q, b, step)
    BY <1>1, <2>1, Recursion
  <2> DEFINE g == [i \in 1..N |-> f[i]]
  <2>3. ASSUME NEW n \in 1..N PROVE f[n] = IF n = 1 THEN s[n] ELSE g[n - 1] \o s[n]
    <3>1. f[n - 1] \in Q /\ f[n] = step[n][f[n - 1]]
      BY <1>1, <2>2 DEF Recurs
    <3>2. f[n] = Step(n, f[n - 1])
      BY <3>1 DEF step
    <3>3. n # 1 => g[n - 1] = f[n - 1]
      BY <1>1
    <3> QED
      BY <3>2, <3>3
  <2>4. g = Def(g)
    BY <2>3
  <2> HIDE DEF Def
  <2> QED
    BY <2>4
<1>10. flat = Def(flat)
  <2> HIDE DEF Def
  <2> QED
    BY <1>9
<1> HIDE DEF flat, step
<1> DEFINE val == [n \in 0..N |-> IF n = 0 THEN b ELSE flat[n]]
           T == {n \in 0..N : val[n] \in Q /\ Flattens(val[n], s, n)}
<1>11. 0 \in T
  BY <1>1, <1>5
<1>12. ASSUME NEW n \in 0..N, n < N, n \in T PROVE n + 1 \in T
  <2>1. val[n] \in Q /\ Flattens(val[n], s, n)
    BY <1>12
  <2>2. n + 1 \in 1..N
    BY <1>1, <1>12
  <2>3. val[n + 1] = val[n] \o s[n + 1]
    <3>1. val[n + 1] = IF n + 1 = 1 THEN s[n + 1] ELSE flat[n] \o s[n + 1]
      <4>1. val[n + 1] = flat[n + 1]
        BY <1>1, <2>2
      <4>2. flat[n + 1] = IF n + 1 = 1 THEN s[n + 1] ELSE flat[(n + 1) - 1] \o s[n + 1]
        BY <1>10, <2>2
      <4> QED
        BY <4>1, <4>2, <1>1
    <3>2. CASE n = 0
      BY <1>1, <1>8, <2>2, <3>1, <3>2
    <3>3. CASE n # 0
      <4>1. val[n] = flat[n] /\ n + 1 # 1
        BY <1>1, <3>3
      <4> HIDE DEF val
      <4> QED
        BY <3>1, <4>1
    <3> QED
      BY <3>2, <3>3
  <2> HIDE DEF val
  <2>4. val[n + 1] \in Q /\ Flattens(val[n + 1], s, n + 1)
    BY <1>6, <1>12, <2>1, <2>3
  <2> QED
    BY <1>1, <2>2, <2>4
<1> HIDE DEF T
<1>13. \A n \in 0..N : n \in T
  BY <1>1, <1>11, <1>12, SetInduction
<1>14. val[N] \in Q /\ Flattens(val[N], s, N)
  BY <1>1, <1>13 DEF T
<1>15. FlattenSeq(s) = val[N]
  BY <1>1, <1>3, <1>4
<1> HIDE DEF val
<1> QED
  BY <1>14, <1>15 DEF N, Q

-----------------------------------------------------------------------------
(* Types *)

\* The queue of a poll is a sequence of deposits.
Types == TypeOK /\ queue \in Seq(DepositsOf(Txs))

\* The blocks above a height, each transaction with the height of its block.
Tagging(height) ==
    [k \in 1..(Len(blocks) - height) |->
        [i \in DOMAIN blocks[height + k] |-> [tx |-> blocks[height + k][i], height |-> height + k]]]

\* What one page of tx_search holds: transactions of blocks above the height, each
\* with the height of its block.
Found(p, height) ==
    \A i \in DOMAIN p : /\ p[i].height \in (height + 1)..Len(blocks)
                        /\ \E a \in DOMAIN blocks[p[i].height] : p[i].tx = blocks[p[i].height][a]

\* The chain is a sequence of sequences of transactions.
LEMMA ChainShape ==
    ASSUME Types
    PROVE  /\ Len(blocks) \in Nat /\ DOMAIN blocks = 1..Len(blocks)
           /\ \A h \in DOMAIN blocks : /\ blocks[h] \in Seq(Txs) /\ Len(blocks[h]) \in Nat
                                        /\ DOMAIN blocks[h] = 1..Len(blocks[h])
<1>1. blocks \in Seq(Seq(Txs))
  BY DEF Types, TypeOK
<1>2. \A h \in DOMAIN blocks : blocks[h] \in Seq(Txs)
  BY <1>1
<1> QED
  BY <1>1, <1>2

\* The first deposit event of a transaction is one of its events.
LEMMA FirstDepositOf ==
    ASSUME NEW t \in Txs
    PROVE  FirstDeposit(t) \in Range(Events[t])
<1>1. PICK e \in Seq(Range(Events[t])) : e = Events[t] /\ e # <<>>
  BY TxsAssumption
<1>2. 1 \in DOMAIN e /\ Head(e) = e[1]
  BY <1>1
<1> QED
  BY <1>1, <1>2 DEF FirstDeposit, Range

\* tx_search's answer is the blocks above the height, one after the other.
LEMMA AboveFlattens ==
    ASSUME Types, NEW height \in 0..Len(blocks)
    PROVE  /\ Tagging(height) \in Seq(Seq([tx : Txs, height : Nat]))
           /\ Len(Tagging(height)) = Len(blocks) - height
           /\ Above(height) \in Seq([tx : Txs, height : Nat])
           /\ Flattens(Above(height), Tagging(height), Len(blocks) - height)
<1> DEFINE R == [tx : Txs, height : Nat]
           Block(k) == [i \in DOMAIN blocks[height + k] |->
                            [tx |-> blocks[height + k][i], height |-> height + k]]
<1>1. blocks \in Seq(Seq(Txs))
  BY DEF Types, TypeOK
<1>2. PICK n \in Nat : n = Len(blocks) - height
  <2>1. PICK l \in Nat : l = Len(blocks)
    BY <1>1
  <2>2. l - height \in Nat
    BY <2>1
  <2> QED
    BY <2>1, <2>2
<1>3. ASSUME NEW k \in 1..n PROVE Block(k) \in Seq(R)
  <2>1. height + k \in Nat /\ height + k \in 1..Len(blocks)
    BY <1>1, <1>2
  <2>2. PICK b \in Seq(Txs) : b = blocks[height + k]
    BY <1>1, <2>1
  <2>3. PICK m \in Nat : m = Len(b)
    BY <2>2
  <2>4. DOMAIN b = 1..m /\ \A i \in 1..m : b[i] \in Txs
    BY <2>2, <2>3
  <2>5. Block(k) = [i \in 1..m |-> [tx |-> b[i], height |-> height + k]]
    BY <2>2, <2>4
  <2>6. [i \in 1..m |-> [tx |-> b[i], height |-> height + k]] \in [1..m -> R]
    BY <2>1, <2>4
  <2> HIDE DEF R, Block
  <2> QED
    BY <2>3, <2>5, <2>6
<1>4. Tagging(height) = [k \in 1..n |-> Block(k)]
  BY <1>2 DEF Tagging
<1>5. Above(height) = FlattenSeq(Tagging(height))
  BY DEF Above, Tagging
<1> HIDE DEF R, Block
<1>6. Tagging(height) \in Seq(Seq(R)) /\ Len(Tagging(height)) = n
  BY <1>3, <1>4
<1>7. FlattenSeq(Tagging(height)) \in Seq(R) /\ Flattens(FlattenSeq(Tagging(height)), Tagging(height), n)
  BY <1>6, FlattenSeqFlattens
<1> QED
  BY <1>2, <1>5, <1>6, <1>7 DEF R

\* One page is a prefix of the answer.
LEMMA PagePrefix ==
    ASSUME Types, NEW height \in 0..Len(blocks)
    PROVE  /\ Page(height) \in Seq([tx : Txs, height : Nat])
           /\ Len(Page(height)) = IF Len(Above(height)) <= PerPage THEN Len(Above(height)) ELSE PerPage
           /\ \A i \in 1..Len(Page(height)) : i \in 1..Len(Above(height)) /\ Page(height)[i] = Above(height)[i]
<1> DEFINE R == [tx : Txs, height : Nat]
<1>1. PICK all \in Seq(R) : all = Above(height)
  BY AboveFlattens
<1>2. PICK L \in Nat : L = Len(all)
  BY <1>1
<1>3. PerPage \in Nat
  BY TxsAssumption
<1>4. PICK m \in Nat : m = (IF L <= PerPage THEN L ELSE PerPage) /\ m <= L
  BY <1>2, <1>3
<1>5. Min({PerPage, L}) = m
  <2>1. m \in {PerPage, L} /\ \A y \in {PerPage, L} : m <= y
    BY <1>2, <1>3, <1>4
  <2>2. \A x \in {PerPage, L} : (\A y \in {PerPage, L} : x <= y) => x = m
    BY <2>1, <1>2, <1>3, <1>4
  <2> QED
    BY <2>1, <2>2 DEF Min
<1>6. Page(height) = SubSeq(all, 1, m)
  BY <1>1, <1>2, <1>5 DEF Page
<1>7. SubSeq(all, 1, m) \in Seq(R) /\ Len(SubSeq(all, 1, m)) = m
      /\ \A i \in 1..m : SubSeq(all, 1, m)[i] = all[i]
  <2> HIDE DEF R
  <2> QED
    BY <1>2, <1>4
<1> HIDE DEF R
<1> QED
  BY <1>1, <1>2, <1>4, <1>6, <1>7 DEF R

\* Every transaction of the page is in a block above the height.
LEMMA PageFound ==
    ASSUME Types, NEW height \in 0..Len(blocks)
    PROVE  Found(Page(height), height)
<1> DEFINE R == [tx : Txs, height : Nat]
<1>1. PICK p \in Seq(R) : p = Page(height)
  BY PagePrefix
<1>2. PICK all \in Seq(R) : all = Above(height)
  BY AboveFlattens
<1>3. PICK n \in Nat : n = Len(blocks) - height
  <2>1. PICK l \in Nat : l = Len(blocks)
    BY DEF Types, TypeOK
  <2>2. l - height \in Nat
    BY <2>1
  <2> QED
    BY <2>1, <2>2
<1>4. PICK at, pos : Places(all, Tagging(height), n, at, pos)
  BY <1>2, <1>3, AboveFlattens DEF Flattens
<1>5. ASSUME NEW i \in DOMAIN p
      PROVE  /\ p[i].height \in (height + 1)..Len(blocks)
             /\ \E a \in DOMAIN blocks[p[i].height] : p[i].tx = blocks[p[i].height][a]
  <2>1. i \in 1..Len(all) /\ p[i] = all[i]
    <3>1. i \in 1..Len(p)
      BY <1>1
    <3> QED
      BY <3>1, <1>1, <1>2, PagePrefix
  <2>2. at[i] \in 1..n /\ pos[i] \in 1..Len(Tagging(height)[at[i]])
        /\ all[i] = Tagging(height)[at[i]][pos[i]]
    BY <2>1, <1>4 DEF Places
  <2>3. PICK k \in 1..n : k = at[i]
    BY <2>2
  <2>4. height + k \in (height + 1)..Len(blocks) /\ height + k \in 1..Len(blocks)
    <3>1. PICK l \in Nat : l = Len(blocks)
      BY DEF Types, TypeOK
    <3> QED
      BY <1>3, <2>3, <3>1
  <2>5. PICK b \in Seq(Txs) : b = blocks[height + k]
    BY <2>4 DEF Types, TypeOK
  <2>6. Tagging(height)[k] = [j \in DOMAIN b |-> [tx |-> b[j], height |-> height + k]]
    BY <1>3, <2>5 DEF Tagging
  <2>7. Len(Tagging(height)[k]) = Len(b)
    BY <2>6, <2>5
  <2>8. pos[i] \in DOMAIN b
    <3>1. pos[i] \in 1..Len(b)
      BY <2>2, <2>3, <2>7
    <3> QED
      BY <2>5, <3>1
  <2>9. p[i] = [tx |-> b[pos[i]], height |-> height + k]
    BY <2>1, <2>2, <2>3, <2>6, <2>8
  <2> QED
    BY <2>4, <2>5, <2>8, <2>9
<1> QED
  BY <1>1, <1>5 DEF Found

\* A transaction of a block is on chain, and its events are deposits on chain.
LEMMA InBlock ==
    ASSUME Types, NEW h \in DOMAIN blocks, NEW a \in DOMAIN blocks[h]
    PROVE  /\ blocks[h][a] \in OnChain /\ blocks[h][a] \in Txs
           /\ FirstDeposit(blocks[h][a]) \in DepositsOf(OnChain)
           /\ FirstDeposit(blocks[h][a]) \in DepositsOf(Txs)
<1>1. blocks[h] \in Seq(Txs)
  BY DEF Types, TypeOK
<1>2. PICK t \in Txs : t = blocks[h][a]
  BY <1>1
<1>3. t \in OnChain
  BY <1>2 DEF OnChain, Range
<1> QED
  BY <1>2, <1>3, FirstDepositOf DEF DepositsOf

\* In every initial state.
LEMMA TypesInit ==
    Init => Types
<1> SUFFICES ASSUME Init PROVE Types
  OBVIOUS
<1>1. Range(<<>>) = {}
  BY DEF Range
<1>2. cursor \in 0..Len(blocks) /\ next \in 0..Len(blocks)
  BY DEF Init
<1>3. blocks \in Seq(Seq(Txs)) /\ queue \in Seq(DepositsOf(Txs))
  BY DEF Init
<1>4. Range(queue) \cup stored \cup applied \cup recorded \subseteq DepositsOf(OnChain)
  BY <1>1 DEF Init
<1> QED
  BY <1>2, <1>3, <1>4 DEF Init, Types, TypeOK

\* What SeqOf holds: the sequences up to a length.
LEMMA SeqOfBounded ==
    ASSUME NEW X, NEW n \in Nat, NEW b \in SeqOf(X, n)
    PROVE  b \in Seq(X) /\ Len(b) <= n
<1>1. PICK m \in 0..n : b \in [1..m -> X]
  BY DEF SeqOf
<1> QED
  BY <1>1

\* The chain's next block: what was on chain stays on chain.
LEMMA CommitBlockTypes ==
    ASSUME Types, CommitBlock
    PROVE  Types'
<1>1. PICK block \in SeqOf(Txs \ OnChain, BlockSize) \ {<<>>} : blocks' = Append(blocks, block)
  BY DEF CommitBlock
<1>2. blocks \in Seq(Seq(Txs)) /\ block \in Seq(Txs)
  <2>1. BlockSize \in Nat /\ block \in SeqOf(Txs \ OnChain, BlockSize)
    BY <1>1, TxsAssumption
  <2>2. block \in Seq(Txs \ OnChain)
    BY <2>1, SeqOfBounded
  <2> QED
    BY <2>2 DEF Types, TypeOK
<1>3. PICK n \in Nat : n = Len(blocks)
  BY <1>2
<1>4. blocks' \in Seq(Seq(Txs)) /\ Len(blocks') = n + 1 /\ \A h \in 1..n : blocks'[h] = blocks[h]
  BY <1>1, <1>2, <1>3
<1>5. OnChain \subseteq OnChain'
  BY <1>2, <1>3, <1>4 DEF OnChain
<1>6. DepositsOf(OnChain) \subseteq DepositsOf(OnChain)'
  BY <1>5 DEF DepositsOf
<1>7. cursor \in 0..(n + 1) /\ next \in 0..(n + 1)
  BY <1>3 DEF Types, TypeOK
<1>8. UNCHANGED <<cursor, queue, next, busy, api, stored, moduleBalance, applied, recorded>>
  BY DEF CommitBlock, poll, store, settlement
<1>9. cursor' \in 0..Len(blocks') /\ next' \in 0..Len(blocks')
  BY <1>4, <1>7, <1>8
<1>10. Range(queue) \cup stored \cup applied \cup recorded \subseteq DepositsOf(OnChain)'
  BY <1>6 DEF Types, TypeOK
<1>11. (Range(queue) \cup stored \cup applied \cup recorded \subseteq DepositsOf(OnChain))'
  BY <1>8, <1>10 DEF Range
<1>12. busy' \in [Callers -> DepositsOf(OnChain)' \cup {NoDeposit}]
  BY <1>6, <1>8 DEF Types, TypeOK
<1>13. queue' \in Seq(DepositsOf(Txs)) /\ moduleBalance' \in Nat
       /\ api' \in [ApiTxs -> {"waiting", "indexing", "done", "refused", "failed"}]
  BY <1>8 DEF Types, TypeOK
<1> QED
  BY <1>4, <1>9, <1>11, <1>12, <1>13 DEF Types, TypeOK

\* A step that leaves the chain alone keeps the types if it keeps them of what it
\* changes.
LEMMA SameChainTypes ==
    ASSUME Types, blocks' = blocks,
           cursor' \in 0..Len(blocks), next' \in 0..Len(blocks),
           queue' \in Seq(DepositsOf(Txs)),
           Range(queue)' \subseteq DepositsOf(OnChain),
           stored' \cup applied' \cup recorded' \subseteq DepositsOf(OnChain),
           busy' \in [Callers -> DepositsOf(OnChain) \cup {NoDeposit}],
           api' \in [ApiTxs -> {"waiting", "indexing", "done", "refused", "failed"}],
           moduleBalance' \in Nat
    PROVE  Types'
<1>1. DepositsOf(OnChain)' = DepositsOf(OnChain)
  BY DEF DepositsOf, OnChain
<1>2. blocks' \in Seq(Seq(Txs))
  BY DEF Types, TypeOK
<1>3. cursor' \in 0..Len(blocks') /\ next' \in 0..Len(blocks')
  OBVIOUS
<1>4. (Range(queue) \cup stored \cup applied \cup recorded \subseteq DepositsOf(OnChain))'
  BY <1>1
<1>5. busy' \in [Callers -> DepositsOf(OnChain)' \cup {NoDeposit}]
  BY <1>1
<1> QED
  BY <1>2, <1>3, <1>4, <1>5 DEF Types, TypeOK

\* The end of a call of the indexer keeps the types.
LEMMA IndexTypes ==
    ASSUME Types, NEW c \in Callers, IndexStep(c) \/ ApplyFault(c)
    PROVE  Types'
<1> DEFINE D == DepositsOf(OnChain)
           A == {"waiting", "indexing", "done", "refused", "failed"}
<1>1. blocks' = blocks /\ cursor' = cursor /\ next' = next /\ queue' = queue
      /\ stored' = stored /\ moduleBalance' = moduleBalance
  BY DEF IndexStep, Apply, RefuseReplay, ApplyFault, poll, store
<1>2. busy \in [Callers -> D \cup {NoDeposit}] /\ api \in [ApiTxs -> A]
      /\ stored \cup applied \cup recorded \subseteq D /\ Range(queue) \subseteq D
      /\ cursor \in 0..Len(blocks) /\ next \in 0..Len(blocks) /\ moduleBalance \in Nat
      /\ queue \in Seq(DepositsOf(Txs))
  BY DEF Types, TypeOK
<1>3. \E status \in A : Respond(c, status)
  BY DEF IndexStep, Apply, RefuseReplay, ApplyFault
<1>4. busy' = [busy EXCEPT ![c] = NoDeposit]
  BY DEF IndexStep, Apply, RefuseReplay, ApplyFault
<1>5. busy[c] \in D \cup {NoDeposit}
  BY <1>2
<1>6. applied' \cup recorded' \subseteq D
  <2>1. CASE Apply(c)
    BY <1>2, <1>5, <2>1 DEF Apply
  <2>2. CASE RefuseReplay(c)
    BY <1>2, <2>2 DEF RefuseReplay, settlement
  <2>3. CASE ApplyFault(c)
    BY <1>2, <1>5, <2>3 DEF ApplyFault
  <2> QED
    BY <2>1, <2>2, <2>3 DEF IndexStep
<1>7. Range(queue)' = Range(queue)
  BY <1>1 DEF Range
<1> HIDE DEF D, A
<1>8. busy' \in [Callers -> D \cup {NoDeposit}]
  BY <1>2, <1>4
<1>9. api' \in [ApiTxs -> A]
  BY <1>2, <1>3 DEF Respond
<1> QED
  BY <1>1, <1>2, <1>6, <1>7, <1>8, <1>9, SameChainTypes DEF D, A

\* A poll keeps the types.
LEMMA PollTypes ==
    ASSUME Types, PollStep
    PROVE  Types'
<1> DEFINE D == DepositsOf(OnChain)
           A == {"waiting", "indexing", "done", "refused", "failed"}
<1>1. blocks' = blocks /\ api' = api /\ applied' = applied /\ recorded' = recorded
  BY DEF PollStep, FetchDepositsSince, IndexNext, AdvanceCursor, settlement
<1>2. busy \in [Callers -> D \cup {NoDeposit}] /\ api \in [ApiTxs -> A]
      /\ stored \cup applied \cup recorded \subseteq D /\ Range(queue) \subseteq D
      /\ cursor \in 0..Len(blocks) /\ next \in 0..Len(blocks) /\ moduleBalance \in Nat
      /\ queue \in Seq(DepositsOf(Txs))
  BY DEF Types, TypeOK
<1>3. CASE FetchDepositsSince
  <2>1. cursor' = cursor /\ busy' = busy /\ stored' = stored /\ moduleBalance' = moduleBalance
    BY <1>3 DEF FetchDepositsSince, store
  <2>2. PICK p \in Seq([tx : Txs, height : Nat]) : p = Page(cursor)
    BY <1>2, PagePrefix
  <2>3. p # <<>> /\ queue' = [i \in DOMAIN p |-> FirstDeposit(p[i].tx)] /\ next' = p[Len(p)].height
    BY <1>3, <2>2 DEF FetchDepositsSince, Last
  <2>4. Found(p, cursor)
    BY <1>2, <2>2, PageFound
  <2>5. PICK m \in Nat : m = Len(p) /\ DOMAIN p = 1..m /\ m \in 1..m
    BY <2>2, <2>3
  <2>6. ASSUME NEW i \in 1..m
        PROVE  /\ p[i].height \in 0..Len(blocks)
               /\ FirstDeposit(p[i].tx) \in D /\ FirstDeposit(p[i].tx) \in DepositsOf(Txs)
    <3>1. PICK l \in Nat : l = Len(blocks) /\ DOMAIN blocks = 1..l
      BY DEF Types, TypeOK
    <3>2. p[i].height \in (cursor + 1)..l
      BY <2>4, <2>5, <3>1 DEF Found
    <3>3. p[i].height \in 1..l
      BY <1>2, <3>1, <3>2
    <3>4. PICK a \in DOMAIN blocks[p[i].height] : p[i].tx = blocks[p[i].height][a]
      BY <2>4, <2>5 DEF Found
    <3>5. FirstDeposit(p[i].tx) \in D /\ FirstDeposit(p[i].tx) \in DepositsOf(Txs)
      BY <3>1, <3>3, <3>4, InBlock
    <3> QED
      BY <3>1, <3>3, <3>5
  <2>7. next' \in 0..Len(blocks)
    BY <2>3, <2>5, <2>6
  <2> DEFINE F(i) == FirstDeposit(p[i].tx)
  <2>8. queue' = [i \in 1..m |-> F(i)]
    BY <2>3, <2>5
  <2> HIDE DEF F
  <2>9. queue' \in Seq(DepositsOf(Txs))
    <3>1. \A i \in 1..m : F(i) \in DepositsOf(Txs)
      BY <2>6 DEF F
    <3> QED
      BY <2>8, <3>1
  <2>10. Range(queue)' \subseteq D
    <3>1. \A i \in 1..m : F(i) \in D
      BY <2>6 DEF F
    <3> QED
      BY <2>8, <3>1 DEF Range
  <2> HIDE DEF D, A
  <2> QED
    BY <1>1, <1>2, <2>1, <2>7, <2>9, <2>10, SameChainTypes DEF D, A
<1>4. CASE IndexNext
  <2>1. cursor' = cursor /\ next' = next /\ queue # <<>> /\ queue' = Tail(queue)
        /\ busy' = [busy EXCEPT !["poller"] = Head(queue)]
        /\ stored' = stored \cup {Head(queue)} /\ moduleBalance' = moduleBalance + 1
    BY <1>4 DEF IndexNext, SaveDeposit
  <2>2. PICK m \in Nat : m = Len(queue) /\ DOMAIN queue = 1..m /\ m >= 1
    BY <1>2, <2>1
  <2>3. Head(queue) = queue[1] /\ queue[1] \in D
    BY <1>2, <2>1, <2>2 DEF Range
  <2>4. queue' \in Seq(DepositsOf(Txs)) /\ Len(queue') = m - 1 /\ DOMAIN queue' = 1..(m - 1)
        /\ \A i \in 1..(m - 1) : queue'[i] = queue[i + 1]
    BY <1>2, <2>1, <2>2
  <2>5. Range(queue)' \subseteq D
    <3>1. ASSUME NEW i \in 1..(m - 1) PROVE queue'[i] \in D
      <4>1. i + 1 \in DOMAIN queue
        BY <2>2
      <4> QED
        BY <1>2, <2>4, <4>1 DEF Range
    <3> QED
      BY <2>4, <3>1 DEF Range
  <2> HIDE DEF D, A
  <2>6. busy' \in [Callers -> D \cup {NoDeposit}]
    BY <1>2, <2>1, <2>3
  <2>7. moduleBalance' \in Nat /\ stored' \subseteq D
    BY <1>2, <2>1, <2>3
  <2> QED
    BY <1>1, <1>2, <2>1, <2>4, <2>5, <2>6, <2>7, SameChainTypes DEF D, A
<1>5. CASE AdvanceCursor
  <2>1. next' = 0 /\ queue' = queue /\ busy' = busy /\ stored' = stored
        /\ moduleBalance' = moduleBalance /\ cursor' = Max({cursor, next})
    BY <1>5 DEF AdvanceCursor, store
  <2>2. PICK l \in Nat : l = Len(blocks)
    BY DEF Types, TypeOK
  <2>3. \E x \in {cursor, next} : \A y \in {cursor, next} : x >= y
    BY <1>2, <2>2
  <2>4. Max({cursor, next}) \in {cursor, next}
    BY <2>3 DEF Max
  <2>5. cursor' \in 0..Len(blocks) /\ next' \in 0..Len(blocks)
    BY <1>2, <2>1, <2>2, <2>4
  <2>6. Range(queue)' = Range(queue)
    BY <2>1 DEF Range
  <2> HIDE DEF D, A
  <2> QED
    BY <1>1, <1>2, <2>1, <2>5, <2>6, SameChainTypes DEF D, A
<1> QED
  BY <1>3, <1>4, <1>5 DEF PollStep

\* The API's deposits keep the types.
LEMMA ApiTypes ==
    ASSUME Types, NEW t \in ApiTxs, ApiIndex(t) \/ ApiGiveUp(t)
    PROVE  Types'
<1> DEFINE D == DepositsOf(OnChain)
           A == {"waiting", "indexing", "done", "refused", "failed"}
<1>1. blocks' = blocks /\ cursor' = cursor /\ next' = next /\ queue' = queue
      /\ applied' = applied /\ recorded' = recorded
  BY DEF ApiIndex, ApiGiveUp, poll, settlement
<1>2. busy \in [Callers -> D \cup {NoDeposit}] /\ api \in [ApiTxs -> A]
      /\ stored \cup applied \cup recorded \subseteq D /\ Range(queue) \subseteq D
      /\ cursor \in 0..Len(blocks) /\ next \in 0..Len(blocks) /\ moduleBalance \in Nat
      /\ queue \in Seq(DepositsOf(Txs))
  BY DEF Types, TypeOK
<1>3. Range(queue)' = Range(queue)
  BY <1>1 DEF Range
<1>4. api' \in [ApiTxs -> A]
  BY <1>2 DEF ApiIndex, ApiGiveUp
<1>5. busy' \in [Callers -> D \cup {NoDeposit}] /\ stored' \subseteq D /\ moduleBalance' \in Nat
  <2>1. CASE ApiIndex(t)
    <3>1. t \in Txs /\ t \in OnChain
      BY <2>1, TxsAssumption DEF ApiIndex
    <3>2. FirstDeposit(t) \in D
      BY <3>1, FirstDepositOf DEF DepositsOf
    <3>3. busy' = [busy EXCEPT ![t] = FirstDeposit(t)] /\ stored' = stored \cup {FirstDeposit(t)}
          /\ moduleBalance' = moduleBalance + 1
      BY <2>1 DEF ApiIndex, SaveDeposit
    <3> HIDE DEF D, A
    <3>4. PICK d \in D : d = FirstDeposit(t)
      BY <3>2
    <3>5. busy' \in [Callers -> D \cup {NoDeposit}]
      BY <1>2, <3>3, <3>4
    <3>6. stored' \subseteq D
      BY <1>2, <3>3, <3>4
    <3>7. moduleBalance' \in Nat
      BY <1>2, <3>3
    <3> QED
      BY <3>5, <3>6, <3>7
  <2>2. CASE ApiGiveUp(t)
    BY <1>2, <2>2 DEF ApiGiveUp, store
  <2> QED
    BY <2>1, <2>2
<1> HIDE DEF D, A
<1> QED
  BY <1>1, <1>2, <1>3, <1>4, <1>5, SameChainTypes DEF D, A

\* A restart keeps the types.
LEMMA RestartTypes ==
    ASSUME Types, Restart
    PROVE  Types'
<1> DEFINE D == DepositsOf(OnChain)
           A == {"waiting", "indexing", "done", "refused", "failed"}
<1>1. recorded \subseteq D /\ api \in [ApiTxs -> A]
  BY DEF Types, TypeOK
<1>2. blocks' = blocks /\ cursor' = 0 /\ next' = 0 /\ queue' = <<>> /\ stored' = {}
      /\ moduleBalance' = 0 /\ recorded' = recorded /\ applied' \subseteq recorded
      /\ busy' = [c \in Callers |-> NoDeposit]
      /\ api' = [t \in ApiTxs |-> IF api[t] \in {"waiting", "indexing"} THEN "failed" ELSE api[t]]
  BY DEF Restart
<1>3. PICK l \in Nat : l = Len(blocks)
  BY DEF Types, TypeOK
<1>4. cursor' \in 0..Len(blocks) /\ next' \in 0..Len(blocks)
  BY <1>2, <1>3
<1>5. Range(queue)' \subseteq D
  BY <1>2 DEF Range
<1>6. api' \in [ApiTxs -> A]
  BY <1>1, <1>2
<1> HIDE DEF D, A
<1>7. queue' \in Seq(DepositsOf(Txs)) /\ busy' \in [Callers -> D \cup {NoDeposit}]
      /\ moduleBalance' \in Nat /\ stored' \cup applied' \cup recorded' \subseteq D
  BY <1>1, <1>2
<1> QED
  BY <1>2, <1>4, <1>5, <1>6, <1>7, SameChainTypes DEF D, A

\* Every step keeps the types.
LEMMA TypesStep ==
    Types /\ [Next]_vars => Types'
<1> SUFFICES ASSUME Types, [Next]_vars PROVE Types'
  OBVIOUS
<1>1. CASE CommitBlock
  BY <1>1, CommitBlockTypes
<1>2. CASE PollStep
  BY <1>2, PollTypes
<1>3. ASSUME NEW c \in Callers, IndexStep(c) \/ ApplyFault(c) PROVE Types'
  BY <1>3, IndexTypes
<1>4. ASSUME NEW t \in ApiTxs, ApiIndex(t) \/ ApiGiveUp(t) PROVE Types'
  BY <1>4, ApiTypes
<1>5. CASE Restart
  BY <1>5, RestartTypes
<1>6. CASE UNCHANGED vars
  <2>1. blocks' = blocks /\ cursor' = cursor /\ next' = next /\ queue' = queue
        /\ applied' = applied /\ recorded' = recorded /\ stored' = stored
        /\ busy' = busy /\ api' = api /\ moduleBalance' = moduleBalance
    BY <1>6 DEF vars, poll, store, settlement
  <2>2. Range(queue)' = Range(queue)
    BY <2>1 DEF Range
  <2> QED
    BY <2>1, <2>2, SameChainTypes DEF Types, TypeOK
<1> QED
  BY <1>1, <1>2, <1>3, <1>4, <1>5, <1>6 DEF Next

\* Every variable stays in its type: the cursor never passes the chain, and only
\* deposits the chain holds are indexed.
THEOREM TypeTheorem ==
    Spec => []TypeOK
<1>1. Types => TypeOK
  BY DEF Types
<1> QED
  BY <1>1, TypesInit, TypesStep, PTL DEF Spec

-----------------------------------------------------------------------------
(* The cursor leaves nothing behind *)

\* A transaction is in one block, once, and a block has at most BlockSize of them.
Blocks ==
    /\ \A g, h \in DOMAIN blocks : \A i \in DOMAIN blocks[g], j \in DOMAIN blocks[h] :
          blocks[g][i] = blocks[h][j] => g = h /\ i = j
    /\ \A h \in DOMAIN blocks : Len(blocks[h]) <= BlockSize

\* A poll reads whole blocks: one page holds every transaction there is, or a
\* block has one transaction only.
WholeBlocks ==
    \/ IsFiniteSet(Txs) /\ Cardinality(Txs) <= PerPage
    \/ BlockSize = 1

\* Every transaction has one deposit event.
OneDeposit == \A t \in Txs : Len(Events[t]) = 1

\* The deposits of a block.
Held(h) == DepositsOf(Range(blocks[h]))

\* What the poller has read is applied, queued or being indexed; what is below the
\* cursor is applied.
Covered ==
    /\ faults \in Nat
    /\ faults = 0 =>
          /\ \A h \in 1..cursor : Held(h) \subseteq applied
          /\ \A h \in 1..next : Held(h) \subseteq applied \cup Range(queue) \cup {busy["poller"]}

\* The element of tx_search's answer that stands for a transaction of a block.
LEMMA PlaceOf ==
    ASSUME Types, NEW height \in 0..Len(blocks), NEW n \in Nat, n = Len(blocks) - height,
           NEW at, NEW pos, Places(Above(height), Tagging(height), n, at, pos),
           NEW i \in 1..Len(Above(height))
    PROVE  /\ at[i] \in 1..n /\ height + at[i] \in DOMAIN blocks
           /\ pos[i] \in DOMAIN blocks[height + at[i]]
           /\ Above(height)[i].tx = blocks[height + at[i]][pos[i]]
           /\ Above(height)[i].height = height + at[i]
<1>1. at[i] \in 1..n /\ pos[i] \in 1..Len(Tagging(height)[at[i]])
      /\ Above(height)[i] = Tagging(height)[at[i]][pos[i]]
  BY DEF Places
<1>2. PICK k \in 1..n : k = at[i]
  BY <1>1
<1>3. height + k \in DOMAIN blocks
  <2>1. PICK l \in Nat : l = Len(blocks) /\ DOMAIN blocks = 1..l
    BY ChainShape
  <2> QED
    BY <1>2, <2>1
<1>4. PICK b \in Seq(Txs) : b = blocks[height + k]
  BY <1>3 DEF Types, TypeOK
<1>5. Tagging(height)[k] = [j \in DOMAIN b |-> [tx |-> b[j], height |-> height + k]]
  BY <1>4 DEF Tagging
<1>6. Len(Tagging(height)[k]) = Len(b)
  BY <1>4, <1>5
<1>7. pos[i] \in DOMAIN b
  <2>1. pos[i] \in 1..Len(b)
    BY <1>1, <1>2, <1>6
  <2> QED
    BY <1>4, <2>1
<1>8. Above(height)[i] = [tx |-> b[pos[i]], height |-> height + k]
  BY <1>1, <1>2, <1>5, <1>7
<1> QED
  BY <1>1, <1>2, <1>3, <1>4, <1>7, <1>8

\* The answer has no more transactions than there are.
LEMMA AboveBounded ==
    ASSUME Types, Blocks, NEW height \in 0..Len(blocks), IsFiniteSet(Txs)
    PROVE  Len(Above(height)) <= Cardinality(Txs)
<1> DEFINE R == [tx : Txs, height : Nat]
<1>1. PICK all \in Seq(R) : all = Above(height)
  BY AboveFlattens
<1>2. PICK L \in Nat : L = Len(all)
  BY <1>1
<1>3. PICK n \in Nat : n = Len(blocks) - height
  <2>1. PICK l \in Nat : l = Len(blocks)
    BY DEF Types, TypeOK
  <2>2. l - height \in Nat
    BY <2>1
  <2> QED
    BY <2>1, <2>2
<1>4. PICK at, pos : Places(Above(height), Tagging(height), n, at, pos)
  BY <1>3, AboveFlattens DEF Flattens
<1> DEFINE f == [i \in 1..L |-> all[i].tx]
<1>5. f \in [1..L -> Txs]
  <2>1. ASSUME NEW i \in 1..L PROVE all[i].tx \in Txs
    <3>1. all[i] \in R
      <4> HIDE DEF R
      <4> QED
        BY <1>1, <1>2
    <3> QED
      BY <3>1
  <2> QED
    BY <2>1
<1>6. ASSUME NEW i \in 1..L, NEW j \in 1..L, i < j, f[i] = f[j] PROVE FALSE
  <2>1. i \in 1..Len(Above(height)) /\ j \in 1..Len(Above(height))
    BY <1>1, <1>2
  <2>2. /\ at[i] \in 1..n /\ height + at[i] \in DOMAIN blocks
        /\ pos[i] \in DOMAIN blocks[height + at[i]]
        /\ all[i].tx = blocks[height + at[i]][pos[i]]
    BY <1>1, <1>3, <1>4, <2>1, PlaceOf
  <2>3. /\ at[j] \in 1..n /\ height + at[j] \in DOMAIN blocks
        /\ pos[j] \in DOMAIN blocks[height + at[j]]
        /\ all[j].tx = blocks[height + at[j]][pos[j]]
    BY <1>1, <1>3, <1>4, <2>1, PlaceOf
  <2>4. height + at[i] = height + at[j] /\ pos[i] = pos[j]
    <3>1. PICK g \in DOMAIN blocks : g = height + at[i]
      BY <2>2
    <3>2. PICK h \in DOMAIN blocks : h = height + at[j]
      BY <2>3
    <3>3. pos[i] \in DOMAIN blocks[g] /\ pos[j] \in DOMAIN blocks[h]
      BY <2>2, <2>3, <3>1, <3>2
    <3>4. blocks[g][pos[i]] = blocks[h][pos[j]]
      BY <1>6, <2>2, <2>3, <3>1, <3>2
    <3> QED
      BY <3>1, <3>2, <3>3, <3>4 DEF Blocks
  <2>5. at[i] = at[j]
    BY <2>2, <2>3, <2>4
  <2>6. at[i] < at[j] \/ (at[i] = at[j] /\ pos[i] < pos[j])
    BY <1>4, <1>6, <2>1 DEF Places
  <2>7. pos[i] \in Nat /\ pos[j] \in Nat
    BY <1>4, <2>1 DEF Places
  <2> QED
    BY <2>2, <2>4, <2>5, <2>6, <2>7
<1>7. IsFiniteSet(1..L) /\ Cardinality(1..L) = L
  BY FS_Interval
<1>8. Cardinality(Txs) \in Nat
  BY FS_CardinalityType
<1> SUFFICES ASSUME Cardinality(Txs) < L PROVE FALSE
  BY <1>1, <1>2, <1>8
<1> HIDE DEF f
<1>9. PICK x, y \in 1..L : x # y /\ f[x] = f[y]
  BY <1>5, <1>7, FS_PigeonHole
<1> QED
  BY <1>6, <1>9

\* The page has every transaction of the blocks above the height and up to the one
\* of its last transaction.
LEMMA PageWhole ==
    ASSUME Types, Blocks, WholeBlocks, NEW height \in 0..Len(blocks), Page(height) # <<>>,
           NEW h \in (height + 1)..Last(Page(height)).height, NEW a \in DOMAIN blocks[h]
    PROVE  \E i \in DOMAIN Page(height) : Page(height)[i].tx = blocks[h][a]
<1> DEFINE R == [tx : Txs, height : Nat]
<1>1. PICK all \in Seq(R) : all = Above(height)
  BY AboveFlattens
<1>2. PICK p \in Seq(R) : p = Page(height)
  BY PagePrefix
<1>3. PICK L \in Nat : L = Len(all)
  BY <1>1
<1>4. PICK m \in Nat : m = Len(p) /\ DOMAIN p = 1..m /\ m >= 1
  BY <1>2
<1>5. m = (IF L <= PerPage THEN L ELSE PerPage) /\ \A i \in 1..m : i \in 1..L /\ p[i] = all[i]
  BY <1>1, <1>2, <1>3, <1>4, PagePrefix
<1>6. PICK l \in Nat : l = Len(blocks) /\ DOMAIN blocks = 1..l
  BY ChainShape
<1>7. PICK n \in Nat : n = l - height
  <2>1. l - height \in Nat
    BY <1>6
  <2> QED
    BY <2>1
<1>8. PICK at, pos : Places(Above(height), Tagging(height), n, at, pos)
  BY <1>6, <1>7, AboveFlattens DEF Flattens
<1>9. ASSUME NEW i \in 1..L
      PROVE  /\ at[i] \in 1..n /\ height + at[i] \in DOMAIN blocks
             /\ pos[i] \in DOMAIN blocks[height + at[i]]
             /\ all[i].tx = blocks[height + at[i]][pos[i]]
             /\ all[i].height = height + at[i]
  <2>1. i \in 1..Len(Above(height)) /\ n = Len(blocks) - height
    BY <1>1, <1>3, <1>6, <1>7
  <2>2. /\ at[i] \in 1..n /\ height + at[i] \in DOMAIN blocks
        /\ pos[i] \in DOMAIN blocks[height + at[i]]
        /\ Above(height)[i].tx = blocks[height + at[i]][pos[i]]
        /\ Above(height)[i].height = height + at[i]
    BY <2>1, <1>8, PlaceOf
  <2> QED
    BY <2>2, <1>1
<1>10. m \in 1..L /\ Last(Page(height)) = all[m]
  BY <1>2, <1>4, <1>5 DEF Last
<1>11. h \in (height + 1)..(height + at[m]) /\ at[m] \in 1..n
  BY <1>9, <1>10
<1>12. PICK k \in 1..n : h = height + k /\ k <= at[m]
  BY <1>6, <1>7, <1>11
<1>13. h \in DOMAIN blocks
  BY <1>6, <1>7, <1>12
<1>14. PICK b \in Seq(Txs) : b = blocks[h]
  BY <1>13 DEF Types, TypeOK
<1>15. Len(Tagging(height)[k]) = Len(b) /\ a \in 1..Len(b)
  <2>1. Tagging(height)[k] = [j \in DOMAIN b |-> [tx |-> b[j], height |-> height + k]]
    BY <1>6, <1>7, <1>12, <1>14 DEF Tagging
  <2> QED
    BY <1>14, <2>1
<1>16. PICK i \in 1..L : at[i] = k /\ pos[i] = a
  <2>1. a \in 1..Len(Tagging(height)[k])
    BY <1>15
  <2>2. \E i \in 1..Len(Above(height)) : at[i] = k /\ pos[i] = a
    BY <1>8, <2>1 DEF Places
  <2> QED
    BY <1>1, <1>3, <2>2
<1>17. all[i].tx = blocks[h][a]
  BY <1>9, <1>12, <1>16
<1>18. i <= m
  <2>1. CASE IsFiniteSet(Txs) /\ Cardinality(Txs) <= PerPage
    <3>1. L <= Cardinality(Txs)
      BY <1>1, <1>3, <2>1, AboveBounded
    <3>2. Cardinality(Txs) \in Nat /\ PerPage \in Nat
      BY <2>1, FS_CardinalityType, TxsAssumption
    <3> QED
      BY <1>5, <2>1, <3>1, <3>2
  <2>2. CASE BlockSize = 1
    <3> SUFFICES ASSUME m < i PROVE FALSE
      OBVIOUS
    <3>1. at[m] < at[i] \/ (at[m] = at[i] /\ pos[m] < pos[i])
      BY <1>1, <1>3, <1>8, <1>10 DEF Places
    <3>2. pos[m] < a
      BY <1>11, <1>12, <1>16, <3>1
    <3>3. Len(b) <= 1
      BY <1>13, <1>14, <2>2 DEF Blocks
    <3>4. pos[m] \in Nat /\ pos[m] >= 1
      <4>1. at[m] \in 1..n /\ pos[m] \in DOMAIN blocks[height + at[m]] /\ height + at[m] \in DOMAIN blocks
        BY <1>9, <1>10
      <4>2. PICK g \in DOMAIN blocks : g = height + at[m]
        BY <4>1
      <4>3. pos[m] \in 1..Len(blocks[g]) /\ Len(blocks[g]) \in Nat
        BY <4>1, <4>2, ChainShape
      <4> QED
        BY <4>3
    <3>5. Len(b) \in Nat
      BY <1>14
    <3> QED
      BY <1>15, <3>2, <3>3, <3>4, <3>5
  <2> QED
    BY <2>1, <2>2 DEF WholeBlocks
<1>19. i \in DOMAIN p /\ p[i].tx = blocks[h][a]
  BY <1>4, <1>5, <1>17, <1>18
<1> QED
  BY <1>2, <1>19

\* The next block has new transactions only, each once.
LEMMA BlocksStep ==
    ASSUME Types, Blocks, [Next]_vars
    PROVE  Blocks'
<1>1. CASE CommitBlock
  <2>1. PICK block \in SeqOf(Txs \ OnChain, BlockSize) \ {<<>>} :
           IsInjective(block) /\ blocks' = Append(blocks, block)
    BY <1>1 DEF CommitBlock
  <2>2. block \in Seq(Txs \ OnChain) /\ Len(block) <= BlockSize
    BY <2>1, TxsAssumption, SeqOfBounded
  <2>3. PICK n \in Nat : n = Len(blocks) /\ DOMAIN blocks = 1..n
    BY ChainShape
  <2>4. /\ DOMAIN blocks' = 1..(n + 1) /\ blocks'[n + 1] = block
        /\ \A h \in 1..n : blocks'[h] = blocks[h]
    BY <2>1, <2>2, <2>3 DEF Types, TypeOK
  <2>5. \A i, j \in DOMAIN block : block[i] = block[j] => i = j
    BY <2>1 DEF IsInjective
  <2>6. ASSUME NEW h \in 1..n, NEW i \in DOMAIN blocks[h], NEW j \in DOMAIN block
        PROVE  blocks[h][i] # block[j]
    <3>1. blocks[h][i] \in OnChain
      BY <2>3 DEF OnChain, Range
    <3>2. block[j] \notin OnChain
      BY <2>2
    <3> QED
      BY <3>1, <3>2
  <2>7. ASSUME NEW g \in 1..(n + 1), NEW h \in 1..(n + 1),
               NEW i \in DOMAIN blocks'[g], NEW j \in DOMAIN blocks'[h],
               blocks'[g][i] = blocks'[h][j]
        PROVE  g = h /\ i = j
    <3>1. CASE g \in 1..n /\ h \in 1..n
      BY <2>3, <2>4, <2>7, <3>1 DEF Blocks
    <3>2. CASE g = n + 1 /\ h = n + 1
      BY <2>4, <2>5, <2>7, <3>2
    <3>3. CASE g \in 1..n /\ h = n + 1
      BY <2>4, <2>6, <2>7, <3>3
    <3>4. CASE g = n + 1 /\ h \in 1..n
      BY <2>4, <2>6, <2>7, <3>4
    <3> QED
      BY <3>1, <3>2, <3>3, <3>4
  <2>8. ASSUME NEW h \in 1..(n + 1) PROVE Len(blocks'[h]) <= BlockSize
    <3>1. CASE h \in 1..n
      BY <2>3, <2>4, <3>1 DEF Blocks
    <3>2. CASE h = n + 1
      BY <2>2, <2>4, <3>2
    <3> QED
      BY <3>1, <3>2
  <2> QED
    BY <2>4, <2>7, <2>8 DEF Blocks
<1>2. CASE blocks' = blocks
  BY <1>2 DEF Blocks
<1>3. CommitBlock \/ blocks' = blocks
  BY DEF Next, vars, PollStep, FetchDepositsSince, IndexNext, AdvanceCursor, IndexStep, Apply,
         RefuseReplay, ApplyFault, ApiIndex, ApiGiveUp, Restart
<1> QED
  BY <1>1, <1>2, <1>3

\* Nothing that has no deposit is a deposit of a block.
LEMMA HeldDeposits ==
    ASSUME Types, NEW h \in DOMAIN blocks
    PROVE  NoDeposit \notin Held(h)
<1>1. \A a \in DOMAIN blocks[h] : blocks[h][a] \in Txs
  BY DEF Types, TypeOK
<1> QED
  BY <1>1, TxsAssumption DEF Held, DepositsOf, Range

\* With one event in every transaction, a block's deposits are the first ones of
\* its transactions.
LEMMA HeldFirst ==
    ASSUME Types, OneDeposit, NEW h \in DOMAIN blocks, NEW d \in Held(h)
    PROVE  \E a \in DOMAIN blocks[h] : d = FirstDeposit(blocks[h][a])
<1>1. PICK a \in DOMAIN blocks[h] : d \in Range(Events[blocks[h][a]])
  BY DEF Held, DepositsOf, Range
<1>2. PICK t \in Txs : t = blocks[h][a]
  BY DEF Types, TypeOK
<1>3. PICK e \in Seq(Range(Events[t])) : e = Events[t] /\ Len(e) = 1
  BY <1>2, TxsAssumption DEF OneDeposit
<1>4. DOMAIN e = {1} /\ Head(e) = e[1]
  BY <1>3
<1>5. d = e[1]
  BY <1>1, <1>2, <1>3, <1>4 DEF Range
<1> QED
  BY <1>2, <1>3, <1>4, <1>5 DEF FirstDeposit

\* A poll keeps what it has read covered.
LEMMA PollCovered ==
    ASSUME Types, Blocks, Covered, WholeBlocks, OneDeposit, PollStep
    PROVE  Covered'
<1>1. blocks' = blocks /\ applied' = applied /\ faults' = faults
  BY DEF PollStep, FetchDepositsSince, IndexNext, AdvanceCursor, settlement
<1>2. \A h : Held(h)' = Held(h)
  BY <1>1 DEF Held, DepositsOf
<1>3. faults \in Nat
  BY DEF Covered
<1>4. PICK l \in Nat : l = Len(blocks) /\ DOMAIN blocks = 1..l
  BY ChainShape
<1>5. cursor \in 0..l /\ next \in 0..l /\ queue \in Seq(DepositsOf(Txs))
      /\ busy \in [Callers -> DepositsOf(OnChain) \cup {NoDeposit}]
  BY <1>4 DEF Types, TypeOK
<1> SUFFICES ASSUME faults = 0
             PROVE  /\ \A h \in 1..cursor' : Held(h) \subseteq applied
                    /\ \A h \in 1..next' : Held(h) \subseteq applied \cup Range(queue') \cup {busy'["poller"]}
  BY <1>1, <1>2, <1>3 DEF Covered
<1>6. \A h \in 1..cursor : Held(h) \subseteq applied
  BY DEF Covered
<1>7. \A h \in 1..next : Held(h) \subseteq applied \cup Range(queue) \cup {busy["poller"]}
  BY DEF Covered
<1>8. CASE FetchDepositsSince
  <2>1. PICK p \in Seq([tx : Txs, height : Nat]) : p = Page(cursor)
    BY <1>4, <1>5, PagePrefix
  <2>2. cursor' = cursor /\ p # <<>> /\ queue' = [i \in DOMAIN p |-> FirstDeposit(p[i].tx)]
        /\ next' = Last(p).height
    BY <1>8, <2>1 DEF FetchDepositsSince
  <2>3. Types'
    BY PollTypes
  <2>4. next' \in 0..l
    BY <1>1, <1>4, <2>3 DEF Types, TypeOK
  <2>5. ASSUME NEW h \in 1..next', NEW d \in Held(h) PROVE d \in applied \cup Range(queue')
    <3>1. CASE h <= cursor
      BY <1>5, <1>6, <2>4, <2>5, <3>1
    <3>2. CASE h > cursor
      <4>1. h \in (cursor + 1)..Last(p).height /\ h \in DOMAIN blocks
        BY <1>4, <1>5, <2>2, <2>4, <3>2
      <4>2. PICK a \in DOMAIN blocks[h] : d = FirstDeposit(blocks[h][a])
        BY <2>5, <4>1, HeldFirst
      <4>3. \E i \in DOMAIN p : p[i].tx = blocks[h][a]
        BY <1>4, <1>5, <2>1, <2>2, <4>1, PageWhole
      <4>4. PICK i \in DOMAIN p : p[i].tx = blocks[h][a]
        BY <4>3
      <4>5. i \in DOMAIN queue' /\ queue'[i] = d
        BY <2>2, <4>2, <4>4
      <4> QED
        BY <4>5 DEF Range
    <3> QED
      BY <1>5, <2>4, <3>1, <3>2
  <2> QED
    BY <1>6, <2>2, <2>5
<1>9. CASE IndexNext
  <2>1. cursor' = cursor /\ next' = next /\ queue # <<>> /\ queue' = Tail(queue)
        /\ busy["poller"] = NoDeposit /\ busy' = [busy EXCEPT !["poller"] = Head(queue)]
    BY <1>9 DEF IndexNext, SaveDeposit
  <2>2. busy'["poller"] = Head(queue)
    BY <1>5, <2>1 DEF Callers
  <2>3. Range(queue) \subseteq Range(queue') \cup {Head(queue)}
    <3>1. PICK m \in Nat : m = Len(queue) /\ DOMAIN queue = 1..m /\ m >= 1
      BY <1>5, <2>1
    <3>2. Head(queue) = queue[1] /\ DOMAIN queue' = 1..(m - 1)
          /\ \A i \in 1..(m - 1) : queue'[i] = queue[i + 1]
      BY <1>5, <2>1, <3>1
    <3>3. ASSUME NEW i \in 1..m, i # 1 PROVE queue[i] \in Range(queue')
      <4>1. i - 1 \in DOMAIN queue' /\ queue'[i - 1] = queue[i]
        BY <3>1, <3>2, <3>3
      <4> QED
        BY <4>1 DEF Range
    <3> QED
      BY <3>1, <3>2, <3>3 DEF Range
  <2>4. ASSUME NEW h \in 1..next, NEW d \in Held(h)
        PROVE  d \in applied \cup Range(queue') \cup {Head(queue)}
    <3>1. d # NoDeposit
      BY <1>4, <1>5, <2>4, HeldDeposits
    <3> QED
      BY <1>7, <2>1, <2>3, <2>4, <3>1
  <2> QED
    BY <1>6, <2>1, <2>2, <2>4
<1>10. CASE AdvanceCursor
  <2>1. next' = 0 /\ queue = <<>> /\ busy["poller"] = NoDeposit /\ cursor' = Max({cursor, next})
    BY <1>10 DEF AdvanceCursor
  <2>2. \E x \in {cursor, next} : \A y \in {cursor, next} : x >= y
    BY <1>5
  <2>3. cursor' \in {cursor, next}
    BY <2>1, <2>2 DEF Max
  <2>4. ASSUME NEW h \in 1..next, NEW d \in Held(h) PROVE d \in applied
    <3>1. d # NoDeposit
      BY <1>4, <1>5, <2>4, HeldDeposits
    <3>2. Range(queue) = {}
      BY <2>1 DEF Range
    <3> QED
      BY <1>7, <2>1, <2>4, <3>1, <3>2
  <2> QED
    BY <1>6, <2>1, <2>3, <2>4
<1> QED
  BY <1>8, <1>9, <1>10 DEF PollStep

\* The end of a call of the indexer: the poller's deposit is applied by then,
\* unless the database failed.
LEMMA IndexCovered ==
    ASSUME Types, Covered, NEW c \in Callers, IndexStep(c) \/ ApplyFault(c)
    PROVE  Covered'
<1>1. blocks' = blocks /\ cursor' = cursor /\ next' = next /\ queue' = queue
  BY DEF IndexStep, Apply, RefuseReplay, ApplyFault, poll
<1>2. \A h : Held(h)' = Held(h)
  BY <1>1 DEF Held, DepositsOf
<1>3. faults \in Nat /\ busy \in [Callers -> DepositsOf(OnChain) \cup {NoDeposit}]
  BY DEF Covered, Types, TypeOK
<1>4. CASE ApplyFault(c)
  BY <1>3, <1>4 DEF ApplyFault, Covered
<1>5. CASE IndexStep(c)
  <2>1. faults' = faults /\ busy' = [busy EXCEPT ![c] = NoDeposit]
    BY <1>5 DEF IndexStep, Apply, RefuseReplay
  <2>2. applied \subseteq applied' /\ busy[c] \in applied'
    BY <1>5 DEF IndexStep, Apply, RefuseReplay, settlement
  <2>3. busy["poller"] \in applied' \cup {busy'["poller"]}
    BY <1>3, <2>1, <2>2 DEF Callers
  <2>4. Range(queue') = Range(queue)
    BY <1>1
  <2>5. ASSUME faults = 0
        PROVE  /\ \A h \in 1..cursor : Held(h) \subseteq applied'
               /\ \A h \in 1..next : Held(h) \subseteq applied' \cup Range(queue') \cup {busy'["poller"]}
    <3>1. /\ \A h \in 1..cursor : Held(h) \subseteq applied
          /\ \A h \in 1..next : Held(h) \subseteq applied \cup Range(queue) \cup {busy["poller"]}
      BY <2>5 DEF Covered
    <3> QED
      BY <2>2, <2>3, <2>4, <3>1
  <2> QED
    BY <1>1, <1>2, <1>3, <2>1, <2>5 DEF Covered
<1> QED
  BY <1>4, <1>5

\* The other steps take nothing away that is covered.
LEMMA OtherCovered ==
    ASSUME Types, Covered,
           \/ CommitBlock
           \/ \E t \in ApiTxs : ApiIndex(t) \/ ApiGiveUp(t)
           \/ Restart
           \/ UNCHANGED vars
    PROVE  Covered'
<1>1. PICK l \in Nat : l = Len(blocks) /\ DOMAIN blocks = 1..l
  BY ChainShape
<1>2. cursor \in 0..l /\ next \in 0..l /\ faults \in Nat
      /\ busy \in [Callers -> DepositsOf(OnChain) \cup {NoDeposit}]
  BY <1>1 DEF Types, TypeOK, Covered
<1>3. ASSUME blocks' = blocks \/ CommitBlock PROVE \A h \in 1..l : Held(h)' = Held(h)
  <2>1. ASSUME NEW h \in 1..l PROVE blocks'[h] = blocks[h]
    <3>1. CASE CommitBlock
      <4>1. PICK b : blocks' = Append(blocks, b)
        BY <3>1 DEF CommitBlock
      <4>2. blocks \in Seq(Seq(Txs))
        BY DEF Types, TypeOK
      <4> QED
        BY <1>1, <4>1, <4>2
    <3> QED
      BY <1>3, <3>1
  <2> QED
    BY <2>1 DEF Held, DepositsOf
<1>4. CASE Restart
  <2>1. cursor' = 0 /\ next' = 0 /\ faults' = faults
    BY <1>4 DEF Restart
  <2> QED
    BY <1>2, <2>1 DEF Covered
<1>5. ASSUME CommitBlock \/ (\E t \in ApiTxs : ApiIndex(t) \/ ApiGiveUp(t)) \/ UNCHANGED vars
      PROVE  Covered'
  <2>1. cursor' = cursor /\ next' = next /\ queue' = queue /\ applied' = applied /\ faults' = faults
    BY <1>5 DEF CommitBlock, ApiIndex, ApiGiveUp, vars, poll, settlement
  <2>2. \A h \in 1..l : Held(h)' = Held(h)
    <3>1. blocks' = blocks \/ CommitBlock
      BY <1>5 DEF ApiIndex, ApiGiveUp, vars
    <3> QED
      BY <1>3, <3>1
  <2>3. busy["poller"] = NoDeposit \/ busy'["poller"] = busy["poller"]
    <3>1. CASE \E t \in ApiTxs : ApiIndex(t)
      <4>1. PICK t \in ApiTxs : busy[t] = NoDeposit /\ busy' = [busy EXCEPT ![t] = FirstDeposit(t)]
        BY <3>1 DEF ApiIndex, SaveDeposit
      <4> QED
        BY <1>2, <4>1 DEF Callers
    <3>2. CASE ~ \E t \in ApiTxs : ApiIndex(t)
      BY <1>5, <3>2 DEF CommitBlock, ApiGiveUp, vars
    <3> QED
      BY <3>1, <3>2
  <2>4. ASSUME faults = 0
        PROVE  /\ \A h \in 1..cursor : Held(h)' \subseteq applied
               /\ \A h \in 1..next : Held(h)' \subseteq applied \cup Range(queue) \cup {busy'["poller"]}
    <3>1. /\ \A h \in 1..cursor : Held(h) \subseteq applied
          /\ \A h \in 1..next : Held(h) \subseteq applied \cup Range(queue) \cup {busy["poller"]}
      BY <2>4 DEF Covered
    <3>2. \A h \in 1..l : NoDeposit \notin Held(h)
      BY <1>1, HeldDeposits
    <3>3. \A h \in 1..cursor : h \in 1..l
      BY <1>2
    <3>4. \A h \in 1..next : h \in 1..l
      BY <1>2
    <3> QED
      BY <2>2, <2>3, <3>1, <3>2, <3>3, <3>4
  <2>5. Range(queue') = Range(queue)
    BY <2>1
  <2> QED
    BY <1>2, <2>1, <2>4, <2>5 DEF Covered
<1> QED
  BY <1>4, <1>5

\* The poller's cursor leaves no deposit behind while the database works, whatever
\* the API callers index first, whenever the process restarts and however the
\* blocks come, for transactions of one deposit and polls that read whole blocks.
THEOREM CursorTheorem ==
    ASSUME OneDeposit, WholeBlocks
    PROVE  Spec => []CursorCovers
<1> DEFINE Inv == Types /\ Blocks /\ Covered
<1>1. Init => Inv
  <2> SUFFICES ASSUME Init PROVE Inv
    OBVIOUS
  <2>1. Types
    BY TypesInit
  <2>2. Blocks
    BY DEF Init, Blocks
  <2>3. Covered
    BY DEF Init, Covered
  <2> QED
    BY <2>1, <2>2, <2>3
<1>2. Inv /\ [Next]_vars => Inv'
  <2> SUFFICES ASSUME Types, Blocks, Covered, [Next]_vars PROVE Inv'
    OBVIOUS
  <2>1. Types'
    BY TypesStep
  <2>2. Blocks'
    BY BlocksStep
  <2>3. CASE PollStep
    BY <2>1, <2>2, <2>3, PollCovered
  <2>4. CASE \E c \in Callers : IndexStep(c) \/ ApplyFault(c)
    BY <2>1, <2>2, <2>4, IndexCovered
  <2>5. CASE \/ CommitBlock
             \/ \E t \in ApiTxs : ApiIndex(t) \/ ApiGiveUp(t)
             \/ Restart
             \/ UNCHANGED vars
    BY <2>1, <2>2, <2>5, OtherCovered
  <2> QED
    BY <2>3, <2>4, <2>5 DEF Next
<1>3. Inv => CursorCovers
  BY DEF Covered, CursorCovers, Held
<1> HIDE DEF Inv
<1> QED
  BY <1>1, <1>2, <1>3, PTL DEF Spec
=============================================================================
