-------------------------- MODULE SettlementProofs --------------------------
(***************************************************************************)
(* What each step of Settlement does to rows, handlers, drivers and roots, *)
(* and that the cursor's committed root is always one the chain has held,  *)
(* for any number of handlers, drivers, faults and restarts.               *)
(*                                                                         *)
(* What its batches contain, under the same generality: the operations of  *)
(* a batch are recorded rows, chained and with one withdrawal at most, and *)
(* what the database offers for claim the chain has settled.  And, with    *)
(* one request handler, the root the chain holds is the root of exactly    *)
(* the operations it has settled (vio_concurrent_root shows that this      *)
(* fails with two).                                                        *)
(***************************************************************************)
EXTENDS Settlement, LocalStateProofs

-----------------------------------------------------------------------------
(* What the pending list, the walk along the root chain and the            *)
(* one-withdrawal bound compute, for every sequence of rows                *)

\* f[n] lists the pending rows of a kind among the first n.
ListsUpTo(f, S, r, kind) ==
    /\ f[0] = <<>>
    /\ \A n \in 0..Len(r) : f[n] \in Seq({x \in S : x.kind = kind /\ x.status = "pending"})
    /\ \A n \in 0..Len(r) : n # 0 =>
          f[n] = IF r[n].kind = kind /\ r[n].status = "pending" THEN Append(f[n - 1], r[n])
                                                                ELSE f[n - 1]

\* ListPendingSettlement goes through the rows in order.
LEMMA ListPendingRecurs ==
    ASSUME NEW S, NEW r \in Seq(S), NEW kind
    PROVE  \E f : ListPending(r, kind) = f[Len(r)] /\ ListsUpTo(f, S, r, kind)
<1> DEFINE W == {x \in S : x.kind = kind /\ x.status = "pending"}
           Q == Seq(W)
           N == Len(r)
           Step(n, s) == IF r[n].kind = kind /\ r[n].status = "pending"
                         THEN Append(s, r[n]) ELSE s
           Def(g) == [n \in 0..N |-> IF n = 0 THEN <<>> ELSE Step(n, g[n - 1])]
           list == CHOOSE g : g = Def(g)
           step == [n \in 1..N |-> [s \in Q |-> Step(n, s)]]
<1>1. N \in Nat /\ <<>> \in Q
  OBVIOUS
<1>2. ASSUME NEW n \in 1..N, NEW s \in Q PROVE Step(n, s) \in Q
  <2>1. r[n] \in S
    OBVIOUS
  <2>2. r[n].kind = kind /\ r[n].status = "pending" => r[n] \in W
    BY <2>1
  <2> HIDE DEF W
  <2> QED
    BY <2>2
<1>3. ListPending(r, kind) = list[N]
  BY DEF ListPending
<1> HIDE DEF W, Q, N, Step
<1>4. step \in [1..N -> [Q -> Q]]
  BY <1>2
<1>5. \E f : f = Def(f)
  <2> DEFINE b == <<>>
  <2>1. b \in Q
    BY <1>1
  <2> HIDE DEF step, b
  <2>2. PICK f : Recurs(f, N, Q, b, step)
    BY <1>1, <1>4, <2>1, Recursion
  <2>3. f = Def(f)
    <3>1. ASSUME NEW n \in 1..N PROVE f[n] = Step(n, f[n - 1])
      <4>1. f[n - 1] \in Q /\ f[n] = step[n][f[n - 1]]
        BY <1>1, <2>2 DEF Recurs
      <4> QED
        BY <4>1 DEF step
    <3> QED
      BY <1>1, <2>2, <3>1 DEF Recurs, b
  <2> HIDE DEF Def
  <2> QED
    BY <2>3
<1>6. list = Def(list)
  <2> HIDE DEF Def
  <2> QED
    BY <1>5
<1> HIDE DEF list, step
<1> DEFINE T == {n \in 0..N : list[n] \in Q}
<1>7. 0 \in T
  BY <1>1, <1>6
<1>8. ASSUME NEW n \in 0..N, n < N, n \in T PROVE n + 1 \in T
  BY <1>1, <1>2, <1>6, <1>8
<1> HIDE DEF T
<1>9. \A n \in 0..N : n \in T
  BY <1>1, <1>7, <1>8, SetInduction
<1>10. \A n \in 0..N : list[n] \in Q
  BY <1>9 DEF T
<1>11. list[0] = <<>> /\ \A n \in 0..N : n # 0 => list[n] = Step(n, list[n - 1])
  BY <1>1, <1>6
<1>12. ListsUpTo(list, S, r, kind)
  BY <1>10, <1>11 DEF ListsUpTo, Q, W, N, Step
<1> QED
  BY <1>3, <1>12 DEF N

\* It returns rows of the table, of the kind asked for and pending.
LEMMA ListPendingType ==
    ASSUME NEW S, NEW r \in Seq(S), NEW kind
    PROVE  ListPending(r, kind) \in Seq({x \in S : x.kind = kind /\ x.status = "pending"})
<1>1. PICK f : ListPending(r, kind) = f[Len(r)] /\ ListsUpTo(f, S, r, kind)
  BY ListPendingRecurs
<1>2. Len(r) \in 0..Len(r)
  OBVIOUS
<1> QED
  BY <1>1, <1>2 DEF ListsUpTo

\* A sequence of transitions that starts at root and in which each one starts
\* where the one before it ended.
ChainsFrom(ops, root) ==
    \A i \in 1..Len(ops) :
        ops[i].rootBefore = IF i = 1 THEN root ELSE ops[i - 1].rootAfter

\* Where a walk from root has come to, and that it has taken n steps or cannot go on.
WalkEnd(s, root) == IF s = <<>> THEN root ELSE s[Len(s)].rootAfter

WalkDone(s, n, p, root) ==
    /\ Len(s) \in Nat /\ Len(s) <= n
    /\ Len(s) = n \/ Follows(p, WalkEnd(s, root)) = {}

\* orderPendingTransitions returns listed rows, each starting at the root where the
\* one before it ends, the first at the committed root; it takes as many as were listed
\* or ends where none of them starts.
LEMMA OrderPendingChains ==
    ASSUME NEW S, NEW p \in Seq(S), NEW root
    PROVE  /\ OrderPending(root, p) \in Seq({p[i] : i \in DOMAIN p})
           /\ ChainsFrom(OrderPending(root, p), root)
           /\ WalkDone(OrderPending(root, p), Len(p), p, root)
<1> DEFINE E == {p[i] : i \in DOMAIN p}
           Q == {s \in Seq(E) : ChainsFrom(s, root)}
           N == Len(p)
           End(s) == WalkEnd(s, root)
           Pick(s) == p[CHOOSE i \in Follows(p, End(s)) : TRUE]
           Step(n, s) == IF Len(s) < n - 1 \/ Follows(p, End(s)) = {} THEN s
                         ELSE Append(s, Pick(s))
           Def(g) == [n \in 0..N |-> IF n = 0 THEN <<>> ELSE Step(n, g[n - 1])]
           walk == CHOOSE g : g = Def(g)
           step == [n \in 1..N |-> [s \in Q |-> Step(n, s)]]
<1>1. N \in Nat /\ <<>> \in Q
  BY DEF ChainsFrom
<1>2. ASSUME NEW n \in 1..N, NEW s \in Q PROVE Step(n, s) \in Q
  <2> DEFINE e == Pick(s)
  <2>1. SUFFICES ASSUME Follows(p, End(s)) # {} PROVE Append(s, e) \in Q
    OBVIOUS
  <2>2. e \in E /\ e.rootBefore = End(s)
    BY <2>1 DEF Follows
  <2>3. s \in Seq(E) /\ ChainsFrom(s, root)
    OBVIOUS
  <2>4. End(s) = IF Len(s) = 0 THEN root ELSE s[Len(s)].rootAfter
    BY <2>3 DEF WalkEnd
  <2> HIDE DEF E, e, End
  <2>5. Append(s, e) \in Seq(E)
    BY <2>2, <2>3
  <2>6. ASSUME NEW i \in 1..Len(Append(s, e))
        PROVE  Append(s, e)[i].rootBefore
                 = IF i = 1 THEN root ELSE Append(s, e)[i - 1].rootAfter
    <3>1. CASE i = Len(s) + 1
      BY <3>1, <2>2, <2>3, <2>4
    <3>2. CASE i \in 1..Len(s)
      BY <3>2, <2>2, <2>3 DEF ChainsFrom
    <3> QED
      BY <3>1, <3>2, <2>2, <2>3
  <2> QED
    BY <2>5, <2>6 DEF ChainsFrom
<1>3. OrderPending(root, p) = walk[N]
  BY DEF OrderPending, WalkEnd
<1> DEFINE Done(s, n) == WalkDone(s, n, p, root)
<1>12. ASSUME NEW n \in 1..N, NEW s \in Q, Done(s, n - 1) PROVE Done(Step(n, s), n)
  <2>1. /\ Len(s) \in Nat /\ Len(s) <= n - 1
        /\ Len(s) = n - 1 \/ Follows(p, End(s)) = {}
    BY <1>12 DEF WalkDone
  <2>2. CASE Len(s) < n - 1 \/ Follows(p, End(s)) = {}
    <3>1. Step(n, s) = s /\ Follows(p, End(s)) = {}
      BY <2>1, <2>2
    <3> HIDE DEF Step
    <3> QED
      BY <2>1, <3>1 DEF WalkDone
  <2>3. CASE ~(Len(s) < n - 1 \/ Follows(p, End(s)) = {})
    <3> DEFINE e == Pick(s)
    <3>1. Step(n, s) = Append(s, e)
      BY <2>3
    <3> HIDE DEF Step, e, Q, N
    <3>2. Len(Append(s, e)) = n
      <4>1. s \in Seq(E)
        BY DEF Q
      <4>2. Len(Append(s, e)) = Len(s) + 1
        BY <4>1
      <4> QED
        BY <1>1, <2>1, <2>3, <4>2
    <3> QED
      BY <1>1, <3>1, <3>2 DEF WalkDone
  <2> QED
    BY <2>2, <2>3
<1>13. Done(<<>>, 0)
  BY DEF WalkDone
<1> HIDE DEF E, Q, N, Step, Done, End
<1>4. step \in [1..N -> [Q -> Q]]
  BY <1>2
<1>5. \E f : f = Def(f)
  <2> DEFINE b == <<>>
  <2>1. b \in Q
    BY <1>1
  <2> HIDE DEF step, b
  <2>2. PICK f : Recurs(f, N, Q, b, step)
    BY <1>1, <1>4, <2>1, Recursion
  <2>3. f = Def(f)
    <3>1. ASSUME NEW n \in 1..N PROVE f[n] = Step(n, f[n - 1])
      <4>1. f[n - 1] \in Q /\ f[n] = step[n][f[n - 1]]
        BY <1>1, <2>2 DEF Recurs
      <4> QED
        BY <4>1 DEF step
    <3> QED
      BY <1>1, <2>2, <3>1 DEF Recurs, b
  <2> HIDE DEF Def
  <2> QED
    BY <2>3
<1>6. walk = Def(walk)
  <2> HIDE DEF Def
  <2> QED
    BY <1>5
<1> HIDE DEF walk, step
<1> DEFINE T == {n \in 0..N : walk[n] \in Q /\ Done(walk[n], n)}
<1>7. 0 \in T
  BY <1>1, <1>6, <1>13
<1>8. ASSUME NEW n \in 0..N, n < N, n \in T PROVE n + 1 \in T
  <2>1. PICK m \in 1..N : m = n + 1 /\ m - 1 = n
    BY <1>1, <1>8
  <2>2. walk[m] = Step(m, walk[n]) /\ walk[n] \in Q /\ Done(walk[n], m - 1)
    BY <1>6, <1>8, <2>1
  <2>3. walk[m] \in Q /\ Done(walk[m], m)
    BY <1>2, <1>12, <2>2
  <2> QED
    BY <1>1, <2>1, <2>3
<1> HIDE DEF T
<1>9. \A n \in 0..N : n \in T
  BY <1>1, <1>7, <1>8, SetInduction
<1>10. walk[N] \in Q /\ Done(walk[N], N)
  BY <1>1, <1>9 DEF T
<1> QED
  BY <1>3, <1>10 DEF Q, E, Done, N

\* At most the last transition is a withdrawal.
OneWithdrawal(ops) == \A i \in 1..Len(ops) : ops[i].kind = "withdrawal" => i = Len(ops)

\* boundSingleWithdrawalPrefix returns a non-empty prefix with at most one withdrawal.
LEMMA BoundIsPrefix ==
    ASSUME NEW S, NEW o \in Seq(S), o # <<>>
    PROVE  LET t == BoundSingleWithdrawalPrefix(o)
           IN  /\ t \in Seq(S)
               /\ Len(t) \in 1..Len(o)
               /\ \A i \in 1..Len(t) : t[i] = o[i]
               /\ OneWithdrawal(t)
<1> DEFINE W == {i \in DOMAIN o : o[i].kind = "withdrawal"}
           t == BoundSingleWithdrawalPrefix(o)
<1>1. Len(o) \in Nat /\ Len(o) >= 1 /\ DOMAIN o = 1..Len(o)
  OBVIOUS
<1>2. CASE W = {}
  <2>1. t = o
    BY <1>2 DEF BoundSingleWithdrawalPrefix
  <2>2. OneWithdrawal(o)
    BY <1>1, <1>2 DEF OneWithdrawal
  <2>3. Len(o) \in 1..Len(o)
    BY <1>1
  <2> HIDE DEF t
  <2> QED
    BY <2>1, <2>2, <2>3 DEF t
<1>3. CASE W # {}
  <2> DEFINE m == Min(W)
  <2>1. W \in SUBSET Nat
    BY <1>1
  <2>2. \E n \in W : \A k \in W : n <= k
    <3> HIDE DEF W
    <3> QED
      BY <1>3, <2>1, LeastElement
  <2>3. m \in W /\ \A k \in W : m <= k
    <3> HIDE DEF W
    <3> QED
      BY <2>2 DEF Min
  <2>4. t = SubSeq(o, 1, m)
    BY <1>3 DEF BoundSingleWithdrawalPrefix
  <2>5. m \in 1..Len(o)
    BY <1>1, <2>3
  <2> HIDE DEF m, t
  <2>6. t \in Seq(S) /\ Len(t) = m /\ \A i \in 1..m : t[i] = o[i]
    BY <2>4, <2>5
  <2>7. OneWithdrawal(t)
    <3> SUFFICES ASSUME NEW i \in 1..m, o[i].kind = "withdrawal" PROVE i = m
      BY <2>5, <2>6 DEF OneWithdrawal
    <3>1. i \in W
      BY <1>1, <2>5
    <3> QED
      BY <2>3, <2>5, <3>1
  <2> QED
    BY <2>5, <2>6, <2>7 DEF t
<1> QED
  BY <1>2, <1>3

\* The transitions of a pass are pending rows, chain up from the committed root
\* and have no withdrawal before the last one.
LEMMA TransitionsChain ==
    ASSUME NEW S, NEW p \in Seq(S), p # <<>>, NEW root, CanOrder(root, p)
    PROVE  LET t == BoundSingleWithdrawalPrefix(OrderPending(root, p))
           IN  /\ t \in Seq({p[i] : i \in DOMAIN p})
               /\ Len(t) >= 1
               /\ ChainsFrom(t, root)
               /\ OneWithdrawal(t)
<1> DEFINE E == {p[i] : i \in DOMAIN p}
           o == OrderPending(root, p)
           t == BoundSingleWithdrawalPrefix(o)
<1>1. o \in Seq(E) /\ ChainsFrom(o, root)
  BY OrderPendingChains
<1>2. Len(o) = Len(p) /\ Len(p) >= 1
  BY DEF CanOrder
<1> HIDE DEF E, o
<1>3. o # <<>>
  BY <1>1, <1>2
<1>4. /\ t \in Seq(E)
      /\ Len(t) \in 1..Len(o)
      /\ \A i \in 1..Len(t) : t[i] = o[i]
      /\ OneWithdrawal(t)
  BY <1>1, <1>3, BoundIsPrefix
<1> HIDE DEF t
<1>5. ChainsFrom(t, root)
  BY <1>1, <1>4 DEF ChainsFrom
<1>6. Len(t) >= 1
  BY <1>1, <1>4
<1> QED
  BY <1>4, <1>5, <1>6 DEF t, o, E

-----------------------------------------------------------------------------
(* The invariant *)

\* What the variables and the locals range over.
Nullifier == [secret : {DefaultSecret}, nonce : Nat]

\* The manager's state.
State == [accounts : [Accounts -> Account], root : Root,
          appliedDeposits : SUBSET Deposits, appliedNullifiers : SUBSET Nullifier]

\* A row of either table: a deposit has the id of a deposit, a withdrawal a number.
DbRow == {r \in Row : IF r.kind = "deposit" THEN r.id \in Deposits ELSE r.id \in Nat}

\* A built batch, a submitted one, and the locals of a handler and of a driver.
Batch == [id : Nat, old : Root, new : Root, ops : Seq(DbRow)]

Tx == [batch : Batch, status : {"mempool", "accepted", "rejected"}]

HandlerState ==
    {IdleHandler} \cup [pc : HandlerPC \ {"idle"}, row : DbRow, pendingRoot : Root,
                        seen : Cursor \cup {NoCursor}]

DriverState ==
    {IdleDriver} \cup [pc : DriverPC \ {"idle"}, seen : Cursor, pending : Seq(DbRow),
                       batch : Batch, tx : Nat]

\* Every variable has its type; a handler past the lookup has a cursor to read, and
\* only a withdrawal has a request to save.
Types ==
    /\ ls \in State
    /\ batchSeq \in Nat
    /\ handler \in [Handlers -> HandlerState]
    /\ driver \in [Drivers -> DriverState]
    /\ rows \in Seq(DbRow)
    /\ cursor \in Cursor \cup {NoCursor}
    /\ wdSeq \in 0..MaxWithdrawals
    /\ txs \in Seq(Tx)
    /\ chain.roots \in Seq(Root)
    /\ \A h \in Handlers :
          /\ handler[h].pc \notin {"idle", "initCursor"} => cursor \in Cursor
          /\ handler[h].pc = "writeCursor" => handler[h].seen \in Cursor
          /\ handler[h].pc = "request" => handler[h].row.kind = "withdrawal"

\* A driver past the broadcast waits for the tx of its own batch, and one that
\* records or commits has seen it accepted.
Submitted ==
    \A d \in Drivers :
        /\ driver[d].pc \in {"wait", "record", "commit", "commitCursor"}
             => driver[d].tx \in DOMAIN txs /\ txs[driver[d].tx].batch = driver[d].batch
        /\ driver[d].pc \in {"record", "commit", "commitCursor"}
             => txs[driver[d].tx].status = "accepted"

\* Every committed root that a process has read or is about to write is one the
\* chain has held.  Before there is a cursor no operation has been applied.
RootsOnChain ==
    LET held == Range(chain.roots) IN
    /\ GenesisRoot \in held
    /\ cursor \in Cursor => cursor.committed \in held
    /\ cursor = NoCursor => ls.root = GenesisRoot /\ rows = <<>>
    /\ \A h \in Handlers :
          /\ handler[h].pc = "initCursor" => handler[h].row.rootBefore = GenesisRoot
          /\ handler[h].pc = "writeCursor" => handler[h].seen.committed \in held
    /\ \A d \in Drivers : driver[d].pc # "idle" => driver[d].seen.committed \in held
    /\ \A i \in DOMAIN txs : txs[i].status = "accepted" => txs[i].batch.new \in held

-----------------------------------------------------------------------------
(* The store *)

\* The columns of a row that no later update of it changes.
SameOp(r, q) == q.kind = r.kind /\ q.id = r.id /\ q.nullifier = r.nullifier

\* The columns that say what the operation did.
SameRow(r, q) ==
    /\ SameOp(r, q)
    /\ q.acct = r.acct /\ q.amount = r.amount
    /\ q.rootBefore = r.rootBefore /\ q.rootAfter = r.rootAfter

\* The columns the witness builder reads besides.
SameWitness(r, q) ==
    q.nonce = r.nonce /\ q.balanceBefore = r.balanceBefore /\ q.balanceAfter = r.balanceAfter

\* An update of columns other than these: the same rows in the same order.
SameRows(r, q) ==
    Len(q) = Len(r) /\ \A i \in 1..Len(r) : SameRow(r[i], q[i]) /\ SameWitness(r[i], q[i])

\* Setting the status or the batch of a row keeps the operation it stands for.
LEMMA MarkRow ==
    ASSUME NEW r \in DbRow, NEW s \in Status, NEW b \in Nat
    PROVE  /\ [r EXCEPT !.status = s] \in DbRow
           /\ SameRow(r, [r EXCEPT !.status = s])
           /\ SameWitness(r, [r EXCEPT !.status = s])
           /\ [r EXCEPT !.status = s, !.batch = b] \in DbRow
           /\ SameRow(r, [r EXCEPT !.status = s, !.batch = b])
           /\ SameWitness(r, [r EXCEPT !.status = s, !.batch = b])
BY DEF DbRow, Row, SameRow, SameOp, SameWitness

\* The updates of the repository keep the rows, their order and their operations.
LEMMA MarkRows ==
    ASSUME NEW r \in Seq(DbRow), NEW b \in Nat, NEW keys, NEW s \in Status
    PROVE  /\ MarkIncluded(r, b, keys) \in Seq(DbRow) /\ SameRows(r, MarkIncluded(r, b, keys))
           /\ MarkByBatch(r, b, s) \in Seq(DbRow) /\ SameRows(r, MarkByBatch(r, b, s))
           /\ ReopenIncluded(r, b) \in Seq(DbRow) /\ SameRows(r, ReopenIncluded(r, b))
<1>1. ASSUME NEW q, DOMAIN q = DOMAIN r, q = [i \in DOMAIN r |-> q[i]],
             \A i \in 1..Len(r) : q[i] \in DbRow /\ SameRow(r[i], q[i]) /\ SameWitness(r[i], q[i])
      PROVE  q \in Seq(DbRow) /\ SameRows(r, q)
  <2>1. DOMAIN r = 1..Len(r) /\ Len(r) \in Nat
    OBVIOUS
  <2>2. q \in [1..Len(r) -> DbRow]
    BY <1>1, <2>1
  <2>3. q \in Seq(DbRow) /\ Len(q) = Len(r)
    BY <2>1, <2>2
  <2> QED
    BY <1>1, <2>3 DEF SameRows
<1>2. ASSUME NEW i \in 1..Len(r)
      PROVE  r[i] \in DbRow /\ SameRow(r[i], r[i]) /\ SameWitness(r[i], r[i])
  BY DEF SameRow, SameOp, SameWitness
<1>3. "included" \in Status /\ "pending" \in Status /\ NoBatch \in Nat
  BY DEF Status, NoBatch
<1>4. DOMAIN r = 1..Len(r)
  OBVIOUS
<1>5. MarkIncluded(r, b, keys) \in Seq(DbRow) /\ SameRows(r, MarkIncluded(r, b, keys))
  <2> DEFINE q == MarkIncluded(r, b, keys)
  <2>1. \A i \in 1..Len(r) : q[i] \in DbRow /\ SameRow(r[i], q[i]) /\ SameWitness(r[i], q[i])
    BY <1>2, <1>3, <1>4, MarkRow DEF MarkIncluded
  <2>2. DOMAIN q = DOMAIN r /\ q = [i \in DOMAIN r |-> q[i]]
    BY DEF MarkIncluded
  <2> HIDE DEF q
  <2> QED
    BY <1>1, <2>1, <2>2 DEF q
<1>6. MarkByBatch(r, b, s) \in Seq(DbRow) /\ SameRows(r, MarkByBatch(r, b, s))
  <2> DEFINE q == MarkByBatch(r, b, s)
  <2>1. \A i \in 1..Len(r) : q[i] \in DbRow /\ SameRow(r[i], q[i]) /\ SameWitness(r[i], q[i])
    BY <1>2, <1>3, <1>4, MarkRow DEF MarkByBatch
  <2>2. DOMAIN q = DOMAIN r /\ q = [i \in DOMAIN r |-> q[i]]
    BY DEF MarkByBatch
  <2> HIDE DEF q
  <2> QED
    BY <1>1, <2>1, <2>2 DEF q
<1>7. ReopenIncluded(r, b) \in Seq(DbRow) /\ SameRows(r, ReopenIncluded(r, b))
  <2> DEFINE q == ReopenIncluded(r, b)
  <2>1. \A i \in 1..Len(r) : q[i] \in DbRow /\ SameRow(r[i], q[i]) /\ SameWitness(r[i], q[i])
    BY <1>2, <1>3, <1>4, MarkRow DEF ReopenIncluded
  <2>2. DOMAIN q = DOMAIN r /\ q = [i \in DOMAIN r |-> q[i]]
    BY DEF ReopenIncluded
  <2> HIDE DEF q
  <2> QED
    BY <1>1, <2>1, <2>2 DEF q
<1> QED
  BY <1>5, <1>6, <1>7

\* The upsert adds the row, or puts it in the place of the one with its key.
LEMMA SaveRow ==
    ASSUME NEW r \in Seq(DbRow), NEW x \in DbRow
    PROVE  LET q == SavePending(r, x)
           IN  /\ q \in Seq(DbRow)
               /\ Len(q) >= Len(r)
               /\ \A i \in 1..Len(q) :
                     \/ q[i] = x
                     \/ i \in 1..Len(r) /\ q[i] = r[i] /\ Key(r[i]) # Key(x)
               /\ \A i \in 1..Len(r) :
                     q[i] = IF Key(r[i]) = Key(x) THEN x ELSE r[i]
               /\ Key(x) \in Keys(q)
<1> DEFINE q == SavePending(r, x)
<1>1. DOMAIN r = 1..Len(r) /\ Len(r) \in Nat /\ \A i \in 1..Len(r) : r[i] \in DbRow
  OBVIOUS
<1>2. CASE Key(x) \in Keys(r)
  <2>1. q = [i \in 1..Len(r) |-> IF Key(r[i]) = Key(x) THEN x ELSE r[i]]
    BY <1>1, <1>2 DEF SavePending
  <2>2. q \in [1..Len(r) -> DbRow]
    BY <1>1, <2>1
  <2>3. q \in Seq(DbRow) /\ Len(q) = Len(r)
    BY <1>1, <2>2
  <2>4. Key(x) \in Keys(q)
    <3>1. PICK i \in 1..Len(r) : Key(r[i]) = Key(x)
      BY <1>1, <1>2 DEF Keys
    <3>2. q[i] = x
      BY <2>1, <3>1
    <3> HIDE DEF q
    <3> QED
      BY <2>3, <3>2 DEF Keys
  <2>5. \A i \in 1..Len(r) : q[i] = IF Key(r[i]) = Key(x) THEN x ELSE r[i]
    BY <2>1
  <2> HIDE DEF q
  <2> QED
    BY <1>1, <2>3, <2>4, <2>5 DEF q
<1>3. CASE Key(x) \notin Keys(r)
  <2>1. q = Append(r, x)
    BY <1>3 DEF SavePending
  <2>2. \A i \in 1..Len(r) : Key(r[i]) # Key(x)
    BY <1>1, <1>3 DEF Keys
  <2> HIDE DEF q
  <2>3. /\ q \in Seq(DbRow) /\ Len(q) = Len(r) + 1 /\ q[Len(r) + 1] = x
        /\ \A i \in 1..Len(r) : q[i] = r[i]
    BY <1>1, <2>1
  <2>4. Key(x) \in Keys(q)
    <3>1. Len(r) + 1 \in DOMAIN q
      BY <1>1, <2>3
    <3> QED
      BY <2>3, <3>1 DEF Keys
  <2> QED
    BY <1>1, <2>2, <2>3, <2>4 DEF q
<1> QED
  BY <1>2, <1>3

-----------------------------------------------------------------------------
(* The manager's state *)

\* The genesis state is a state.
LEMMA NewLocalStateType == NewLocalState \in State
BY DEF NewLocalState, State, Root, ZeroAccount, Account

\* The root of any accounts is a root.
LEMMA ComputeRootType ==
    ASSUME NEW accounts \in [Accounts -> Account]
    PROVE  ComputeRoot(accounts) \in Root
<1>1. AccountSnapshot(accounts) \in SUBSET (Accounts \X Account)
  BY DEF AccountSnapshot
<1> QED
  BY <1>1 DEF ComputeRoot, Root

\* ApplyDeposit maps states to states.
LEMMA ApplyDepositType ==
    ASSUME NEW s \in State, NEW d \in Deposits
    PROVE  /\ ApplyDeposit(s, d) \in State
           /\ ApplyDeposit(s, d).root = ComputeRoot(ApplyDeposit(s, d).accounts)
           /\ ApplyDeposit(s, d).accounts
                = Credit(s.accounts, DepositRecord[d].acct, DepositRecord[d].amount)
<1> DEFINE accounts == Credit(s.accounts, DepositRecord[d].acct, DepositRecord[d].amount)
<1>1. DepositRecord[d].acct \in Accounts /\ DepositRecord[d].amount \in Nat
  BY DepositRecordAssumption
<1>2. accounts \in [Accounts -> Account]
  BY <1>1 DEF Credit, State, Account
<1> HIDE DEF accounts
<1>3. ComputeRoot(accounts) \in Root
  BY <1>2, ComputeRootType
<1> QED
  BY <1>2, <1>3 DEF ApplyDeposit, State, accounts

\* So does ApplyWithdrawal when the manager accepts the request.
LEMMA ApplyWithdrawalType ==
    ASSUME NEW s \in State, NEW r \in DbRow, CanApplyWithdrawal(s, r, r.nullifier)
    PROVE  /\ ApplyWithdrawal(s, r, r.nullifier) \in State
           /\ ApplyWithdrawal(s, r, r.nullifier).root
                = ComputeRoot(ApplyWithdrawal(s, r, r.nullifier).accounts)
           /\ ApplyWithdrawal(s, r, r.nullifier).accounts = Debit(s.accounts, r.acct, r.amount)
<1> DEFINE accounts == Debit(s.accounts, r.acct, r.amount)
<1>1. r.acct \in Accounts /\ r.amount \in Nat /\ r.nullifier \in Nullifier
  BY DEF DbRow, Row, Nullifier
<1>2. s.accounts \in [Accounts -> Account]
  BY DEF State
<1>3. s.accounts[r.acct].balance >= r.amount
  BY DEF CanApplyWithdrawal
<1>4. accounts \in [Accounts -> Account]
  BY <1>1, <1>2, <1>3 DEF Debit, Account
<1> HIDE DEF accounts
<1>5. ComputeRoot(accounts) \in Root
  BY <1>4, ComputeRootType
<1> QED
  BY <1>1, <1>4, <1>5 DEF ApplyWithdrawal, State, accounts

\* States whose root is that of their accounts.
Rooted == {s \in State : IsRoot(s.root, s.accounts)}

\* The genesis state is one.
LEMMA NewLocalStateRooted == NewLocalState \in Rooted
BY NewLocalStateType DEF Rooted, IsRoot, NewLocalState

\* Replaying one row maps states to states.
LEMMA ReplayRowType ==
    ASSUME NEW s \in Rooted, NEW r \in DbRow
    PROVE  ReplayRow(s, r) \in Rooted
<1>1. (r.kind = "deposit" => r.id \in Deposits) /\ s \in State
  BY DEF DbRow, Rooted
<1> QED
  BY <1>1, ApplyDepositType, ApplyWithdrawalType DEF ReplayRow, Rooted, IsRoot

\* Replaying any rows maps the genesis state to a state; replaying none leaves it.
LEMMA ReplayType ==
    ASSUME NEW q \in Seq(DbRow)
    PROVE  /\ FoldLeft(ReplayRow, NewLocalState, q) \in Rooted
           /\ q = <<>> => FoldLeft(ReplayRow, NewLocalState, q) = NewLocalState
<1> DEFINE N == Len(q)
           Step(n, s) == ReplayRow(s, q[n])
           Def(f) == [s \in SUBSET (1..N) |->
                         IF s = {} THEN NewLocalState ELSE Step(Max(s), f[s \ {Max(s)}])]
           fold == CHOOSE f : f = Def(f)
           step == [n \in 1..N |-> [s \in Rooted |-> Step(n, s)]]
<1>1. N \in Nat /\ DOMAIN q = 1..N
  OBVIOUS
<1>2. ASSUME NEW n \in 1..N, NEW s \in Rooted PROVE Step(n, s) \in Rooted
  BY ReplayRowType
<1>3. FoldLeft(ReplayRow, NewLocalState, q) = fold[1..N]
  BY <1>1 DEF FoldLeft, MapThenFoldSet
<1> HIDE DEF N, Step
<1>4. step \in [1..N -> [Rooted -> Rooted]]
  BY <1>2
<1>5. \E f : f = Def(f)
  <2> HIDE DEF step
  <2>2. PICK f : Folds(f, N, Rooted, NewLocalState, step)
    BY <1>1, <1>4, NewLocalStateRooted, FoldExists
  <2>3. f = Def(f)
    <3>1. ASSUME NEW s \in SUBSET (1..N), s # {}
          PROVE  f[s] = Step(Max(s), f[s \ {Max(s)}])
      <4>1. Max(s) \in 1..N
        BY <1>1, <3>1, MaxOf
      <4>2. f[s \ {Max(s)}] \in Rooted /\ f[s] = step[Max(s)][f[s \ {Max(s)}]]
        BY <2>2, <3>1 DEF Folds
      <4> QED
        BY <4>1, <4>2 DEF step
    <3> QED
      BY <2>2, <3>1 DEF Folds
  <2> HIDE DEF Def
  <2> QED
    BY <2>3
<1>6. fold = Def(fold)
  <2> HIDE DEF Def
  <2> QED
    BY <1>5
<1> HIDE DEF fold, step
<1> DEFINE T == {n \in 0..N : fold[1..n] \in Rooted}
<1>7. fold[{}] = NewLocalState
  BY <1>6
<1>8. 0 \in T
  BY <1>1, <1>7, NewLocalStateRooted
<1>9. ASSUME NEW n \in 0..N, n < N, n \in T PROVE n + 1 \in T
  <2>1. n + 1 \in 1..N /\ n \in Nat
    BY <1>1, <1>9
  <2> DEFINE s == 1..(n + 1)
  <2>2. s \in SUBSET (1..N) /\ s # {} /\ n + 1 \in s
    BY <2>1, <1>1
  <2>3. Max(s) = n + 1
    <3>1. Max(s) \in s /\ n + 1 <= Max(s)
      <4> HIDE DEF s
      <4> QED
        BY <1>1, <2>2, MaxOf
    <3> QED
      BY <2>1, <3>1
  <2>4. s \ {Max(s)} = 1..n
    BY <2>1, <2>3
  <2>5. fold[s] = Step(n + 1, fold[1..n])
    <3> HIDE DEF s
    <3> QED
      BY <1>6, <2>2, <2>3, <2>4
  <2>6. fold[s] \in Rooted
    BY <1>2, <1>9, <2>1, <2>5
  <2> QED
    BY <2>1, <2>6
<1> HIDE DEF T
<1>10. \A n \in 0..N : n \in T
  BY <1>1, <1>8, <1>9, SetInduction
<1>11. fold[1..N] \in Rooted
  BY <1>1, <1>10 DEF T
<1>12. q = <<>> => 1..N = {}
  BY DEF N
<1> QED
  BY <1>3, <1>7, <1>11, <1>12

\* What RehydrateFromStore installs is a state, and the genesis state without rows.
LEMMA RehydrateType ==
    ASSUME rows \in Seq(DbRow)
    PROVE  /\ RehydrateFromStore \in State /\ RehydrateFromStore \in Rooted
           /\ rows = <<>> => RehydrateFromStore = NewLocalState
<1> DEFINE Pending(kind) == {x \in DbRow : x.kind = kind /\ x.status = "pending"}
           deps == ListPending(rows, "deposit")
           wds == ListPending(rows, "withdrawal")
<1>1. deps \in Seq(Pending("deposit")) /\ wds \in Seq(Pending("withdrawal"))
  BY ListPendingType
<1>2. deps \in Seq(DbRow) /\ wds \in Seq(DbRow)
  <2> HIDE DEF deps, wds
  <2> QED
    BY <1>1
<1>3. rows = <<>> => deps = <<>> /\ wds = <<>>
  <2> SUFFICES ASSUME rows = <<>> PROVE deps = <<>> /\ wds = <<>>
    OBVIOUS
  <2>1. rows \in Seq({})
    OBVIOUS
  <2>2. deps \in Seq({x \in {} : x.kind = "deposit" /\ x.status = "pending"})
    BY <2>1, ListPendingType
  <2>3. wds \in Seq({x \in {} : x.kind = "withdrawal" /\ x.status = "pending"})
    BY <2>1, ListPendingType
  <2> HIDE DEF deps, wds
  <2> QED
    BY <2>2, <2>3
<1> DEFINE q == deps \o wds
<1>4. RehydrateFromStore = FoldLeft(ReplayRow, NewLocalState, q)
  BY DEF RehydrateFromStore
<1> HIDE DEF deps, wds
<1>5. q \in Seq(DbRow) /\ (rows = <<>> => q = <<>>)
  BY <1>2, <1>3
<1> HIDE DEF q
<1>6. \A s \in Rooted : s \in State
  BY DEF Rooted
<1> QED
  BY <1>4, <1>5, <1>6, ReplayType

\* A handler starts from a row of its table.
LEMMA NewRowType ==
    ASSUME ls \in State, NEW acct \in Accounts, NEW amount \in Nat, NEW nonce \in Nat,
           NEW kind \in {"deposit", "withdrawal"}, NEW id,
           IF kind = "deposit" THEN id \in Deposits ELSE id \in Nat
    PROVE  LET r == NewRow(kind, id, acct, amount, nonce)
           IN  /\ r \in DbRow
               /\ r.kind = kind /\ r.id = id /\ r.rootBefore = ls.root
               /\ r.nullifier = NullifierFor(DefaultSecret, nonce)
               /\ r.acct = acct /\ r.amount = amount
               /\ r.status = "pending" /\ r.batch = NoBatch
<1>1. ls.root \in Root /\ ls.accounts[acct].balance \in Nat
  BY DEF State, Account
<1>2. NullifierFor(DefaultSecret, nonce) \in [secret : {DefaultSecret}, nonce : Nat]
  BY DEF NullifierFor
<1> QED
  BY <1>1, <1>2 DEF NewRow, DbRow, Row, Status, NoBatch

-----------------------------------------------------------------------------
(* Types *)

\* The initial state has the types.
LEMMA InitTypes == Init => Types
<1> SUFFICES ASSUME Init PROVE Types
  OBVIOUS
<1>1. wdSeq \in 0..MaxWithdrawals
  BY SettlementAssumption DEF Init
<1>2. chain.roots \in Seq(Root)
  BY DEF Init, Root
<1>3. handler \in [Handlers -> HandlerState] /\ driver \in [Drivers -> DriverState]
  BY DEF Init, HandlerState, DriverState
<1>4. \A h \in Handlers : handler[h].pc = "idle"
  BY DEF Init, IdleHandler
<1> QED
  BY <1>1, <1>2, <1>3, <1>4, NewLocalStateType DEF Init, Types

\* A step of a request handler keeps the types.
LEMMA HandlerTypes ==
    ASSUME Types, NEW h \in Handlers,
           \/ \E d \in Deposits : ReceiveDeposit(h, d)
           \/ \E a \in Accounts, amount \in WithdrawAmounts : ReceiveWithdraw(h, a, amount)
           \/ HandlerStep(h)
           \/ HandlerFault(h)
    PROVE  Types'
<1> DEFINE Busy == [pc : HandlerPC \ {"idle"}, row : DbRow, pendingRoot : Root,
                    seen : Cursor \cup {NoCursor}]
<1>1. handler[h] = IdleHandler \/ handler[h] \in Busy
  BY DEF Types, HandlerState
<1>2. IdleHandler.pc = "idle" /\ IdleHandler \in HandlerState /\ IdleHandler.pendingRoot = GenesisRoot
  BY DEF IdleHandler, HandlerState
<1>3. GenesisRoot \in Root /\ NoCursor \notin Cursor
  BY NoCursorAssumption DEF Root
<1>4. ASSUME NEW r \in DbRow, StartOperation(h, r),
             UNCHANGED <<ls, batchSeq, driver, rows, cursor, txs, chain>>,
             wdSeq' \in 0..MaxWithdrawals
      PROVE  Types'
  <2> DEFINE x == [IdleHandler EXCEPT !.pc = IF cursor = NoCursor THEN "initCursor" ELSE "apply",
                                      !.row = r]
  <2>1. x \in Busy /\ x.pc \in {"initCursor", "apply"} /\ (x.pc = "apply" => cursor # NoCursor)
    BY <1>3 DEF IdleHandler, HandlerPC
  <2>2. handler' = [handler EXCEPT ![h] = x]
    BY <1>4 DEF StartOperation
  <2> HIDE DEF x
  <2> QED
    BY <1>4, <2>1, <2>2 DEF Types, HandlerState
<1>5. ASSUME NEW d \in Deposits, ReceiveDeposit(h, d) PROVE Types'
  <2> DEFINE r == NewRow("deposit", d, DepositRecord[d].acct, DepositRecord[d].amount, 0)
  <2>1. r \in DbRow
    BY DepositRecordAssumption, NewRowType DEF Types
  <2> HIDE DEF r
  <2> QED
    BY <1>4, <1>5, <2>1 DEF ReceiveDeposit, database, Types, r
<1>6. ASSUME NEW a \in Accounts, NEW amount \in WithdrawAmounts, ReceiveWithdraw(h, a, amount)
      PROVE  Types'
  <2>1. wdSeq' \in 0..MaxWithdrawals /\ wdSeq + 1 \in Nat
    BY <1>6, SettlementAssumption DEF ReceiveWithdraw, Types
  <2>2. CASE CanBuildWithdrawRequest(ls, a, amount)
    <3> DEFINE r == NewRow("withdrawal", wdSeq + 1, a, amount, ls.accounts[a].nonce + 1)
    <3>1. r \in DbRow
      <4>1. amount \in Nat /\ ls.accounts[a].nonce + 1 \in Nat /\ ls \in State
        BY SettlementAssumption DEF Types, State, Account
      <4> QED
        BY <2>1, <4>1, NewRowType
    <3>2. StartOperation(h, r)
      BY <1>6, <2>2 DEF ReceiveWithdraw, BuildWithdrawRequest
    <3> HIDE DEF r
    <3> QED
      BY <1>4, <1>6, <2>1, <3>1, <3>2 DEF ReceiveWithdraw
  <2>3. CASE ~CanBuildWithdrawRequest(ls, a, amount)
    BY <1>6, <2>1, <2>3 DEF ReceiveWithdraw, Types
  <2> QED
    BY <2>2, <2>3
<1>7. ASSUME EndHandler(h), UNCHANGED <<ls, batchSeq, driver, database, txs, chain>>
      PROVE  Types'
  BY <1>2, <1>7 DEF EndHandler, database, Types
<1>8. ASSUME HandlerInitCursor(h) PROVE Types'
  BY <1>1, <1>2, <1>8 DEF HandlerInitCursor, GotoHandler, InitialCursor, Types, HandlerState,
     HandlerPC, Cursor, DbRow, Row, NoBatch
<1>9. ASSUME NEW x \in Busy, handler' = [handler EXCEPT ![h] = x], ls' \in State,
             rows' \in Seq(DbRow), cursor' \in Cursor,
             x.pc = "writeCursor" => x.seen \in Cursor,
             x.pc = "request" => x.row.kind = "withdrawal",
             UNCHANGED <<batchSeq, driver, wdSeq, txs, chain>>
      PROVE  Types'
  BY <1>9 DEF Types, HandlerState
<1> DEFINE hs == handler[h]
           row == hs.row
<1>10. ASSUME handler[h].pc \notin {"idle", "initCursor"}
       PROVE  handler[h] \in Busy /\ cursor \in Cursor
  BY <1>1, <1>2, <1>10 DEF Types
<1>11. ASSUME ApplyOperation(h) PROVE Types'
  <2>1. hs \in Busy /\ hs.pc = "apply" /\ cursor \in Cursor
    BY <1>10, <1>11 DEF ApplyOperation
  <2>2. ls' \in State
    <3>1. row \in DbRow /\ ls \in State
      BY <2>1 DEF Types
    <3>2. row.kind = "deposit" => row.id \in Deposits
      BY <3>1 DEF DbRow
    <3> QED
      BY <1>11, <3>1, <3>2, ApplyDepositType, ApplyWithdrawalType
      DEF ApplyOperation, CanApply
  <2> DEFINE x == [hs EXCEPT !.pc = "snapshot", !.row = [row EXCEPT !.rootAfter = ls'.root]]
  <2>3. x \in Busy /\ x.pc = "snapshot"
    <3>1. ls'.root \in Root
      BY <2>2 DEF State
    <3>2. [row EXCEPT !.rootAfter = ls'.root] \in DbRow
      BY <2>1, <3>1 DEF DbRow, Row
    <3> QED
      BY <2>1, <3>2 DEF HandlerPC
  <2>4. handler' = [handler EXCEPT ![h] = x]
    BY <1>11, <2>1 DEF ApplyOperation, Types
  <2> HIDE DEF x
  <2> QED
    BY <1>9, <1>11, <2>1, <2>2, <2>3, <2>4 DEF ApplyOperation, database, Types
<1>12. ASSUME SnapshotAfter(h) PROVE Types'
  <2>1. hs \in Busy /\ hs.pc = "snapshot" /\ cursor \in Cursor
    BY <1>10, <1>12 DEF SnapshotAfter
  <2> DEFINE balance == ls.accounts[row.acct].balance
             x == [hs EXCEPT !.pc = "save", !.row = [row EXCEPT !.balanceAfter = balance],
                             !.pendingRoot = ls.root]
  <2>2. x \in Busy /\ x.pc = "save"
    <3>1. ls.root \in Root /\ balance \in Nat
      BY <2>1 DEF Types, State, Account, DbRow, Row
    <3>2. [row EXCEPT !.balanceAfter = balance] \in DbRow
      BY <2>1, <3>1 DEF DbRow, Row
    <3> QED
      BY <2>1, <3>1, <3>2 DEF HandlerPC
  <2>3. handler' = [handler EXCEPT ![h] = x]
    BY <1>12, <2>1 DEF SnapshotAfter, Types
  <2> HIDE DEF x
  <2> QED
    BY <1>9, <1>12, <2>1, <2>2, <2>3 DEF SnapshotAfter, database, Types
<1>13. ASSUME SaveOperation(h) PROVE Types'
  <2>1. hs \in Busy /\ hs.pc = "save" /\ cursor \in Cursor
    BY <1>10, <1>13 DEF SaveOperation
  <2>2. rows' \in Seq(DbRow)
    BY <1>13, <2>1, SaveRow DEF SaveOperation, Types
  <2> DEFINE x == [hs EXCEPT !.pc = "readCursor"]
  <2>3. x \in Busy /\ x.pc = "readCursor"
    BY <2>1 DEF HandlerPC
  <2>4. handler' = [handler EXCEPT ![h] = x]
    BY <1>13, <2>1 DEF SaveOperation, GotoHandler, Types
  <2> HIDE DEF x
  <2> QED
    BY <1>9, <1>13, <2>1, <2>2, <2>3, <2>4 DEF SaveOperation, Types
<1>14. ASSUME ReadCursor(h) PROVE Types'
  <2>1. hs \in Busy /\ hs.pc = "readCursor" /\ cursor \in Cursor
    BY <1>10, <1>14 DEF ReadCursor
  <2> DEFINE x == [hs EXCEPT !.pc = "writeCursor", !.seen = cursor]
  <2>2. x \in Busy /\ x.pc = "writeCursor" /\ x.seen \in Cursor
    BY <2>1 DEF HandlerPC
  <2>3. handler' = [handler EXCEPT ![h] = x]
    BY <1>14, <2>1 DEF ReadCursor, Types
  <2> HIDE DEF x
  <2> QED
    BY <1>9, <1>14, <2>1, <2>2, <2>3 DEF ReadCursor, database, Types
<1>15. ASSUME WritePendingRoot(h) PROVE Types'
  <2>1. hs \in Busy /\ hs.pc = "writeCursor" /\ cursor \in Cursor /\ hs.seen \in Cursor
    BY <1>10, <1>15 DEF WritePendingRoot, Types
  <2>2. cursor' \in Cursor
    BY <1>15, <2>1 DEF WritePendingRoot, Cursor
  <2>3. CASE row.kind = "deposit"
    BY <1>2, <1>15, <2>2, <2>3 DEF WritePendingRoot, EndHandler, Types
  <2>4. CASE row.kind # "deposit"
    <3> DEFINE x == [hs EXCEPT !.pc = "request"]
    <3>1. x \in Busy /\ x.pc = "request" /\ x.row.kind = "withdrawal"
      BY <2>1, <2>4 DEF HandlerPC, DbRow, Row
    <3>2. handler' = [handler EXCEPT ![h] = x]
      BY <1>15, <2>1, <2>4 DEF WritePendingRoot, GotoHandler, Types
    <3> HIDE DEF x
    <3> QED
      BY <1>9, <1>15, <2>2, <3>1, <3>2 DEF WritePendingRoot, Types
  <2> QED
    BY <2>3, <2>4
<1>16. ASSUME SaveWithdrawRequest(h) PROVE Types'
  BY <1>2, <1>16 DEF SaveWithdrawRequest, EndHandler, Types
<1> QED
  BY <1>5, <1>6, <1>7, <1>8, <1>11, <1>12, <1>13, <1>14, <1>15, <1>16
  DEF HandlerStep, HandlerFault, RefuseOperation, CollideOnSave

\* What a query of the pending rows returns: pending rows, each of the kind asked for.
LEMMA ListPendingRows ==
    ASSUME NEW r \in Seq(DbRow), NEW kind
    PROVE  /\ ListPending(r, kind) \in Seq(DbRow)
           /\ \A i \in 1..Len(ListPending(r, kind)) :
                 \E k \in 1..Len(r) : /\ ListPending(r, kind)[i] = r[k]
                                      /\ r[k].status = "pending" /\ r[k].kind = kind
<1> DEFINE E == {r[k] : k \in 1..Len(r)}
           W == {x \in E : x.kind = kind /\ x.status = "pending"}
           q == ListPending(r, kind)
<1>1. r \in Seq(E)
  OBVIOUS
<1>2. q \in Seq(W)
  <2> HIDE DEF E
  <2> QED
    BY <1>1, ListPendingType
<1> HIDE DEF q
<1>3. \A i \in 1..Len(q) : q[i] \in W
  <2> HIDE DEF W
  <2> QED
    BY <1>2
<1>4. \A x \in W : x \in DbRow /\ \E k \in 1..Len(r) : x = r[k] /\ r[k].status = "pending" /\ r[k].kind = kind
  OBVIOUS
<1>5. q \in Seq(DbRow)
  <2> HIDE DEF W
  <2> QED
    BY <1>2, <1>4
<1> HIDE DEF W, E
<1> QED
  BY <1>3, <1>4, <1>5 DEF q

\* What a batch is built from: rows the pass has listed or that are pending now,
\* chained from the committed root, with a withdrawal in the last place only.
LEMMA TransitionsFrom ==
    ASSUME Types, NEW d \in Drivers, driver[d].pc = "build", CanBuild(d)
    PROVE  /\ Transitions(d) \in Seq(DbRow)
           /\ Len(Transitions(d)) >= 1
           /\ ChainsFrom(Transitions(d), OldRoot(d))
           /\ OneWithdrawal(Transitions(d))
           /\ \A i \in 1..Len(Transitions(d)) :
                 \/ \E k \in 1..Len(driver[d].pending) : Transitions(d)[i] = driver[d].pending[k]
                 \/ \E k \in 1..Len(rows) : Transitions(d)[i] = rows[k] /\ rows[k].status = "pending"
<1> DEFINE listed == driver[d].pending
           wds == ListPending(rows, "withdrawal")
           p == PendingSeen(d)
           t == Transitions(d)
           E == {p[i] : i \in DOMAIN p}
<1>1. listed \in Seq(DbRow)
  BY DEF Types, DriverState, IdleDriver
<1>2. /\ wds \in Seq(DbRow)
      /\ \A i \in 1..Len(wds) : \E k \in 1..Len(rows) : wds[i] = rows[k] /\ rows[k].status = "pending"
  BY ListPendingRows DEF Types
<1>3. p = listed \o wds
  BY DEF PendingSeen
<1>4. p # <<>> /\ CanOrder(OldRoot(d), p)
  BY DEF CanBuild
<1>5. t = BoundSingleWithdrawalPrefix(OrderPending(OldRoot(d), p))
  BY DEF Transitions
<1> HIDE DEF listed, wds, p, t
<1>6. p \in Seq(DbRow)
  BY <1>1, <1>2, <1>3
<1>7. t \in Seq(E) /\ Len(t) >= 1 /\ ChainsFrom(t, OldRoot(d)) /\ OneWithdrawal(t)
  BY <1>4, <1>5, <1>6, TransitionsChain
<1>8. ASSUME NEW i \in 1..Len(t)
      PROVE  t[i] \in DbRow /\ \E j \in 1..Len(p) : t[i] = p[j]
  BY <1>6, <1>7
<1>9. t \in Seq(DbRow)
  BY <1>6, <1>7
<1>10. ASSUME NEW j \in 1..Len(p)
       PROVE  \/ \E k \in 1..Len(listed) : p[j] = listed[k]
              \/ \E k \in 1..Len(rows) : p[j] = rows[k] /\ rows[k].status = "pending"
  <2>1. CASE j \in 1..Len(listed)
    BY <1>1, <1>2, <1>3, <2>1
  <2>2. CASE j \notin 1..Len(listed)
    <3>1. j - Len(listed) \in 1..Len(wds) /\ p[j] = wds[j - Len(listed)]
      BY <1>1, <1>2, <1>3, <2>2
    <3> QED
      BY <1>2, <3>1
  <2> QED
    BY <2>1, <2>2
<1> HIDE DEF E
<1>11. ASSUME NEW i \in 1..Len(t)
       PROVE  \/ \E k \in 1..Len(listed) : t[i] = listed[k]
              \/ \E k \in 1..Len(rows) : t[i] = rows[k] /\ rows[k].status = "pending"
  <2>1. PICK j \in 1..Len(p) : t[i] = p[j]
    BY <1>8
  <2> QED
    BY <1>10, <2>1
<1>12. ChainsFrom(t, OldRoot(d)) /\ OneWithdrawal(t) /\ Len(t) >= 1
  BY <1>7
<1> QED
  BY <1>9, <1>11, <1>12 DEF t, listed

\* A step of a settlement driver keeps the types.
LEMMA DriverTypes ==
    ASSUME Types, NEW d \in Drivers,
           PassStep(d) \/ BuildStep(d) \/ ConfirmTimeout(d) \/ DriverFault(d)
    PROVE  Types'
<1> DEFINE Busy == [pc : DriverPC \ {"idle"}, seen : Cursor, pending : Seq(DbRow),
                    batch : Batch, tx : Nat]
           ds == driver[d]
<1>1. IdleDriver.pc = "idle" /\ IdleDriver \in DriverState
  BY DEF IdleDriver, DriverState
<1>2. ds.pc # "idle" => ds \in Busy
  BY <1>1 DEF Types, DriverState
<1>3. ASSUME NEW x \in DriverState, driver' = [driver EXCEPT ![d] = x], batchSeq' \in Nat,
             rows' \in Seq(DbRow), cursor' \in Cursor \/ cursor' = cursor, txs' \in Seq(Tx),
             UNCHANGED <<ls, handler, wdSeq, chain>>
      PROVE  Types'
  BY <1>3 DEF Types
<1>4. ASSUME NEW pc \in DriverPC \ {"idle"}, ds.pc # "idle", GotoDriver(d, pc),
             rows' \in Seq(DbRow), cursor' \in Cursor \/ cursor' = cursor,
             UNCHANGED <<ls, batchSeq, handler, wdSeq, txs, chain>>
      PROVE  Types'
  <2> DEFINE x == [ds EXCEPT !.pc = pc]
  <2>1. x \in DriverState
    BY <1>2, <1>4 DEF DriverState
  <2>2. driver' = [driver EXCEPT ![d] = x]
    BY <1>4 DEF GotoDriver, Types
  <2> HIDE DEF x
  <2> QED
    BY <1>3, <1>4, <2>1, <2>2 DEF Types
<1>5. ASSUME EndPass(d), batchSeq' \in Nat, rows' \in Seq(DbRow),
             cursor' \in Cursor \/ cursor' = cursor,
             UNCHANGED <<ls, handler, wdSeq, txs, chain>>
      PROVE  Types'
  BY <1>1, <1>3, <1>5 DEF EndPass, Types
<1>6. rows \in Seq(DbRow) /\ batchSeq \in Nat /\ ls.root \in Root
  BY DEF Types, State
<1>7. ds.pc # "idle" => ds.batch \in Batch /\ ds.batch.id \in Nat /\ ds.batch.new \in Root
                        /\ ds.seen \in Cursor
  BY <1>2 DEF Batch
<1>8. "committed" \in Status /\ "failed" \in Status /\ NoBatch \in Nat
  BY DEF Status, NoBatch
<1>9. ASSUME StartPass(d) PROVE Types'
  <2> DEFINE pc == IF cursor = NoCursor THEN "initCursor" ELSE "deposits"
             seen == IF cursor = NoCursor THEN InitialCursor(ls.root) ELSE cursor
             x == [IdleDriver EXCEPT !.pc = pc, !.seen = seen]
  <2>1. InitialCursor(ls.root) \in Cursor
    BY <1>6, <1>8 DEF InitialCursor, Cursor
  <2>2. NoBatchBuilt \in Batch /\ <<>> \in Seq(DbRow)
    BY <1>8 DEF NoBatchBuilt, Batch, Root
  <2>3. pc \in DriverPC \ {"idle"} /\ seen \in Cursor
    BY <2>1 DEF DriverPC, Types
  <2>4. driver' = [driver EXCEPT ![d] = x]
    BY <1>9 DEF StartPass
  <2> HIDE DEF pc, seen
  <2>5. x \in Busy
    <3> HIDE DEF Batch, Cursor, DbRow
    <3> QED
      BY <2>2, <2>3 DEF IdleDriver
  <2>6. x \in DriverState
    BY <2>5 DEF DriverState
  <2> HIDE DEF x
  <2> QED
    BY <1>3, <1>6, <1>9, <2>4, <2>6 DEF StartPass, database, Types
<1>10. ASSUME DriverInitCursor(d) PROVE Types'
  BY <1>4, <1>6, <1>7, <1>10 DEF DriverInitCursor, DriverPC
<1>11. ASSUME ListDeposits(d) PROVE Types'
  <2> DEFINE q == ListPending(rows, "deposit")
             x == [ds EXCEPT !.pc = "build", !.pending = q]
  <2>1. q \in Seq(DbRow)
    BY <1>6, ListPendingRows
  <2> HIDE DEF q
  <2>2. x \in DriverState
    BY <1>2, <1>11, <2>1 DEF ListDeposits, DriverState, DriverPC
  <2>3. driver' = [driver EXCEPT ![d] = x]
    BY <1>11 DEF ListDeposits, Types, q
  <2> HIDE DEF x
  <2> QED
    BY <1>3, <1>6, <1>11, <2>2, <2>3 DEF ListDeposits, database, Types
<1>12. ASSUME BuildBatch(d) PROVE Types'
  <2> DEFINE t == Transitions(d)
             b == [id |-> batchSeq + 1, old |-> OldRoot(d), new |-> Last(t).rootAfter, ops |-> t]
             x == [ds EXCEPT !.pc = "mark", !.pending = <<>>, !.batch = b]
  <2>1. t \in Seq(DbRow) /\ Len(t) >= 1
    BY <1>12, TransitionsFrom DEF BuildBatch
  <2>2. OldRoot(d) \in Root
    BY <1>7, <1>12 DEF BuildBatch, OldRoot, Cursor
  <2>3. driver' = [driver EXCEPT ![d] = x]
    BY <1>12 DEF BuildBatch, Types
  <2> HIDE DEF t
  <2>4. Last(t).rootAfter \in Root
    BY <2>1 DEF Last, DbRow, Row
  <2>5. b \in Batch
    BY <1>6, <2>1, <2>2, <2>4 DEF Batch
  <2> HIDE DEF b
  <2>6. ds.pc = "build" /\ batchSeq' = batchSeq + 1
        /\ UNCHANGED <<ls, handler, rows, cursor, wdSeq, txs, chain>>
    BY <1>12 DEF BuildBatch, database
  <2>7. x \in DriverState
    <3>1. ds \in Busy
      BY <1>2, <2>6
    <3>2. <<>> \in Seq(DbRow) /\ "mark" \in DriverPC \ {"idle"}
      BY DEF DriverPC
    <3> QED
      BY <2>5, <3>1, <3>2 DEF DriverState
  <2> HIDE DEF x
  <2>8. batchSeq' \in Nat /\ rows' \in Seq(DbRow) /\ txs' \in Seq(Tx)
    BY <1>6, <2>6 DEF Types
  <2> QED
    BY <1>3, <2>3, <2>6, <2>7, <2>8
<1>13. ASSUME BuildNothing(d) \/ RefuseWitness(d) PROVE Types'
  BY <1>5, <1>6, <1>13 DEF BuildNothing, RefuseWitness, database
<1>14. ASSUME MarkBatchIncluded(d) PROVE Types'
  BY <1>4, <1>6, <1>7, <1>8, <1>14, MarkRows DEF MarkBatchIncluded, DriverPC
<1>15. ASSUME \/ Prove(d) \/ ProverFails(d) \/ GuardRefuses(d) \/ VerifierRefuses(d)
              \/ SubmitFails(d) \/ Confirm(d) \/ ConfirmTimeout(d)
       PROVE  Types'
  BY <1>4, <1>6, <1>15 DEF Prove, ProverFails, GuardRefuses, VerifierRefuses, SubmitFails,
     Confirm, ConfirmTimeout, database, DriverPC
<1>16. ASSUME Broadcast(d) PROVE Types'
  <2> DEFINE tx == [batch |-> ds.batch, status |-> "mempool"]
             x == [ds EXCEPT !.pc = "wait", !.tx = Len(txs) + 1]
  <2>1. tx \in Tx
    BY <1>7, <1>16 DEF Broadcast, Tx
  <2>2. txs' = Append(txs, tx)
    BY <1>16 DEF Broadcast
  <2>3. txs' \in Seq(Tx) /\ Len(txs) + 1 \in Nat
    <3> HIDE DEF tx
    <3> QED
      BY <2>1, <2>2 DEF Types
  <2>4. x \in DriverState
    BY <1>2, <1>16, <2>3 DEF Broadcast, DriverState, DriverPC
  <2>5. driver' = [driver EXCEPT ![d] = x]
    BY <1>16 DEF Broadcast, Types
  <2> HIDE DEF x
  <2> QED
    BY <1>3, <1>6, <1>16, <2>3, <2>4, <2>5 DEF Broadcast, database, Types
<1>17. ASSUME Decline(d) PROVE Types'
  BY <1>4, <1>6, <1>7, <1>8, <1>17, MarkRows DEF Decline, DriverPC
<1>18. ASSUME RecordResult(d) PROVE Types'
  BY <1>4, <1>6, <1>18 DEF RecordResult, DriverPC
<1>19. ASSUME CommitRows(d) PROVE Types'
  BY <1>4, <1>6, <1>7, <1>8, <1>19, MarkRows DEF CommitRows, DriverPC
<1>20. ASSUME CommitCursor(d) PROVE Types'
  <2>1. cursor' \in Cursor
    BY <1>7, <1>20 DEF CommitCursor, Cursor
  <2> QED
    BY <1>5, <1>6, <1>20, <2>1 DEF CommitCursor
<1>21. ASSUME Reopen(d) PROVE Types'
  BY <1>5, <1>6, <1>7, <1>8, <1>21, MarkRows DEF Reopen
<1>22. ASSUME DriverFault(d) PROVE Types'
  BY <1>4, <1>5, <1>6, <1>22 DEF DriverFault, database, DriverPC
<1> QED
  BY <1>9, <1>10, <1>11, <1>12, <1>13, <1>14, <1>15, <1>16, <1>17, <1>18, <1>19, <1>20,
     <1>21, <1>22 DEF PassStep, BuildStep

\* What a settled batch adds to the chain.
LEMMA ChainAfterFields ==
    ASSUME NEW b
    PROVE  /\ ChainAfter(b).roots = Append(chain.roots, b.new)
           /\ ChainAfter(b).deposits = chain.deposits \cup BatchIds(b, "deposit")
           /\ ChainAfter(b).nullifiers = chain.nullifiers \cup
                 {b.ops[i].nullifier : i \in {j \in DOMAIN b.ops : b.ops[j].kind = "withdrawal"}}
<1> DEFINE L == FoldLeft(SettleOp, chain.ledger, b.ops)
           R == Append(chain.roots, b.new)
           D == chain.deposits \cup BatchIds(b, "deposit")
           M == chain.nullifiers \cup
                 {b.ops[i].nullifier : i \in {j \in DOMAIN b.ops : b.ops[j].kind = "withdrawal"}}
<1>1. ChainAfter(b) = [roots |-> R, deposits |-> D, nullifiers |-> M, ledger |-> L]
  BY DEF ChainAfter
<1> HIDE DEF L, R, D, M
<1> QED
  BY <1>1 DEF R, D, M

\* What a block does to the txs: one of them gets a code, and with code 0 its
\* batch is settled.
LEMMA DeliverEffect ==
    ASSUME Types, NEW i \in DOMAIN txs, Deliver(i)
    PROVE  /\ txs' \in Seq(Tx) /\ DOMAIN txs' = DOMAIN txs
           /\ txs[i] \in Tx /\ txs[i].status = "mempool"
           /\ \A k \in DOMAIN txs : /\ txs'[k].batch = txs[k].batch
                                    /\ k # i => txs'[k] = txs[k]
           /\ \/ /\ txs'[i].status = "accepted"
                 /\ ChainAccepts(txs[i].batch)
                 /\ chain' = ChainAfter(txs[i].batch)
                 /\ chain'.roots = Append(chain.roots, txs[i].batch.new)
                 /\ chain'.deposits = chain.deposits \cup BatchIds(txs[i].batch, "deposit")
                 /\ chain'.nullifiers = chain.nullifiers \cup
                       {txs[i].batch.ops[k].nullifier : k \in
                          {j \in DOMAIN txs[i].batch.ops : txs[i].batch.ops[j].kind = "withdrawal"}}
              \/ txs'[i].status = "rejected" /\ chain' = chain
           /\ UNCHANGED <<memory, database, faults, restarts>>
<1>1. txs \in Seq(Tx) /\ DOMAIN txs = 1..Len(txs) /\ txs[i] \in Tx
  BY DEF Types
<1>2. ASSUME NEW st \in {"accepted", "rejected"}
      PROVE  LET q == [txs EXCEPT ![i].status = st]
             IN  /\ q \in Seq(Tx) /\ DOMAIN q = DOMAIN txs
                 /\ q[i].status = st
                 /\ \A k \in DOMAIN txs : q[k].batch = txs[k].batch /\ (k # i => q[k] = txs[k])
  <2> DEFINE x == [txs[i] EXCEPT !.status = st]
             q == [txs EXCEPT ![i] = x]
  <2>1. x \in Tx /\ x.status = st /\ x.batch = txs[i].batch
    BY <1>1 DEF Tx
  <2>2. q = [txs EXCEPT ![i].status = st]
    OBVIOUS
  <2> HIDE DEF x
  <2>3. /\ q \in Seq(Tx) /\ DOMAIN q = DOMAIN txs
        /\ q[i].status = st
        /\ \A k \in DOMAIN txs : q[k].batch = txs[k].batch /\ (k # i => q[k] = txs[k])
    BY <1>1, <2>1
  <2> QED
    BY <2>2, <2>3
<1>3. CASE ChainAccepts(txs[i].batch)
  <2>1. txs' = [txs EXCEPT ![i].status = "accepted"] /\ chain' = ChainAfter(txs[i].batch)
    BY <1>3 DEF Deliver
  <2>2. /\ chain'.roots = Append(chain.roots, txs[i].batch.new)
        /\ chain'.deposits = chain.deposits \cup BatchIds(txs[i].batch, "deposit")
        /\ chain'.nullifiers = chain.nullifiers \cup
              {txs[i].batch.ops[k].nullifier : k \in
                 {j \in DOMAIN txs[i].batch.ops : txs[i].batch.ops[j].kind = "withdrawal"}}
    BY <2>1, ChainAfterFields
  <2> QED
    BY <1>1, <1>2, <1>3, <2>1, <2>2 DEF Deliver
<1>4. CASE ~ChainAccepts(txs[i].batch)
  <2>1. txs' = [txs EXCEPT ![i].status = "rejected"] /\ chain' = chain
    BY <1>4 DEF Deliver
  <2> QED
    BY <1>1, <1>2, <1>4, <2>1 DEF Deliver
<1> QED
  BY <1>3, <1>4

\* Every step keeps the types.
LEMMA NextTypes == Types /\ [Next]_vars => Types'
<1> SUFFICES ASSUME Types, [Next]_vars PROVE Types'
  OBVIOUS
<1>1. ASSUME NEW batchID \in 1..MaxBatches, CancelBatch(batchID) PROVE Types'
  <2>1. batchID \in Nat /\ "pending" \in Status /\ rows \in Seq(DbRow)
    BY DEF Types, Status
  <2>2. rows' \in Seq(DbRow)
    BY <1>1, <2>1, MarkRows DEF CancelBatch
  <2> QED
    BY <1>1, <2>2 DEF CancelBatch, memory, Types
<1>2. ASSUME NEW i \in DOMAIN txs, Deliver(i) PROVE Types'
  <2>1. txs[i].batch.new \in Root /\ chain.roots \in Seq(Root)
    BY <1>2, DeliverEffect DEF Types, Tx, Batch
  <2>2. chain'.roots = Append(chain.roots, txs[i].batch.new) \/ chain' = chain
    BY <1>2, DeliverEffect
  <2>3. chain'.roots \in Seq(Root)
    BY <2>1, <2>2
  <2> QED
    BY <1>2, <2>3, DeliverEffect DEF memory, database, Types
<1>3. ASSUME Restart \/ RestartBlind PROVE Types'
  <2>1. ls' \in State
    BY <1>3, RehydrateType, NewLocalStateType DEF Restart, RestartBlind, Types
  <2>2. /\ handler' \in [Handlers -> HandlerState] /\ driver' \in [Drivers -> DriverState]
        /\ \A h \in Handlers : handler'[h].pc = "idle"
    BY <1>3 DEF Restart, RestartBlind, HandlerState, DriverState, IdleHandler
  <2>3. batchSeq' = 0 /\ UNCHANGED <<rows, cursor, wdSeq, txs, chain>>
    BY <1>3 DEF Restart, RestartBlind, database
  <2> QED
    BY <2>1, <2>2, <2>3 DEF Types
<1>4. CASE UNCHANGED vars
  BY <1>4 DEF vars, memory, database, Types
<1> QED
  BY <1>1, <1>2, <1>3, <1>4, HandlerTypes, DriverTypes DEF Next

-----------------------------------------------------------------------------
(* What a step does to the locals of the process that takes it *)

\* A driver that only moves on keeps its locals, and no other driver moves.
LEMMA GotoDriverEffect ==
    ASSUME Types, NEW d \in Drivers, NEW pc, GotoDriver(d, pc), driver[d].pc # "idle"
    PROVE  /\ driver'[d].pc = pc /\ driver'[d].tx = driver[d].tx
           /\ driver'[d].batch = driver[d].batch
           /\ driver'[d].pending = driver[d].pending /\ driver'[d].seen = driver[d].seen
           /\ \A e \in Drivers : e # d => driver'[e] = driver[e]
<1>1. driver[d] \in [pc : DriverPC \ {"idle"}, seen : Cursor, pending : Seq(DbRow),
                     batch : Batch, tx : Nat]
  BY DEF Types, DriverState, IdleDriver
<1> QED
  BY <1>1 DEF GotoDriver, Types

\* A driver whose pass ends forgets its locals.
LEMMA EndPassEffect ==
    ASSUME Types, NEW d \in Drivers, EndPass(d)
    PROVE  /\ driver'[d] = IdleDriver /\ driver'[d].pc = "idle"
           /\ driver'[d].pending = <<>> /\ driver'[d].batch.ops = <<>>
           /\ \A e \in Drivers : e # d => driver'[e] = driver[e]
<1>1. driver'[d] = IdleDriver /\ \A e \in Drivers : e # d => driver'[e] = driver[e]
  BY DEF EndPass, Types
<1>2. IdleDriver.pc = "idle" /\ IdleDriver.pending = <<>> /\ IdleDriver.batch.ops = <<>>
  BY DEF IdleDriver, NoBatchBuilt
<1> QED
  BY <1>1, <1>2

\* A pass starts with the cursor it read, or the one it is about to write.
LEMMA StartPassEffect ==
    ASSUME Types, NEW d \in Drivers, StartPass(d)
    PROVE  /\ driver'[d].pc = IF cursor = NoCursor THEN "initCursor" ELSE "deposits"
           /\ driver'[d].seen = IF cursor = NoCursor THEN InitialCursor(ls.root) ELSE cursor
           /\ driver'[d].pending = <<>> /\ driver'[d].batch = NoBatchBuilt
           /\ driver'[d].batch.ops = <<>>
           /\ \A e \in Drivers : e # d => driver'[e] = driver[e]
<1> DEFINE seen == IF cursor = NoCursor THEN InitialCursor(ls.root) ELSE cursor
           pc == IF cursor = NoCursor THEN "initCursor" ELSE "deposits"
<1>1. /\ driver'[d] = [IdleDriver EXCEPT !.pc = pc, !.seen = seen]
      /\ \A e \in Drivers : e # d => driver'[e] = driver[e]
  BY DEF StartPass, Types
<1> HIDE DEF seen, pc
<1>2. /\ driver'[d].pc = pc /\ driver'[d].seen = seen
      /\ driver'[d].pending = <<>> /\ driver'[d].batch = NoBatchBuilt
  BY <1>1 DEF IdleDriver
<1>3. NoBatchBuilt.ops = <<>>
  BY DEF NoBatchBuilt
<1> QED
  BY <1>1, <1>2, <1>3 DEF seen, pc

\* The list of the pending deposits is kept until the batch is built.
LEMMA ListDepositsEffect ==
    ASSUME Types, NEW d \in Drivers, ListDeposits(d)
    PROVE  /\ driver'[d].pc = "build" /\ driver'[d].pending = ListPending(rows, "deposit")
           /\ driver'[d].seen = driver[d].seen /\ driver'[d].batch = driver[d].batch
           /\ \A e \in Drivers : e # d => driver'[e] = driver[e]
<1> DEFINE q == ListPending(rows, "deposit")
<1>1. driver[d] \in [pc : DriverPC \ {"idle"}, seen : Cursor, pending : Seq(DbRow),
                     batch : Batch, tx : Nat]
  BY DEF ListDeposits, Types, DriverState, IdleDriver
<1>2. driver' = [driver EXCEPT ![d].pc = "build", ![d].pending = q]
  BY DEF ListDeposits
<1> HIDE DEF q
<1> QED
  BY <1>1, <1>2 DEF Types, q

\* The batch is numbered by the process and starts at the root the pass read.
LEMMA BuildBatchEffect ==
    ASSUME Types, NEW d \in Drivers, BuildBatch(d)
    PROVE  /\ driver'[d].pc = "mark" /\ driver'[d].pending = <<>>
           /\ driver'[d].seen = driver[d].seen
           /\ driver'[d].batch = [id |-> batchSeq + 1, old |-> OldRoot(d),
                                  new |-> Last(Transitions(d)).rootAfter, ops |-> Transitions(d)]
           /\ driver'[d].batch.id = batchSeq + 1 /\ driver'[d].batch.ops = Transitions(d)
           /\ \A e \in Drivers : e # d => driver'[e] = driver[e]
<1> DEFINE t == Transitions(d)
           new == Last(t).rootAfter
           n == batchSeq + 1
           b == [id |-> n, old |-> OldRoot(d), new |-> new, ops |-> t]
<1>1. driver[d] \in [pc : DriverPC \ {"idle"}, seen : Cursor, pending : Seq(DbRow),
                     batch : Batch, tx : Nat]
  BY DEF BuildBatch, Types, DriverState, IdleDriver
<1>2. driver' = [driver EXCEPT ![d].pc = "mark", ![d].pending = <<>>, ![d].batch = b]
  BY DEF BuildBatch
<1> HIDE DEF t, n, new
<1>3. b.id = n /\ b.ops = t
  OBVIOUS
<1> HIDE DEF b
<1>4. /\ driver'[d].pc = "mark" /\ driver'[d].pending = <<>> /\ driver'[d].seen = driver[d].seen
      /\ driver'[d].batch = b /\ \A e \in Drivers : e # d => driver'[e] = driver[e]
  BY <1>1, <1>2 DEF Types
<1> QED
  BY <1>3, <1>4 DEF b, n, t, new

\* A handler that only moves on keeps its locals, and no other handler moves.
LEMMA GotoHandlerEffect ==
    ASSUME Types, NEW h \in Handlers, NEW pc, GotoHandler(h, pc), handler[h].pc # "idle"
    PROVE  /\ handler'[h].pc = pc /\ handler'[h].row = handler[h].row
           /\ handler'[h].pendingRoot = handler[h].pendingRoot
           /\ handler'[h].seen = handler[h].seen
           /\ \A g \in Handlers : g # h => handler'[g] = handler[g]
<1>1. handler[h] \in [pc : HandlerPC \ {"idle"}, row : DbRow, pendingRoot : Root,
                      seen : Cursor \cup {NoCursor}]
  BY DEF Types, HandlerState, IdleHandler
<1> QED
  BY <1>1 DEF GotoHandler, Types

\* A handler whose request ends is idle.
LEMMA EndHandlerEffect ==
    ASSUME Types, NEW h \in Handlers, EndHandler(h)
    PROVE  /\ handler'[h].pc = "idle" /\ handler'[h] = IdleHandler
           /\ \A g \in Handlers : g # h => handler'[g] = handler[g]
BY DEF EndHandler, Types, IdleHandler

\* A request starts with its row, and knows whether there is a cursor.
LEMMA StartOperationEffect ==
    ASSUME Types, NEW h \in Handlers, NEW r, StartOperation(h, r)
    PROVE  /\ handler'[h].pc = IF cursor = NoCursor THEN "initCursor" ELSE "apply"
           /\ handler'[h].row = r
           /\ \A g \in Handlers : g # h => handler'[g] = handler[g]
<1> DEFINE pc == IF cursor = NoCursor THEN "initCursor" ELSE "apply"
<1>1. /\ handler'[h] = [IdleHandler EXCEPT !.pc = pc, !.row = r]
      /\ \A g \in Handlers : g # h => handler'[g] = handler[g]
  BY DEF StartOperation, Types
<1> HIDE DEF pc
<1>2. handler'[h].pc = pc /\ handler'[h].row = r
  BY <1>1 DEF IdleHandler
<1> QED
  BY <1>1, <1>2 DEF pc

\* The row credits the account of the deposit with its amount.
AsDeposited(r) == r.acct = DepositRecord[r.id].acct /\ r.amount = DepositRecord[r.id].amount

\* The two requests start with a fresh row of their table.
LEMMA ReceiveEffect ==
    ASSUME Types, NEW h \in Handlers,
           \/ \E d \in Deposits : ReceiveDeposit(h, d)
           \/ \E a \in Accounts, amount \in WithdrawAmounts : ReceiveWithdraw(h, a, amount)
    PROVE  /\ handler[h].pc = "idle"
           /\ UNCHANGED <<ls, batchSeq, driver, rows, cursor, requests, records, txs, chain,
                          faults, restarts>>
           /\ \A g \in Handlers : g # h => handler'[g] = handler[g]
           /\ wdSeq' \in {wdSeq, wdSeq + 1}
           /\ \/ handler'[h] = handler[h]
              \/ /\ handler'[h].pc = IF cursor = NoCursor THEN "initCursor" ELSE "apply"
                 /\ handler'[h].row.rootBefore = ls.root
                 /\ handler'[h].row.status = "pending" /\ handler'[h].row.batch = NoBatch
                 /\ handler'[h].row.kind = "withdrawal"
                      => handler'[h].row.id = wdSeq' /\ wdSeq' = wdSeq + 1
                 /\ handler'[h].row.kind = "deposit" => AsDeposited(handler'[h].row)
<1>1. ASSUME NEW d \in Deposits, ReceiveDeposit(h, d)
      PROVE  /\ wdSeq' = wdSeq
             /\ handler'[h].pc = IF cursor = NoCursor THEN "initCursor" ELSE "apply"
             /\ handler'[h].row.rootBefore = ls.root
             /\ handler'[h].row.status = "pending" /\ handler'[h].row.batch = NoBatch
             /\ handler'[h].row.kind = "deposit" /\ AsDeposited(handler'[h].row)
             /\ \A g \in Handlers : g # h => handler'[g] = handler[g]
  <2> DEFINE r == NewRow("deposit", d, DepositRecord[d].acct, DepositRecord[d].amount, 0)
  <2>1. /\ r.rootBefore = ls.root /\ r.status = "pending" /\ r.batch = NoBatch
        /\ r.kind = "deposit" /\ AsDeposited(r)
    <3> DEFINE a == DepositRecord[d].acct
               amount == DepositRecord[d].amount
    <3>1. a \in Accounts /\ amount \in Nat /\ 0 \in Nat /\ ls \in State
      BY DepositRecordAssumption DEF Types
    <3> HIDE DEF a, amount
    <3>2. LET x == NewRow("deposit", d, a, amount, 0)
          IN  /\ x.rootBefore = ls.root /\ x.status = "pending" /\ x.batch = NoBatch
              /\ x.kind = "deposit" /\ x.id = d /\ x.acct = a /\ x.amount = amount
      BY <3>1, NewRowType
    <3> QED
      BY <3>2 DEF a, amount, AsDeposited
  <2>2. StartOperation(h, r) /\ wdSeq' = wdSeq
    BY <1>1 DEF ReceiveDeposit, database
  <2> HIDE DEF r
  <2> QED
    BY <2>1, <2>2, StartOperationEffect
<1>2. ASSUME NEW a \in Accounts, NEW amount \in WithdrawAmounts, ReceiveWithdraw(h, a, amount),
             CanBuildWithdrawRequest(ls, a, amount)
      PROVE  /\ wdSeq' = wdSeq + 1
             /\ handler'[h].pc = IF cursor = NoCursor THEN "initCursor" ELSE "apply"
             /\ handler'[h].row.rootBefore = ls.root
             /\ handler'[h].row.status = "pending" /\ handler'[h].row.batch = NoBatch
             /\ handler'[h].row.id = wdSeq + 1 /\ handler'[h].row.kind = "withdrawal"
             /\ \A g \in Handlers : g # h => handler'[g] = handler[g]
  <2> DEFINE r == NewRow("withdrawal", wdSeq + 1, a, amount, ls.accounts[a].nonce + 1)
  <2>1. /\ amount \in Nat /\ ls.accounts[a].nonce + 1 \in Nat /\ ls \in State
        /\ wdSeq + 1 \in Nat
    BY SettlementAssumption DEF Types, State, Account
  <2>2. /\ r.rootBefore = ls.root /\ r.status = "pending" /\ r.batch = NoBatch
        /\ r.id = wdSeq + 1 /\ r.kind = "withdrawal"
    BY <2>1, NewRowType
  <2>3. StartOperation(h, r) /\ wdSeq' = wdSeq + 1
    BY <1>2 DEF ReceiveWithdraw, BuildWithdrawRequest
  <2> HIDE DEF r
  <2> QED
    BY <2>2, <2>3, StartOperationEffect
<1>3. ASSUME NEW a \in Accounts, NEW amount \in WithdrawAmounts, ReceiveWithdraw(h, a, amount),
             ~CanBuildWithdrawRequest(ls, a, amount)
      PROVE  wdSeq' = wdSeq + 1 /\ UNCHANGED handler
  BY <1>3 DEF ReceiveWithdraw
<1>4. /\ handler[h].pc = "idle"
      /\ UNCHANGED <<ls, batchSeq, driver, rows, cursor, requests, records, txs, chain,
                     faults, restarts>>
  BY DEF ReceiveDeposit, ReceiveWithdraw, database
<1> QED
  BY <1>1, <1>2, <1>3, <1>4

\* The two snapshots fill in columns that tell nothing of which operation it is.
LEMMA SnapshotEffect ==
    ASSUME Types, NEW h \in Handlers, ApplyOperation(h) \/ SnapshotAfter(h)
    PROVE  /\ handler'[h].pc \in {"snapshot", "save"}
           /\ SameOp(handler[h].row, handler'[h].row)
           /\ SnapshotAfter(h) => SameRow(handler[h].row, handler'[h].row)
           /\ ApplyOperation(h) => handler'[h].row = [handler[h].row EXCEPT !.rootAfter = ls'.root]
           /\ handler'[h].row.status = handler[h].row.status
           /\ handler'[h].row.batch = handler[h].row.batch
           /\ \A g \in Handlers : g # h => handler'[g] = handler[g]
<1>1. handler[h] \in [pc : HandlerPC \ {"idle"}, row : DbRow, pendingRoot : Root,
                      seen : Cursor \cup {NoCursor}]
  BY DEF ApplyOperation, SnapshotAfter, Types, HandlerState, IdleHandler
<1> DEFINE row == handler[h].row
<1>2. row \in DbRow
  BY <1>1
<1>3. CASE ApplyOperation(h)
  <2> DEFINE root == ls'.root
  <2>1. handler' = [handler EXCEPT ![h].pc = "snapshot", ![h].row.rootAfter = root]
    BY <1>3 DEF ApplyOperation
  <2> HIDE DEF root
  <2>2. handler'[h].pc = "snapshot" /\ handler'[h].row = [row EXCEPT !.rootAfter = root]
    BY <1>1, <2>1 DEF Types
  <2>3. ~SnapshotAfter(h)
    BY <1>3 DEF ApplyOperation, SnapshotAfter
  <2>4. handler'[h].row = [handler[h].row EXCEPT !.rootAfter = ls'.root]
    BY <2>2 DEF root
  <2> QED
    BY <1>2, <2>1, <2>2, <2>3, <2>4 DEF SameOp, DbRow, Row, Types
<1>4. CASE SnapshotAfter(h)
  <2> DEFINE bal == ls.accounts[row.acct].balance
             root == ls.root
  <2>1. handler' = [handler EXCEPT ![h].pc = "save", ![h].row.balanceAfter = bal,
                                   ![h].pendingRoot = root]
    BY <1>4 DEF SnapshotAfter
  <2> HIDE DEF bal, root
  <2>2. handler'[h].pc = "save" /\ handler'[h].row = [row EXCEPT !.balanceAfter = bal]
    BY <1>1, <2>1 DEF Types
  <2>3. ~ApplyOperation(h)
    BY <1>4 DEF ApplyOperation, SnapshotAfter
  <2> QED
    BY <1>2, <2>1, <2>2, <2>3 DEF SameOp, SameRow, DbRow, Row, Types
<1> QED
  BY <1>3, <1>4

-----------------------------------------------------------------------------
(* Roots *)

\* The steps of handlers, of the operator and of a restart submit nothing.
LEMMA SubmittedKept ==
    ASSUME Types, Submitted, [Next]_vars
    PROVE  Submitted'
<1>1. CASE UNCHANGED <<driver, txs>>
  BY <1>1 DEF Submitted
<1>2. CASE Restart \/ RestartBlind
  BY <1>2 DEF Restart, RestartBlind, IdleDriver, Submitted
<1>3. ASSUME NEW i \in DOMAIN txs, Deliver(i) PROVE Submitted'
  <2>1. /\ DOMAIN txs' = DOMAIN txs
        /\ \A k \in DOMAIN txs : /\ txs'[k].batch = txs[k].batch
                                 /\ txs[k].status = "accepted" => txs'[k].status = "accepted"
    BY <1>3, DeliverEffect
  <2>2. UNCHANGED driver
    BY <1>3 DEF Deliver, memory
  <2> QED
    BY <2>1, <2>2 DEF Submitted
<1>4. ASSUME NEW d \in Drivers, driver' = [driver EXCEPT ![d] = driver'[d]], UNCHANGED txs,
             driver'[d].pc \notin {"wait", "record", "commit", "commitCursor"}
      PROVE  Submitted'
  BY <1>4 DEF Submitted, Types
<1>5. ASSUME NEW d \in Drivers, NEW pc, GotoDriver(d, pc), driver[d].pc # "idle"
      PROVE  /\ driver' = [driver EXCEPT ![d] = driver'[d]]
             /\ driver'[d].pc = pc /\ driver'[d].tx = driver[d].tx /\ driver'[d].batch = driver[d].batch
  BY <1>5, GotoDriverEffect DEF GotoDriver, Types
<1>6. ASSUME NEW d \in Drivers,
             \/ StartPass(d) \/ ListDeposits(d) \/ BuildBatch(d)
             \/ EndPass(d) /\ UNCHANGED txs
      PROVE  Submitted'
  <2>1. UNCHANGED txs
    BY <1>6 DEF StartPass, ListDeposits, BuildBatch
  <2>2. driver' = [driver EXCEPT ![d] = driver'[d]]
    BY <1>6 DEF StartPass, ListDeposits, BuildBatch, EndPass, Types
  <2>3. driver'[d].pc \in {"initCursor", "deposits", "build", "mark", "idle"}
    BY <1>6, StartPassEffect, ListDepositsEffect, BuildBatchEffect, EndPassEffect
  <2> QED
    BY <1>4, <2>1, <2>2, <2>3
<1>7. ASSUME NEW d \in Drivers, Broadcast(d) PROVE Submitted'
  <2> DEFINE tx == [batch |-> driver[d].batch, status |-> "mempool"]
  <2>1. txs' = Append(txs, tx)
    BY <1>7 DEF Broadcast
  <2>2. tx.batch = driver[d].batch
    OBVIOUS
  <2> HIDE DEF tx
  <2>3. /\ DOMAIN txs \subseteq DOMAIN txs' /\ \A k \in DOMAIN txs : txs'[k] = txs[k]
        /\ Len(txs) + 1 \in DOMAIN txs' /\ txs'[Len(txs) + 1] = tx
    BY <2>1 DEF Types
  <2>4. driver' = [driver EXCEPT ![d] = driver'[d]]
    BY <1>7 DEF Broadcast, Types
  <2>5. driver'[d].pc = "wait" /\ driver'[d].tx = Len(txs) + 1 /\ driver'[d].batch = driver[d].batch
    BY <1>7 DEF Broadcast, Types, DriverState, IdleDriver
  <2>6. \A e \in Drivers : e # d => driver'[e] = driver[e]
    BY <2>4 DEF Types
  <2> QED
    BY <2>2, <2>3, <2>5, <2>6 DEF Submitted
<1>8. ASSUME NEW d \in Drivers, Confirm(d) \/ RecordResult(d) \/ CommitRows(d)
      PROVE  Submitted'
  <2> DEFINE pc == driver'[d].pc
  <2>1. /\ GotoDriver(d, pc) /\ driver[d].pc \in {"wait", "record", "commit"} /\ UNCHANGED txs
        /\ pc \in {"record", "commit", "commitCursor", "reopen"}
        /\ pc = "record" => txs[driver[d].tx].status = "accepted"
        /\ pc \in {"commit", "commitCursor"} => driver[d].pc \in {"record", "commit"}
    BY <1>8 DEF Confirm, RecordResult, CommitRows, GotoDriver, Types, DriverState, IdleDriver
  <2> HIDE DEF pc
  <2>2. /\ driver' = [driver EXCEPT ![d] = driver'[d]]
        /\ driver'[d].pc = pc /\ driver'[d].tx = driver[d].tx /\ driver'[d].batch = driver[d].batch
    BY <1>5, <2>1
  <2>3. \A e \in Drivers : e # d => driver'[e] = driver[e]
    BY <2>2 DEF Types
  <2> QED
    BY <2>1, <2>2, <2>3 DEF Submitted
<1>9. ASSUME NEW d \in Drivers,
             \/ DriverInitCursor(d) \/ MarkBatchIncluded(d) \/ Prove(d) \/ ProverFails(d)
             \/ GuardRefuses(d) \/ VerifierRefuses(d) \/ SubmitFails(d) \/ Decline(d)
             \/ ConfirmTimeout(d)
             \/ DriverFault(d)
      PROVE  Submitted'
  BY <1>4, <1>5, <1>6, <1>9 DEF DriverInitCursor, MarkBatchIncluded, Prove, ProverFails,
     GuardRefuses, VerifierRefuses, SubmitFails, Decline, ConfirmTimeout, DriverFault
<1>10. ASSUME NEW d \in Drivers,
              BuildNothing(d) \/ RefuseWitness(d) \/ CommitCursor(d) \/ Reopen(d)
       PROVE  Submitted'
  BY <1>6, <1>10 DEF BuildNothing, RefuseWitness, CommitCursor, Reopen
<1>11. ASSUME NEW h \in Handlers,
              \/ \E d \in Deposits : ReceiveDeposit(h, d)
              \/ \E a \in Accounts, amount \in WithdrawAmounts : ReceiveWithdraw(h, a, amount)
              \/ HandlerStep(h) \/ HandlerFault(h)
       PROVE  UNCHANGED <<driver, txs>>
  BY <1>11 DEF ReceiveDeposit, ReceiveWithdraw, HandlerStep, HandlerFault, HandlerInitCursor,
     ApplyOperation, RefuseOperation, SnapshotAfter, SaveOperation, CollideOnSave, ReadCursor,
     WritePendingRoot, SaveWithdrawRequest
<1>12. ASSUME NEW b \in 1..MaxBatches, CancelBatch(b) PROVE UNCHANGED <<driver, txs>>
  BY <1>12 DEF CancelBatch, memory
<1>13. CASE UNCHANGED vars
  BY <1>1, <1>13 DEF vars, memory
<1> QED
  BY <1>1, <1>2, <1>3, <1>6, <1>7, <1>8, <1>9, <1>10, <1>11, <1>12, <1>13
  DEF Next, PassStep, BuildStep

\* The store changes by the insert of a handler's row, or by updates that keep
\* the rows, their order and their operations.
LEMMA RowsStep ==
    ASSUME Types, [Next]_vars
    PROVE  (\E h \in Handlers : SaveOperation(h)) \/ SameRows(rows, rows')
<1>1. rows \in Seq(DbRow) /\ "committed" \in Status /\ "failed" \in Status
  BY DEF Types, Status
<1>2. SameRows(rows, rows)
  BY <1>1 DEF SameRows, SameRow, SameOp, SameWitness
<1>3. CASE UNCHANGED rows
  BY <1>2, <1>3
<1>4. ASSUME NEW d \in Drivers, driver[d].pc # "idle" PROVE driver[d].batch.id \in Nat
  BY <1>4 DEF Types, DriverState, IdleDriver, Batch
<1>5. ASSUME NEW d \in Drivers,
             MarkBatchIncluded(d) \/ Decline(d) \/ CommitRows(d) \/ Reopen(d)
      PROVE  SameRows(rows, rows')
  BY <1>1, <1>2, <1>4, <1>5, MarkRows DEF MarkBatchIncluded, Decline, CommitRows, Reopen
<1>6. ASSUME NEW b \in 1..MaxBatches, CancelBatch(b) PROVE SameRows(rows, rows')
  BY <1>1, <1>6, MarkRows DEF CancelBatch
<1> QED
  BY <1>3, <1>5, <1>6 DEF Next, PassStep, BuildStep, vars, database, StartPass, DriverInitCursor,
     ListDeposits, Prove, ProverFails, GuardRefuses, VerifierRefuses, SubmitFails, Broadcast,
     Confirm, RecordResult, CommitCursor, BuildNothing, RefuseWitness, BuildBatch,
     ConfirmTimeout, DriverFault, ReceiveDeposit, ReceiveWithdraw, HandlerStep, HandlerFault,
     HandlerInitCursor, ApplyOperation, RefuseOperation, SnapshotAfter, CollideOnSave,
     ReadCursor, WritePendingRoot, SaveWithdrawRequest, Deliver, Restart, RestartBlind

\* The chain forgets no root.
LEMMA RootsGrow ==
    ASSUME Types, [Next]_vars
    PROVE  Range(chain.roots) \subseteq Range(chain'.roots)
<1>1. CASE UNCHANGED chain
  BY <1>1
<1>2. ASSUME NEW i \in DOMAIN txs, Deliver(i)
      PROVE  Range(chain.roots) \subseteq Range(chain'.roots)
  <2>1. chain' = chain \/ chain'.roots = Append(chain.roots, txs[i].batch.new)
    BY <1>2, DeliverEffect
  <2> DEFINE r == chain.roots
             q == chain'.roots
             x == txs[i].batch.new
  <2>2. r \in Seq(Root) /\ (q = r \/ q = Append(r, x))
    BY <2>1 DEF Types
  <2> HIDE DEF r, q, x
  <2>3. DOMAIN r \subseteq DOMAIN q /\ \A k \in DOMAIN r : q[k] = r[k]
    BY <2>2
  <2> QED
    BY <2>3 DEF Range, r, q
<1> QED
  BY <1>1, <1>2 DEF Next, PassStep, BuildStep, vars, memory, StartPass, DriverInitCursor,
     ListDeposits, Prove, ProverFails, GuardRefuses, VerifierRefuses, SubmitFails, Broadcast,
     Confirm, RecordResult, CommitCursor, BuildNothing, RefuseWitness, BuildBatch,
     ConfirmTimeout, DriverFault, ReceiveDeposit, ReceiveWithdraw, HandlerStep, HandlerFault,
     HandlerInitCursor, ApplyOperation, RefuseOperation, SnapshotAfter, CollideOnSave,
     ReadCursor, WritePendingRoot, SaveWithdrawRequest, Restart, RestartBlind, SaveOperation,
     MarkBatchIncluded, Decline, CommitRows, Reopen, CancelBatch

\* Every root written into or read from the cursor's committed_root is one the
\* chain has held, before and after any step.
LEMMA RootsKept ==
    ASSUME Types, Types', Submitted, RootsOnChain, [Next]_vars
    PROVE  RootsOnChain'
<1> DEFINE held == Range(chain.roots)
           heldN == Range(chain'.roots)
           HandlerOK(c, hs) == /\ hs.pc = "initCursor" => hs.row.rootBefore = GenesisRoot
                               /\ hs.pc = "writeCursor" => hs.seen.committed \in heldN
           DriverOK(ds) == ds.pc # "idle" => ds.seen.committed \in heldN
           CursorOK == /\ cursor' \in Cursor => cursor'.committed \in heldN
                       /\ cursor' = NoCursor => ls'.root = GenesisRoot /\ rows' = <<>>
           TxsOK == \A i \in DOMAIN txs' : txs'[i].status = "accepted" => txs'[i].batch.new \in heldN
           HandlersOK == \A h \in Handlers : HandlerOK(cursor', handler'[h])
           DriversOK == \A d \in Drivers : DriverOK(driver'[d])
<1>1. held \subseteq heldN
  BY RootsGrow
<1>2. /\ GenesisRoot \in heldN /\ NoCursor \notin Cursor
      /\ cursor \in Cursor => cursor.committed \in heldN
      /\ cursor = NoCursor => ls.root = GenesisRoot /\ rows = <<>>
      /\ \A h \in Handlers : HandlerOK(cursor, handler[h])
      /\ \A d \in Drivers : DriverOK(driver[d])
      /\ \A i \in DOMAIN txs : txs[i].status = "accepted" => txs[i].batch.new \in heldN
      /\ cursor \in Cursor \cup {NoCursor}
  BY <1>1, NoCursorAssumption DEF RootsOnChain, Types
<1> SUFFICES CursorOK /\ HandlersOK /\ DriversOK /\ TxsOK
  BY <1>2 DEF RootsOnChain
<1>3. UNCHANGED txs => TxsOK
  BY <1>2
<1>4. UNCHANGED handler => HandlersOK
  BY <1>2
<1>5. UNCHANGED driver => DriversOK
  BY <1>2
<1>6. UNCHANGED <<ls, rows, cursor>> => CursorOK
  BY <1>2
<1>7. cursor = NoCursor /\ SameRows(rows, rows') /\ UNCHANGED <<ls, cursor>> => CursorOK
  <2> SUFFICES ASSUME cursor = NoCursor, SameRows(rows, rows'), UNCHANGED <<ls, cursor>>
               PROVE  CursorOK
    OBVIOUS
  <2>1. Len(rows') = 0 /\ rows' \in Seq(DbRow)
    BY <1>2 DEF SameRows, Types
  <2>2. rows' = <<>>
    BY <2>1
  <2> QED
    BY <1>2, <2>2
<1>8. cursor \in Cursor /\ UNCHANGED cursor => CursorOK
  BY <1>2
<1>9. ASSUME NEW h \in Handlers, HandlerOK(cursor', handler'[h]),
             \A g \in Handlers : g # h => handler'[g] = handler[g]
      PROVE  HandlersOK
  BY <1>2, <1>9
<1>10. ASSUME NEW d \in Drivers, DriverOK(driver'[d]),
              \A e \in Drivers : e # d => driver'[e] = driver[e]
       PROVE  DriversOK
  BY <1>2, <1>10
<1> DEFINE Goal == CursorOK /\ HandlersOK /\ DriversOK /\ TxsOK
<1>11. ASSUME NEW h \in Handlers,
              \/ \E d \in Deposits : ReceiveDeposit(h, d)
              \/ \E a \in Accounts, amount \in WithdrawAmounts : ReceiveWithdraw(h, a, amount)
       PROVE  Goal
  <2>1. UNCHANGED <<ls, driver, rows, cursor, txs>>
    BY <1>11, ReceiveEffect
  <2>2. HandlerOK(cursor', handler'[h]) /\ \A g \in Handlers : g # h => handler'[g] = handler[g]
    BY <1>2, <1>11, ReceiveEffect
  <2> HIDE DEF HandlerOK, HandlersOK, DriversOK, TxsOK, CursorOK
  <2> QED
    BY <1>3, <1>5, <1>6, <1>9, <2>1, <2>2
<1>12. ASSUME NEW h \in Handlers, HandlerInitCursor(h) PROVE Goal
  <2>1. cursor' = InitialCursor(GenesisRoot) /\ UNCHANGED <<driver, txs>> /\ GotoHandler(h, "apply")
        /\ handler[h].pc = "initCursor"
    BY <1>2, <1>12 DEF HandlerInitCursor
  <2>2. HandlerOK(cursor', handler'[h]) /\ \A g \in Handlers : g # h => handler'[g] = handler[g]
    BY <2>1, GotoHandlerEffect
  <2>3. CursorOK
    <3>1. cursor' \in Cursor
      BY <1>2, <2>1 DEF InitialCursor, Cursor, Root, NoBatch
    <3> QED
      BY <1>2, <2>1, <3>1 DEF InitialCursor
  <2> HIDE DEF HandlerOK, HandlersOK, DriversOK, TxsOK, CursorOK
  <2> QED
    BY <1>3, <1>5, <1>9, <2>1, <2>2, <2>3
<1>13. ASSUME NEW h \in Handlers, ApplyOperation(h) \/ SnapshotAfter(h) \/ SaveOperation(h) \/ ReadCursor(h)
       PROVE Goal
  <2>1. cursor \in Cursor /\ UNCHANGED <<cursor, driver, txs>> /\ handler[h].pc # "idle"
    BY <1>13 DEF ApplyOperation, SnapshotAfter, SaveOperation, ReadCursor, Types, database
  <2>2. CASE ApplyOperation(h) \/ SnapshotAfter(h)
    <3>1. HandlerOK(cursor', handler'[h]) /\ \A g \in Handlers : g # h => handler'[g] = handler[g]
      BY <2>2, SnapshotEffect
    <3> HIDE DEF HandlerOK, HandlersOK, DriversOK, TxsOK, CursorOK
    <3> QED
      BY <1>3, <1>5, <1>8, <1>9, <2>1, <3>1
  <2>3. CASE SaveOperation(h)
    <3>1. HandlerOK(cursor', handler'[h]) /\ \A g \in Handlers : g # h => handler'[g] = handler[g]
      BY <2>1, <2>3, GotoHandlerEffect DEF SaveOperation
    <3> HIDE DEF HandlerOK, HandlersOK, DriversOK, TxsOK, CursorOK
    <3> QED
      BY <1>3, <1>5, <1>8, <1>9, <2>1, <3>1
  <2>4. CASE ReadCursor(h)
    <3>1. /\ handler'[h].pc = "writeCursor" /\ handler'[h].seen = cursor
          /\ \A g \in Handlers : g # h => handler'[g] = handler[g]
      BY <2>4 DEF ReadCursor, Types, HandlerState, IdleHandler
    <3>2. HandlerOK(cursor', handler'[h])
      BY <1>2, <2>1, <3>1
    <3> HIDE DEF HandlerOK, HandlersOK, DriversOK, TxsOK, CursorOK
    <3> QED
      BY <1>3, <1>5, <1>8, <1>9, <2>1, <3>1, <3>2
  <2> QED
    BY <1>13, <2>2, <2>3, <2>4
<1>14. ASSUME NEW h \in Handlers, WritePendingRoot(h) PROVE Goal
  <2>1. /\ handler[h].pc = "writeCursor" /\ handler[h].seen \in Cursor
        /\ handler[h].seen.committed \in heldN
    BY <1>2, <1>14 DEF WritePendingRoot, Types
  <2>2. cursor' \in Cursor /\ cursor'.committed = handler[h].seen.committed /\ UNCHANGED <<driver, txs>>
    <3>1. cursor' = [handler[h].seen EXCEPT !.pending = handler[h].pendingRoot]
          /\ UNCHANGED <<driver, txs>>
      BY <1>14 DEF WritePendingRoot
    <3>2. handler[h].pendingRoot \in Root
      BY <2>1 DEF Types, HandlerState, IdleHandler
    <3> QED
      BY <2>1, <3>1, <3>2 DEF Cursor
  <2>3. EndHandler(h) \/ GotoHandler(h, "request")
    BY <1>14 DEF WritePendingRoot
  <2>4. HandlerOK(cursor', handler'[h]) /\ \A g \in Handlers : g # h => handler'[g] = handler[g]
    BY <2>1, <2>3, GotoHandlerEffect, EndHandlerEffect
  <2>5. CursorOK
    BY <1>2, <2>1, <2>2
  <2> HIDE DEF HandlerOK, HandlersOK, DriversOK, TxsOK, CursorOK
  <2> QED
    BY <1>3, <1>5, <1>9, <2>2, <2>4, <2>5
<1>15. ASSUME NEW h \in Handlers, EndHandler(h), UNCHANGED <<ls, driver, rows, cursor, txs>> PROVE Goal
  <2>1. HandlerOK(cursor', handler'[h]) /\ \A g \in Handlers : g # h => handler'[g] = handler[g]
    BY <1>15, EndHandlerEffect
  <2> HIDE DEF HandlerOK, HandlersOK, DriversOK, TxsOK, CursorOK
  <2> QED
    BY <1>3, <1>5, <1>6, <1>9, <1>15, <2>1
<1>16. ASSUME NEW d \in Drivers, EndPass(d) \/ (driver[d].pc # "idle" /\ \E pc : GotoDriver(d, pc))
       PROVE  DriversOK
  <2>1. DriverOK(driver'[d]) /\ \A e \in Drivers : e # d => driver'[e] = driver[e]
    BY <1>2, <1>16, GotoDriverEffect, EndPassEffect
  <2> HIDE DEF DriverOK, DriversOK
  <2> QED
    BY <1>10, <2>1
<1>17. ASSUME NEW d \in Drivers, StartPass(d) \/ ListDeposits(d) \/ BuildBatch(d) PROVE Goal
  <2>1. UNCHANGED <<ls, handler, rows, cursor, txs>>
    BY <1>17 DEF StartPass, ListDeposits, BuildBatch, database
  <2>2. CASE StartPass(d)
    <3>1. driver'[d].seen.committed \in heldN
      <4>1. cursor = NoCursor => driver'[d].seen = InitialCursor(ls.root)
        BY <2>2, StartPassEffect
      <4>2. cursor # NoCursor => driver'[d].seen = cursor
        BY <2>2, StartPassEffect
      <4> QED
        BY <1>2, <4>1, <4>2 DEF InitialCursor
    <3> QED
      BY <1>3, <1>4, <1>6, <1>10, <2>1, <2>2, <3>1, StartPassEffect
  <2>3. CASE ListDeposits(d) \/ BuildBatch(d)
    <3>1. DriverOK(driver'[d]) /\ \A e \in Drivers : e # d => driver'[e] = driver[e]
      <4>1. driver[d].pc # "idle"
        BY <2>3 DEF ListDeposits, BuildBatch
      <4>2. driver'[d].seen = driver[d].seen /\ \A e \in Drivers : e # d => driver'[e] = driver[e]
        BY <2>3, ListDepositsEffect, BuildBatchEffect
      <4> QED
        BY <1>2, <4>1, <4>2
    <3> HIDE DEF DriverOK, HandlersOK, DriversOK, TxsOK, CursorOK
    <3> QED
      BY <1>3, <1>4, <1>6, <1>10, <2>1, <3>1
  <2> QED
    BY <1>17, <2>2, <2>3
<1>18. ASSUME NEW d \in Drivers, Broadcast(d) PROVE Goal
  <2>1. UNCHANGED <<ls, handler, rows, cursor>>
    BY <1>18 DEF Broadcast, database
  <2>2. /\ driver'[d].pc = "wait" /\ driver'[d].seen = driver[d].seen /\ driver[d].pc # "idle"
        /\ \A e \in Drivers : e # d => driver'[e] = driver[e]
    BY <1>18 DEF Broadcast, Types, DriverState, IdleDriver
  <2>3. DriverOK(driver'[d])
    BY <1>2, <2>2
  <2>4. TxsOK
    <3> DEFINE tx == [batch |-> driver[d].batch, status |-> "mempool"]
    <3>1. txs' = Append(txs, tx) /\ tx.status = "mempool"
      BY <1>18 DEF Broadcast
    <3> HIDE DEF tx
    <3>2. \A i \in DOMAIN txs' : txs'[i] = tx \/ (i \in DOMAIN txs /\ txs'[i] = txs[i])
      BY <3>1 DEF Types
    <3> QED
      BY <1>2, <3>1, <3>2
  <2> HIDE DEF DriverOK, HandlersOK, DriversOK, TxsOK, CursorOK
  <2> QED
    BY <1>4, <1>6, <1>10, <2>1, <2>2, <2>3, <2>4
<1>19. ASSUME NEW d \in Drivers, DriverInitCursor(d) \/ CommitCursor(d) PROVE Goal
  <2>1. UNCHANGED <<handler, txs>> /\ driver[d].pc # "idle"
    BY <1>19 DEF DriverInitCursor, CommitCursor
  <2>2. cursor' \in Cursor /\ cursor'.committed \in heldN
    <3>1. CASE DriverInitCursor(d)
      BY <1>2, <3>1 DEF DriverInitCursor, Types, DriverState, IdleDriver
    <3>2. CASE CommitCursor(d)
      <4> DEFINE b == driver[d].batch
      <4>1. cursor' = [committed |-> b.new, pending |-> b.new, last |-> b.id]
        BY <3>2 DEF CommitCursor
      <4>2. b.new \in heldN
        BY <1>2, <3>2 DEF CommitCursor, Submitted
      <4>3. b.new \in Root /\ b.id \in Nat
        BY <3>2 DEF CommitCursor, Types, DriverState, IdleDriver, Batch
      <4> QED
        BY <4>1, <4>2, <4>3 DEF Cursor
    <3> QED
      BY <1>19, <3>1, <3>2
  <2>3. DriversOK
    BY <1>16, <1>19, <2>1 DEF DriverInitCursor, CommitCursor
  <2>4. CursorOK
    BY <1>2, <2>2
  <2> HIDE DEF DriverOK, HandlersOK, DriversOK, TxsOK, CursorOK
  <2> QED
    BY <1>3, <1>4, <2>1, <2>3, <2>4
<1>20. ASSUME NEW d \in Drivers,
              \/ MarkBatchIncluded(d) \/ Prove(d) \/ ProverFails(d)
              \/ GuardRefuses(d) \/ VerifierRefuses(d) \/ SubmitFails(d) \/ Decline(d)
              \/ Confirm(d) \/ RecordResult(d) \/ CommitRows(d) \/ Reopen(d)
              \/ ConfirmTimeout(d) \/ DriverFault(d) \/ BuildNothing(d) \/ RefuseWitness(d)
       PROVE  Goal
  <2>1. UNCHANGED <<ls, handler, cursor, txs>> /\ driver[d].pc # "idle"
        /\ (EndPass(d) \/ \E pc : GotoDriver(d, pc))
    BY <1>20 DEF MarkBatchIncluded, Prove, ProverFails, GuardRefuses, VerifierRefuses, SubmitFails,
       Decline, Confirm, RecordResult, CommitRows, Reopen, ConfirmTimeout, DriverFault,
       BuildNothing, RefuseWitness, database
  <2>2. SameRows(rows, rows')
    <3>1. ASSUME NEW h \in Handlers, SaveOperation(h) PROVE FALSE
      <4>1. handler'[h].pc = "readCursor" /\ handler[h].pc = "save"
        BY <3>1, GotoHandlerEffect DEF SaveOperation
      <4> QED
        BY <2>1, <4>1
    <3> QED
      BY <3>1, RowsStep
  <2>3. DriversOK
    BY <1>16, <2>1
  <2>4. CursorOK
    BY <1>2, <1>7, <1>8, <2>1, <2>2
  <2> HIDE DEF DriverOK, HandlersOK, DriversOK, TxsOK, CursorOK
  <2> QED
    BY <1>3, <1>4, <2>1, <2>3, <2>4
<1>21. ASSUME NEW b \in 1..MaxBatches, CancelBatch(b) PROVE Goal
  <2>1. UNCHANGED <<ls, handler, driver, cursor, txs>>
    BY <1>21 DEF CancelBatch, memory
  <2>2. SameRows(rows, rows')
    <3>1. rows \in Seq(DbRow) /\ "pending" \in Status /\ b \in Nat
      BY DEF Types, Status
    <3> QED
      BY <1>21, <3>1, MarkRows DEF CancelBatch
  <2>3. CursorOK
    BY <1>2, <1>7, <1>8, <2>1, <2>2
  <2> HIDE DEF DriverOK, HandlersOK, DriversOK, TxsOK, CursorOK
  <2> QED
    BY <1>3, <1>4, <1>5, <2>1, <2>3
<1>22. ASSUME NEW i \in DOMAIN txs, Deliver(i) PROVE Goal
  <2>1. UNCHANGED <<ls, handler, driver, rows, cursor>>
    BY <1>22 DEF Deliver, memory, database
  <2>2. /\ DOMAIN txs' = DOMAIN txs
        /\ \A k \in DOMAIN txs : txs'[k].batch = txs[k].batch /\ (k # i => txs'[k] = txs[k])
        /\ txs'[i].status = "accepted" => chain'.roots = Append(chain.roots, txs[i].batch.new)
    BY <1>22, DeliverEffect
  <2>3. txs'[i].status = "accepted" => txs[i].batch.new \in heldN
    <3> SUFFICES ASSUME txs'[i].status = "accepted" PROVE txs[i].batch.new \in heldN
      OBVIOUS
    <3>1. chain.roots \in Seq(Root)
      BY DEF Types
    <3>2. /\ Len(chain.roots) + 1 \in DOMAIN chain'.roots
          /\ chain'.roots[Len(chain.roots) + 1] = txs[i].batch.new
      BY <2>2, <3>1
    <3> QED
      BY <3>2 DEF Range
  <2>4. TxsOK
    BY <1>2, <2>2, <2>3
  <2> HIDE DEF DriverOK, HandlersOK, DriversOK, TxsOK, CursorOK
  <2> QED
    BY <1>4, <1>5, <1>6, <2>1, <2>4
<1>23. ASSUME Restart \/ RestartBlind PROVE Goal
  <2>1. /\ UNCHANGED <<rows, cursor, txs>>
        /\ \A h \in Handlers : handler'[h].pc = "idle"
        /\ \A d \in Drivers : driver'[d].pc = "idle"
    BY <1>23 DEF Restart, RestartBlind, database, IdleHandler, IdleDriver
  <2>2. HandlersOK /\ DriversOK
    BY <2>1
  <2>3. CursorOK
    <3>1. rows = <<>> => ls'.root = GenesisRoot
      <4>1. NewLocalState.root = GenesisRoot
        BY DEF NewLocalState
      <4> QED
        BY <1>23, <4>1, RehydrateType DEF Restart, RestartBlind, Types
    <3> QED
      BY <1>2, <2>1, <3>1
  <2> HIDE DEF DriverOK, HandlersOK, DriversOK, TxsOK, CursorOK
  <2> QED
    BY <1>3, <2>1, <2>2, <2>3
<1>24. ASSUME UNCHANGED vars PROVE Goal
  <2>1. UNCHANGED <<ls, handler, driver, rows, cursor, txs>>
    BY <1>24 DEF vars, memory, database
  <2> HIDE DEF DriverOK, HandlersOK, DriversOK, TxsOK, CursorOK
  <2> QED
    BY <1>3, <1>4, <1>5, <1>6, <2>1
<1>25. ASSUME NEW h \in Handlers,
              RefuseOperation(h) \/ CollideOnSave(h) \/ SaveWithdrawRequest(h) \/ HandlerFault(h)
       PROVE  EndHandler(h) /\ UNCHANGED <<ls, driver, rows, cursor, txs>>
  BY <1>25 DEF RefuseOperation, CollideOnSave, SaveWithdrawRequest, HandlerFault, database
<1> HIDE DEF Goal
<1>26. ASSUME NEW h \in Handlers, HandlerStep(h) \/ HandlerFault(h) PROVE Goal
  BY <1>12, <1>13, <1>14, <1>15, <1>25, <1>26 DEF HandlerStep
<1>27. ASSUME NEW d \in Drivers,
              PassStep(d) \/ BuildStep(d) \/ ConfirmTimeout(d) \/ DriverFault(d)
       PROVE  Goal
  BY <1>17, <1>18, <1>19, <1>20, <1>27 DEF PassStep, BuildStep
<1>28. Goal
  BY <1>11, <1>21, <1>22, <1>23, <1>24, <1>26, <1>27 DEF Next
<1> QED
  BY <1>28 DEF Goal

\* Init establishes what RootsKept and SubmittedKept carry along.
LEMMA InitRoots == Init => Submitted /\ RootsOnChain
<1> SUFFICES ASSUME Init PROVE Submitted /\ RootsOnChain
  OBVIOUS
<1>1. /\ \A h \in Handlers : handler[h].pc = "idle"
      /\ \A d \in Drivers : driver[d].pc = "idle"
  BY DEF Init, IdleHandler, IdleDriver
<1>2. chain.roots = <<GenesisRoot>> /\ GenesisRoot \in Range(<<GenesisRoot>>)
  BY DEF Init, Range
<1>3. cursor = NoCursor /\ rows = <<>> /\ txs = <<>> /\ ls.root = GenesisRoot
  BY DEF Init, NewLocalState
<1> QED
  BY <1>1, <1>2, <1>3, NoCursorAssumption DEF Submitted, RootsOnChain

\* Whatever handlers, drivers, faults, cancellations and restarts do, the cursor's
\* committed_root is a root the chain has held.
THEOREM CommittedRootTheorem == Spec => []CommittedRootOnChain
<1> DEFINE I == Types /\ Submitted /\ RootsOnChain
<1>1. Init => I
  BY InitTypes, InitRoots
<1>2. I /\ [Next]_vars => I'
  BY NextTypes, SubmittedKept, RootsKept
<1>3. I => CommittedRootOnChain
  BY DEF Types, RootsOnChain, CommittedRootOnChain
<1> QED
  BY <1>1, <1>2, <1>3, PTL DEF Spec

-----------------------------------------------------------------------------
(* What a step does to what the drivers hold and to what was submitted *)

\* The batch a pass builds from the rows it has listed.
BatchOf(d) == [id |-> batchSeq + 1, old |-> OldRoot(d),
               new |-> Last(Transitions(d)).rootAfter, ops |-> Transitions(d)]

\* Between building a batch and the end of the pass.
Holding == {"mark", "prove", "submit", "wait", "record", "commit", "commitCursor", "reopen"}

\* A driver keeps the rows and the batch it holds, forgets them when a pass starts
\* or ends, lists the pending deposits, or builds a batch.
LEMMA DriverStep ==
    ASSUME Types, [Next]_vars, NEW e \in Drivers
    PROVE  \/ /\ driver'[e].pending = driver[e].pending /\ driver'[e].batch = driver[e].batch
              /\ driver'[e].pc \in Holding => driver[e].pc \in Holding
           \/ /\ driver'[e].pending = <<>> /\ driver'[e].batch = NoBatchBuilt
              /\ driver'[e].batch.ops = <<>> /\ driver'[e].pc \notin Holding
           \/ /\ ListDeposits(e) /\ driver'[e].pending = ListPending(rows, "deposit")
              /\ driver'[e].batch = driver[e].batch /\ driver'[e].pc \notin Holding
           \/ /\ BuildBatch(e) /\ driver'[e].pending = <<>> /\ driver'[e].batch = BatchOf(e)
              /\ driver'[e].pc = "mark"
<1> DEFINE Kept == /\ driver'[e].pending = driver[e].pending /\ driver'[e].batch = driver[e].batch
                   /\ driver'[e].pc \in Holding => driver[e].pc \in Holding
           Forgot == /\ driver'[e].pending = <<>> /\ driver'[e].batch = NoBatchBuilt
                     /\ driver'[e].batch.ops = <<>> /\ driver'[e].pc \notin Holding
           Listed == /\ ListDeposits(e) /\ driver'[e].pending = ListPending(rows, "deposit")
                     /\ driver'[e].batch = driver[e].batch /\ driver'[e].pc \notin Holding
           Built == /\ BuildBatch(e) /\ driver'[e].pending = <<>> /\ driver'[e].batch = BatchOf(e)
                    /\ driver'[e].pc = "mark"
           Goal == Kept \/ Forgot \/ Listed \/ Built
<1> SUFFICES Goal
  OBVIOUS
<1>1. /\ IdleDriver.pending = <<>> /\ IdleDriver.batch = NoBatchBuilt /\ IdleDriver.pc = "idle"
      /\ NoBatchBuilt.ops = <<>>
  BY DEF IdleDriver, NoBatchBuilt
<1>2. "idle" \notin Holding /\ "initCursor" \notin Holding /\ "deposits" \notin Holding
      /\ "build" \notin Holding
  BY DEF Holding
<1>3. CASE driver'[e] = driver[e]
  BY <1>3
<1>4. CASE driver'[e] = IdleDriver
  BY <1>1, <1>2, <1>4
<1>5. ASSUME NEW d \in Drivers, EndPass(d) PROVE Goal
  BY <1>3, <1>4, <1>5, EndPassEffect
<1>6. ASSUME NEW d \in Drivers, NEW pc, GotoDriver(d, pc), driver[d].pc # "idle",
             pc \in Holding => driver[d].pc \in Holding
      PROVE  Goal
  <2>1. CASE e = d
    BY <1>6, <2>1, GotoDriverEffect
  <2>2. CASE e # d
    BY <1>3, <1>6, <2>2, GotoDriverEffect
  <2> QED
    BY <2>1, <2>2
<1>7. ASSUME NEW d \in Drivers, StartPass(d) PROVE Goal
  <2>1. CASE e = d
    <3>1. driver'[e].pc = "initCursor" \/ driver'[e].pc = "deposits"
      BY <1>7, <2>1, StartPassEffect
    <3>2. driver'[e].pending = <<>> /\ driver'[e].batch = NoBatchBuilt /\ driver'[e].batch.ops = <<>>
      BY <1>7, <2>1, StartPassEffect
    <3> QED
      BY <1>2, <3>1, <3>2
  <2>2. CASE e # d
    BY <1>3, <1>7, <2>2, StartPassEffect
  <2> QED
    BY <2>1, <2>2
<1>8. ASSUME NEW d \in Drivers, ListDeposits(d) PROVE Goal
  <2>1. CASE e = d
    BY <1>2, <1>8, <2>1, ListDepositsEffect
  <2>2. CASE e # d
    BY <1>3, <1>8, <2>2, ListDepositsEffect
  <2> QED
    BY <2>1, <2>2
<1>9. ASSUME NEW d \in Drivers, BuildBatch(d) PROVE Goal
  <2>1. CASE e = d
    BY <1>9, <2>1, BuildBatchEffect DEF BatchOf
  <2>2. CASE e # d
    BY <1>3, <1>9, <2>2, BuildBatchEffect
  <2> QED
    BY <2>1, <2>2
<1>10. ASSUME NEW d \in Drivers, Broadcast(d) PROVE Goal
  <2>1. /\ driver'[d].pending = driver[d].pending /\ driver'[d].batch = driver[d].batch
        /\ driver[d].pc \in Holding
        /\ \A f \in Drivers : f # d => driver'[f] = driver[f]
    BY <1>10 DEF Broadcast, Types, DriverState, IdleDriver, Holding
  <2>2. CASE e = d
    BY <2>1, <2>2
  <2>3. CASE e # d
    BY <1>3, <2>1, <2>3
  <2> QED
    BY <2>2, <2>3
<1>11. ASSUME NEW d \in Drivers,
              \/ DriverInitCursor(d) \/ MarkBatchIncluded(d) \/ Prove(d) \/ ProverFails(d)
              \/ GuardRefuses(d) \/ VerifierRefuses(d) \/ SubmitFails(d) \/ Decline(d)
              \/ Confirm(d) \/ RecordResult(d) \/ CommitRows(d) \/ ConfirmTimeout(d)
       PROVE  Goal
  <2>1. \E pc : /\ GotoDriver(d, pc) /\ driver[d].pc # "idle"
                /\ pc \in Holding => driver[d].pc \in Holding
    BY <1>11 DEF DriverInitCursor, MarkBatchIncluded, Prove, ProverFails,
       GuardRefuses, VerifierRefuses, SubmitFails, Decline, Confirm, RecordResult, CommitRows,
       ConfirmTimeout, Holding
  <2> HIDE DEF Goal
  <2> QED
    BY <1>6, <2>1
<1>12. ASSUME NEW d \in Drivers, DriverFault(d) PROVE Goal
  <2>1. EndPass(d) \/ (GotoDriver(d, "reopen") /\ driver[d].pc \in Holding /\ driver[d].pc # "idle")
    BY <1>12 DEF DriverFault, Holding
  <2> HIDE DEF Goal
  <2> QED
    BY <1>5, <1>6, <2>1
<1>13. ASSUME NEW d \in Drivers,
              BuildNothing(d) \/ RefuseWitness(d) \/ CommitCursor(d) \/ Reopen(d)
       PROVE  Goal
  <2> HIDE DEF Goal
  <2> QED
    BY <1>5, <1>13 DEF BuildNothing, RefuseWitness, CommitCursor, Reopen
<1>14. CASE Restart \/ RestartBlind
  BY <1>4, <1>14 DEF Restart, RestartBlind
<1>15. CASE UNCHANGED driver
  BY <1>3, <1>15
<1>16. ASSUME NEW d \in Drivers,
              PassStep(d) \/ BuildStep(d) \/ ConfirmTimeout(d) \/ DriverFault(d)
       PROVE  Goal
  <2> HIDE DEF Goal
  <2> QED
    BY <1>7, <1>8, <1>9, <1>10, <1>11, <1>12, <1>13, <1>16 DEF PassStep, BuildStep
<1>17. ASSUME NEW h \in Handlers,
              \/ \E d \in Deposits : ReceiveDeposit(h, d)
              \/ \E a \in Accounts, amount \in WithdrawAmounts : ReceiveWithdraw(h, a, amount)
              \/ HandlerStep(h) \/ HandlerFault(h)
       PROVE  UNCHANGED driver
  BY <1>17 DEF ReceiveDeposit, ReceiveWithdraw, HandlerStep, HandlerFault, HandlerInitCursor,
     ApplyOperation, RefuseOperation, SnapshotAfter, SaveOperation, CollideOnSave, ReadCursor,
     WritePendingRoot, SaveWithdrawRequest
<1> HIDE DEF Goal
<1>18. CASE (\E b \in 1..MaxBatches : CancelBatch(b)) \/ (\E i \in DOMAIN txs : Deliver(i))
            \/ UNCHANGED vars
  BY <1>15, <1>18 DEF CancelBatch, Deliver, vars, memory
<1> QED
  BY <1>14, <1>15, <1>16, <1>17, <1>18 DEF Next

\* A tx keeps its batch.  It is added by a broadcast, and a block that accepts
\* it settles its operations.
LEMMA TxsStep ==
    ASSUME Types, [Next]_vars
    PROVE  \/ UNCHANGED <<txs, chain>>
           \/ \E d \in Drivers :
                 /\ Broadcast(d) /\ UNCHANGED chain
                 /\ txs' = Append(txs, [batch |-> driver[d].batch, status |-> "mempool"])
           \/ \E i \in DOMAIN txs : Deliver(i)
<1>1. ASSUME NEW d \in Drivers, Broadcast(d)
      PROVE  UNCHANGED chain /\ txs' = Append(txs, [batch |-> driver[d].batch, status |-> "mempool"])
  BY <1>1 DEF Broadcast
<1>2. ASSUME NEW d \in Drivers,
             PassStep(d) \/ BuildStep(d) \/ ConfirmTimeout(d) \/ DriverFault(d), ~Broadcast(d)
      PROVE  UNCHANGED <<txs, chain>>
  BY <1>2 DEF PassStep, BuildStep, StartPass, DriverInitCursor, ListDeposits, Prove, ProverFails,
     GuardRefuses, VerifierRefuses, SubmitFails, Confirm, RecordResult, CommitCursor,
     BuildNothing, RefuseWitness, BuildBatch, ConfirmTimeout, DriverFault, MarkBatchIncluded,
     Decline, CommitRows, Reopen
<1>3. ASSUME NEW h \in Handlers,
             \/ \E d \in Deposits : ReceiveDeposit(h, d)
             \/ \E a \in Accounts, amount \in WithdrawAmounts : ReceiveWithdraw(h, a, amount)
             \/ HandlerStep(h) \/ HandlerFault(h)
      PROVE  UNCHANGED <<txs, chain>>
  BY <1>3 DEF ReceiveDeposit, ReceiveWithdraw, HandlerStep, HandlerFault, HandlerInitCursor,
     ApplyOperation, RefuseOperation, SnapshotAfter, SaveOperation, CollideOnSave, ReadCursor,
     WritePendingRoot, SaveWithdrawRequest
<1>4. ASSUME \/ \E b \in 1..MaxBatches : CancelBatch(b)
             \/ Restart \/ RestartBlind \/ UNCHANGED vars
      PROVE  UNCHANGED <<txs, chain>>
  BY <1>4 DEF CancelBatch, Restart, RestartBlind, vars
<1> QED
  BY <1>1, <1>2, <1>3, <1>4 DEF Next

\* Who changes the manager.
LEMMA ManagerStep ==
    ASSUME [Next]_vars
    PROVE  UNCHANGED ls \/ (\E h \in Handlers : ApplyOperation(h)) \/ Restart \/ RestartBlind
<1>1. ASSUME NEW d \in Drivers,
             PassStep(d) \/ BuildStep(d) \/ ConfirmTimeout(d) \/ DriverFault(d)
      PROVE  UNCHANGED ls
  BY <1>1 DEF PassStep, BuildStep, StartPass, DriverInitCursor, ListDeposits, Prove, ProverFails,
     GuardRefuses, VerifierRefuses, SubmitFails, Broadcast, Confirm, RecordResult, CommitCursor,
     BuildNothing, RefuseWitness, BuildBatch, ConfirmTimeout, DriverFault, MarkBatchIncluded,
     Decline, CommitRows, Reopen
<1>2. ASSUME NEW h \in Handlers,
             \/ \E d \in Deposits : ReceiveDeposit(h, d)
             \/ \E a \in Accounts, amount \in WithdrawAmounts : ReceiveWithdraw(h, a, amount)
             \/ HandlerStep(h) \/ HandlerFault(h)
      PROVE  UNCHANGED ls \/ ApplyOperation(h)
  BY <1>2 DEF ReceiveDeposit, ReceiveWithdraw, HandlerStep, HandlerFault, HandlerInitCursor,
     RefuseOperation, SnapshotAfter, SaveOperation, CollideOnSave, ReadCursor,
     WritePendingRoot, SaveWithdrawRequest
<1>3. ASSUME \/ \E b \in 1..MaxBatches : CancelBatch(b)
             \/ \E i \in DOMAIN txs : Deliver(i)
             \/ UNCHANGED vars
      PROVE  UNCHANGED ls
  BY <1>3 DEF CancelBatch, Deliver, vars, memory
<1> QED
  BY <1>1, <1>2, <1>3 DEF Next

-----------------------------------------------------------------------------
(* Which operation a row stands for *)

\* The rows in the database and those that the handlers are working on.
Known ==
    {rows[i] : i \in DOMAIN rows} \cup
    {handler[h].row : h \in {g \in Handlers : handler[g].pc # "idle"}}

\* A withdrawal has an id the sequence has handed out, and the id tells its nullifier.
Named ==
    /\ \A x \in Known : x.kind = "withdrawal" => x.id \in 1..wdSeq
    /\ \A x, y \in Known :
          x.kind = "withdrawal" /\ Key(x) = Key(y) => x.nullifier = y.nullifier

\* The rows and the handlers' operations after a step are those before it, and
\* the one of a request that has just come in.
LEMMA KnownStep ==
    ASSUME Types, Types', [Next]_vars
    PROVE  \/ /\ wdSeq' \in {wdSeq, wdSeq + 1}
              /\ \A x \in Known' : \E y \in Known : SameOp(y, x)
           \/ \E h \in Handlers :
                 /\ handler'[h].row.kind = "withdrawal" => handler'[h].row.id = wdSeq'
                 /\ wdSeq' = wdSeq + 1 \/ (wdSeq' = wdSeq /\ handler'[h].row.kind = "deposit")
                 /\ \A x \in Known' : x = handler'[h].row \/ \E y \in Known : SameOp(y, x)
<1> DEFINE Busy(g) == handler[g].pc # "idle"
           BusyN(g) == handler'[g].pc # "idle"
<1>1. \A x \in Known : SameOp(x, x)
  BY DEF SameOp
<1>2. ASSUME NEW i \in DOMAIN rows'
      PROVE  \E y \in Known : SameOp(y, rows'[i])
  <2>1. rows \in Seq(DbRow) /\ rows' \in Seq(DbRow)
    BY DEF Types
  <2>2. CASE SameRows(rows, rows')
    <3>1. i \in DOMAIN rows /\ SameOp(rows[i], rows'[i])
      BY <1>2, <2>1, <2>2 DEF SameRows, SameRow
    <3> QED
      BY <3>1 DEF Known
  <2>3. ASSUME NEW h \in Handlers, SaveOperation(h)
        PROVE  \E y \in Known : SameOp(y, rows'[i])
    <3>1. handler[h].pc # "idle" /\ handler[h].row \in DbRow /\ rows' = SavePending(rows, handler[h].row)
      BY <2>3 DEF SaveOperation, Types, HandlerState, IdleHandler
    <3>2. rows'[i] = handler[h].row \/ (i \in DOMAIN rows /\ rows'[i] = rows[i])
      <4> DEFINE x == handler[h].row
      <4> HIDE DEF x
      <4>1. x \in DbRow /\ rows' = SavePending(rows, x)
        BY <3>1 DEF x
      <4>2. i \in 1..Len(rows') /\ DOMAIN rows = 1..Len(rows)
        BY <1>2, <2>1
      <4> DEFINE q == SavePending(rows, x)
      <4>3. \A k \in 1..Len(q) : \/ q[k] = x
                                 \/ k \in 1..Len(rows) /\ q[k] = rows[k] /\ Key(rows[k]) # Key(x)
        BY <2>1, <4>1, SaveRow
      <4>4. rows'[i] = x \/ (i \in 1..Len(rows) /\ rows'[i] = rows[i])
        <5> HIDE DEF q
        <5>1. rows' = q
          BY <4>1 DEF q
        <5> QED
          BY <4>2, <4>3, <5>1
      <4> QED
        BY <4>2, <4>4 DEF x
    <3>3. rows'[i] \in Known
      BY <3>1, <3>2 DEF Known
    <3> QED
      BY <1>1, <3>3
  <2> QED
    BY <2>2, <2>3, RowsStep
<1>3. ASSUME NEW g \in Handlers, Busy(g), handler'[g] = handler[g] \/ SameOp(handler[g].row, handler'[g].row)
      PROVE  \E y \in Known : SameOp(y, handler'[g].row)
  <2>1. handler[g].row \in Known
    BY <1>3 DEF Known
  <2> QED
    BY <1>1, <1>3, <2>1
<1>4. ASSUME NEW x \in Known', x \notin {rows'[i] : i \in DOMAIN rows'}
      PROVE  \E g \in Handlers : BusyN(g) /\ x = handler'[g].row
  BY <1>4 DEF Known
<1>5. ASSUME wdSeq' \in {wdSeq, wdSeq + 1},
             \A g \in Handlers : BusyN(g) =>
                Busy(g) /\ (handler'[g] = handler[g] \/ SameOp(handler[g].row, handler'[g].row))
      PROVE  /\ wdSeq' \in {wdSeq, wdSeq + 1}
             /\ \A x \in Known' : \E y \in Known : SameOp(y, x)
  <2>1. ASSUME NEW x \in Known' PROVE \E y \in Known : SameOp(y, x)
    <3>1. CASE x \in {rows'[i] : i \in DOMAIN rows'}
      BY <1>2, <3>1
    <3>2. CASE x \notin {rows'[i] : i \in DOMAIN rows'}
      BY <1>3, <1>4, <1>5, <3>2
    <3> QED
      BY <3>1, <3>2
  <2> QED
    BY <1>5, <2>1
<1> DEFINE Goal == \/ /\ wdSeq' \in {wdSeq, wdSeq + 1}
                      /\ \A x \in Known' : \E y \in Known : SameOp(y, x)
                   \/ \E h \in Handlers :
                         /\ handler'[h].row.kind = "withdrawal" => handler'[h].row.id = wdSeq'
                         /\ wdSeq' = wdSeq + 1 \/ (wdSeq' = wdSeq /\ handler'[h].row.kind = "deposit")
                         /\ \A x \in Known' : x = handler'[h].row \/ \E y \in Known : SameOp(y, x)
<1>6. ASSUME NEW h \in Handlers,
             \/ \E d \in Deposits : ReceiveDeposit(h, d)
             \/ \E a \in Accounts, amount \in WithdrawAmounts : ReceiveWithdraw(h, a, amount)
      PROVE  Goal
  <2>1. handler[h].pc = "idle" /\ wdSeq' \in {wdSeq, wdSeq + 1}
        /\ \A g \in Handlers : g # h => handler'[g] = handler[g]
    BY <1>6, ReceiveEffect
  <2>2. CASE handler'[h] = handler[h]
    <3> HIDE DEF Goal
    <3>1. \A g \in Handlers : BusyN(g) =>
                Busy(g) /\ (handler'[g] = handler[g] \/ SameOp(handler[g].row, handler'[g].row))
      BY <2>1, <2>2
    <3> QED
      BY <1>5, <2>1, <3>1 DEF Goal
  <2>3. CASE handler'[h] # handler[h]
    <3>1. handler'[h].row.kind = "withdrawal" => handler'[h].row.id = wdSeq' /\ wdSeq' = wdSeq + 1
      BY <1>6, <2>3, ReceiveEffect
    <3>2. handler'[h].row.kind \in {"deposit", "withdrawal"}
      <4>1. handler'[h] # IdleHandler
        BY <2>1, <2>3 DEF Types, HandlerState
      <4> QED
        BY <4>1 DEF Types, HandlerState, DbRow, Row
    <3>3. ASSUME NEW x \in Known' PROVE x = handler'[h].row \/ \E y \in Known : SameOp(y, x)
      <4>1. CASE x \in {rows'[i] : i \in DOMAIN rows'}
        BY <1>2, <4>1
      <4>2. CASE x \notin {rows'[i] : i \in DOMAIN rows'}
        BY <1>3, <1>4, <2>1, <4>2
      <4> QED
        BY <4>1, <4>2
    <3> HIDE DEF Busy, BusyN
    <3> QED
      BY <2>1, <3>1, <3>2, <3>3
  <2> QED
    BY <2>2, <2>3
<1>7. ASSUME NEW h \in Handlers, HandlerStep(h) \/ HandlerFault(h)
      PROVE  /\ wdSeq' = wdSeq
             /\ \A g \in Handlers : BusyN(g) =>
                Busy(g) /\ (handler'[g] = handler[g] \/ SameOp(handler[g].row, handler'[g].row))
  <2>1. wdSeq' = wdSeq /\ handler[h].pc # "idle"
    BY <1>7 DEF HandlerStep, HandlerFault, HandlerInitCursor, ApplyOperation, RefuseOperation,
       SnapshotAfter, SaveOperation, CollideOnSave, ReadCursor, WritePendingRoot,
       SaveWithdrawRequest, database
  <2>2. CASE EndHandler(h)
    BY <2>1, <2>2, EndHandlerEffect
  <2>3. CASE \E pc : GotoHandler(h, pc)
    BY <2>1, <2>3, GotoHandlerEffect DEF SameOp
  <2>4. CASE ApplyOperation(h) \/ SnapshotAfter(h)
    BY <2>1, <2>4, SnapshotEffect
  <2>5. CASE ReadCursor(h)
    <3>1. /\ handler'[h].row = handler[h].row
          /\ \A g \in Handlers : g # h => handler'[g] = handler[g]
      BY <2>5 DEF ReadCursor, Types, HandlerState, IdleHandler
    <3> QED
      BY <2>1, <3>1 DEF SameOp
  <2>6. \/ EndHandler(h) \/ (\E pc : GotoHandler(h, pc)) \/ ApplyOperation(h) \/ SnapshotAfter(h)
        \/ ReadCursor(h)
    BY <1>7 DEF HandlerStep, HandlerFault, HandlerInitCursor, RefuseOperation,
       SaveOperation, CollideOnSave, WritePendingRoot, SaveWithdrawRequest
  <2> QED
    BY <2>2, <2>3, <2>4, <2>5, <2>6
<1>8. ASSUME UNCHANGED <<handler, wdSeq>>
      PROVE  /\ wdSeq' = wdSeq
             /\ \A g \in Handlers : BusyN(g) => Busy(g) /\ handler'[g] = handler[g]
  BY <1>8
<1>9. ASSUME Restart \/ RestartBlind
      PROVE  wdSeq' = wdSeq /\ \A g \in Handlers : ~BusyN(g)
  BY <1>9 DEF Restart, RestartBlind, IdleHandler, database
<1>10. ASSUME NEW d \in Drivers,
              PassStep(d) \/ BuildStep(d) \/ ConfirmTimeout(d) \/ DriverFault(d)
       PROVE  UNCHANGED <<handler, wdSeq>>
  BY <1>10 DEF PassStep, BuildStep, StartPass, DriverInitCursor, ListDeposits, Prove, ProverFails,
     GuardRefuses, VerifierRefuses, SubmitFails, Broadcast, Confirm, RecordResult, CommitCursor,
     BuildNothing, RefuseWitness, BuildBatch, ConfirmTimeout, DriverFault, MarkBatchIncluded,
     Decline, CommitRows, Reopen, database
<1>11. ASSUME \/ \E b \in 1..MaxBatches : CancelBatch(b)
              \/ \E i \in DOMAIN txs : Deliver(i)
              \/ UNCHANGED vars
       PROVE  UNCHANGED <<handler, wdSeq>>
  BY <1>11 DEF CancelBatch, Deliver, vars, memory, database
<1> HIDE DEF Busy, BusyN
<1>12. Goal
  <2>1. CASE \E h \in Handlers :
                \/ \E d \in Deposits : ReceiveDeposit(h, d)
                \/ \E a \in Accounts, amount \in WithdrawAmounts : ReceiveWithdraw(h, a, amount)
    <3> HIDE DEF Goal
    <3> QED
      BY <1>6, <2>1
  <2>2. CASE \E h \in Handlers : HandlerStep(h) \/ HandlerFault(h)
    BY <1>5, <1>7, <2>2
  <2>3. CASE Restart \/ RestartBlind
    BY <1>5, <1>9, <2>3
  <2>4. CASE UNCHANGED <<handler, wdSeq>>
    BY <1>5, <1>8, <2>4
  <2> HIDE DEF Goal
  <2> QED
    BY <1>10, <1>11, <2>1, <2>2, <2>3, <2>4 DEF Next
<1> QED
  BY <1>12

\* Named is kept: a withdrawal that comes in has an id nobody knows.
LEMMA NamedKept ==
    ASSUME Types, Types', Named, [Next]_vars
    PROVE  Named'
<1>1. wdSeq \in Nat /\ wdSeq' \in Nat
  BY SettlementAssumption DEF Types
<1>2. CASE /\ wdSeq' \in {wdSeq, wdSeq + 1}
           /\ \A x \in Known' : \E y \in Known : SameOp(y, x)
  <2>1. \A n \in 1..wdSeq : n \in 1..wdSeq'
    BY <1>1, <1>2
  <2> QED
    BY <1>2, <2>1 DEF Named, SameOp, Key
<1>3. ASSUME NEW h \in Handlers,
             handler'[h].row.kind = "withdrawal" => handler'[h].row.id = wdSeq',
             wdSeq' = wdSeq + 1 \/ (wdSeq' = wdSeq /\ handler'[h].row.kind = "deposit"),
             \A x \in Known' : x = handler'[h].row \/ \E y \in Known : SameOp(y, x)
      PROVE  Named'
  <2> DEFINE r == handler'[h].row
  <2>1. \A n \in 1..wdSeq : n \in 1..wdSeq' /\ (r.kind = "withdrawal" => n # wdSeq')
    BY <1>1, <1>3
  <2>2. r.kind = "withdrawal" => r.id \in 1..wdSeq' /\ r.id = wdSeq'
    BY <1>1, <1>3
  <2> HIDE DEF r
  <2>3. \A x \in Known' : x = r \/ \E y \in Known : SameOp(y, x)
    BY <1>3 DEF r
  <2>4. ASSUME NEW x \in Known', x.kind = "withdrawal" PROVE x.id \in 1..wdSeq'
    BY <2>1, <2>2, <2>3, <2>4 DEF Named, SameOp
  <2>5. ASSUME NEW x \in Known', NEW y \in Known', x.kind = "withdrawal", Key(x) = Key(y), x # y
        PROVE  x.nullifier = y.nullifier
    <3>1. y.kind = "withdrawal" /\ x.id = y.id
      BY <2>5 DEF Key
    <3>2. ASSUME NEW z \in Known', z.kind = "withdrawal", z # r PROVE z.id \in 1..wdSeq
      BY <2>3, <3>2 DEF Named, SameOp
    <3>3. x # r /\ y # r
      BY <2>1, <2>2, <2>5, <3>1, <3>2
    <3>4. PICK u \in Known, v \in Known : SameOp(u, x) /\ SameOp(v, y)
      BY <2>3, <3>3
    <3> QED
      BY <2>5, <3>4 DEF Named, SameOp, Key
  <2> QED
    BY <2>4, <2>5 DEF Named
<1> QED
  BY <1>2, <1>3, KnownStep

-----------------------------------------------------------------------------
(* Records *)

\* The store has the row of the operation.
RecordedIn(r, op) ==
    \E i \in DOMAIN r : /\ Key(r[i]) = Key(op)
                        /\ op.kind = "withdrawal" => r[i].nullifier = op.nullifier

\* The same of every operation of a batch.
AllRecorded(r, ops) == \A k \in DOMAIN ops : RecordedIn(r, ops[k])

\* SettledOn, for any operation.
SettledIn(c, op) ==
    IF op.kind = "deposit" THEN op.id \in c.deposits ELSE op.nullifier \in c.nullifiers

\* What the drivers hold and the chain was sent has a row, what the chain accepted
\* is settled, and the tables of withdraw requests and records speak of such rows.
Recorded ==
    /\ \A d \in Drivers : AllRecorded(rows, driver[d].pending) /\ AllRecorded(rows, driver[d].batch.ops)
    /\ \A i \in DOMAIN txs :
          /\ AllRecorded(rows, txs[i].batch.ops)
          /\ txs[i].status = "accepted"
               => \A k \in DOMAIN txs[i].batch.ops : SettledIn(chain, txs[i].batch.ops[k])
    /\ RecordsSettled
    /\ requests \cup records \subseteq 1..wdSeq

\* A row is never lost, and stays the row of its operation.
LEMMA RecordedKept ==
    ASSUME Types, Named, [Next]_vars, NEW op, RecordedIn(rows, op)
    PROVE  RecordedIn(rows', op)
<1>1. PICK i \in DOMAIN rows : /\ Key(rows[i]) = Key(op)
                               /\ op.kind = "withdrawal" => rows[i].nullifier = op.nullifier
  BY DEF RecordedIn
<1>2. rows \in Seq(DbRow) /\ i \in 1..Len(rows)
  BY DEF Types
<1>3. CASE SameRows(rows, rows')
  <2>1. SameOp(rows[i], rows'[i]) /\ Len(rows') = Len(rows)
    BY <1>2, <1>3 DEF SameRows, SameRow
  <2>2. i \in DOMAIN rows'
    BY <1>2, <2>1, NextTypes DEF Types
  <2> QED
    BY <1>1, <2>1, <2>2 DEF RecordedIn, SameOp, Key
<1>4. ASSUME NEW h \in Handlers, SaveOperation(h) PROVE RecordedIn(rows', op)
  <2> DEFINE x == handler[h].row
             q == SavePending(rows, x)
  <2>1. handler[h].pc # "idle" /\ x \in DbRow /\ rows' = q
    BY <1>4 DEF SaveOperation, Types, HandlerState, IdleHandler
  <2>2. x \in Known /\ rows[i] \in Known
    BY <2>1 DEF Known
  <2> HIDE DEF x
  <2>3. /\ q \in Seq(DbRow) /\ Len(q) >= Len(rows)
        /\ \A k \in 1..Len(rows) : q[k] = IF Key(rows[k]) = Key(x) THEN x ELSE rows[k]
    <3>1. rows \in Seq(DbRow) /\ x \in DbRow
      BY <1>2, <2>1
    <3> QED
      BY <3>1, SaveRow, Zenon
  <2> HIDE DEF q
  <2>4. i \in DOMAIN q
    BY <1>2, <2>3
  <2>5. CASE Key(rows[i]) = Key(x)
    <3>0. q[i] = x
      BY <1>2, <2>3, <2>5
    <3>1. rows[i].kind = "withdrawal" => rows[i].nullifier = x.nullifier
      BY <2>2, <2>5 DEF Named
    <3>2. rows[i].kind = op.kind
      BY <1>1 DEF Key
    <3> QED
      BY <1>1, <2>1, <2>4, <2>5, <3>0, <3>1, <3>2 DEF RecordedIn
  <2>6. CASE Key(rows[i]) # Key(x)
    <3>1. q[i] = rows[i]
      BY <1>2, <2>3, <2>6
    <3> QED
      BY <1>1, <2>1, <2>4, <3>1 DEF RecordedIn
  <2> QED
    BY <2>5, <2>6
<1> QED
  BY <1>3, <1>4, RowsStep

\* What the chain has settled stays settled.
LEMMA SettledKept ==
    ASSUME Types, [Next]_vars, NEW op, SettledIn(chain, op)
    PROVE  SettledIn(chain', op)
<1>1. CASE UNCHANGED chain
  BY <1>1
<1>2. ASSUME NEW i \in DOMAIN txs, Deliver(i) PROVE SettledIn(chain', op)
  <2>1. \/ chain' = chain
        \/ chain.deposits \subseteq chain'.deposits /\ chain.nullifiers \subseteq chain'.nullifiers
    BY <1>2, DeliverEffect
  <2> QED
    BY <2>1 DEF SettledIn
<1> QED
  BY <1>1, <1>2, TxsStep

\* The operations of a batch that a block accepts are settled.
LEMMA DeliverSettles ==
    ASSUME Types, NEW i \in DOMAIN txs, Deliver(i), txs'[i].status = "accepted",
           NEW k \in DOMAIN txs[i].batch.ops
    PROVE  SettledIn(chain', txs[i].batch.ops[k])
<1> DEFINE b == txs[i].batch
<1>1. /\ chain'.deposits = chain.deposits \cup BatchIds(b, "deposit")
      /\ chain'.nullifiers = chain.nullifiers \cup
            {b.ops[j].nullifier : j \in {m \in DOMAIN b.ops : b.ops[m].kind = "withdrawal"}}
  BY DeliverEffect
<1>2. b.ops[k].kind = "deposit" \/ b.ops[k].kind = "withdrawal"
  <2>1. b.ops \in Seq(DbRow)
    BY DeliverEffect DEF Tx, Batch
  <2>2. b.ops[k] \in DbRow
    BY <2>1
  <2> QED
    BY <2>2 DEF DbRow, Row
<1> HIDE DEF b
<1>3. k \in DOMAIN b.ops
  BY DEF b
<1>4. SettledIn(chain', b.ops[k])
  BY <1>1, <1>2, <1>3 DEF SettledIn, BatchIds
<1> QED
  BY <1>4 DEF b

\* The tables of requests and records change in one place each.
LEMMA TablesStep ==
    ASSUME Types, [Next]_vars
    PROVE  /\ UNCHANGED requests \/ \E h \in Handlers : SaveWithdrawRequest(h)
           /\ UNCHANGED records \/ \E d \in Drivers : RecordResult(d)
<1>1. ASSUME NEW d \in Drivers,
             PassStep(d) \/ BuildStep(d) \/ ConfirmTimeout(d) \/ DriverFault(d)
      PROVE  UNCHANGED requests /\ (UNCHANGED records \/ RecordResult(d))
  BY <1>1 DEF PassStep, BuildStep, StartPass, DriverInitCursor, ListDeposits, Prove, ProverFails,
     GuardRefuses, VerifierRefuses, SubmitFails, Broadcast, Confirm, RecordResult, CommitCursor,
     BuildNothing, RefuseWitness, BuildBatch, ConfirmTimeout, DriverFault, MarkBatchIncluded,
     Decline, CommitRows, Reopen, database
<1>2. ASSUME NEW h \in Handlers,
             \/ \E d \in Deposits : ReceiveDeposit(h, d)
             \/ \E a \in Accounts, amount \in WithdrawAmounts : ReceiveWithdraw(h, a, amount)
             \/ HandlerStep(h) \/ HandlerFault(h)
      PROVE  UNCHANGED records /\ (UNCHANGED requests \/ SaveWithdrawRequest(h))
  BY <1>2 DEF ReceiveDeposit, ReceiveWithdraw, HandlerStep, HandlerFault, HandlerInitCursor,
     ApplyOperation, RefuseOperation, SnapshotAfter, SaveOperation, CollideOnSave, ReadCursor,
     WritePendingRoot, SaveWithdrawRequest, database
<1>3. ASSUME \/ \E b \in 1..MaxBatches : CancelBatch(b)
             \/ \E i \in DOMAIN txs : Deliver(i)
             \/ Restart \/ RestartBlind \/ UNCHANGED vars
      PROVE  UNCHANGED <<requests, records>>
  BY <1>3 DEF CancelBatch, Deliver, Restart, RestartBlind, vars, database
<1> QED
  BY <1>1, <1>2, <1>3 DEF Next

\* What a driver holds keeps having rows.
LEMMA HeldRecorded ==
    ASSUME Types, Named, Recorded, [Next]_vars, NEW d \in Drivers
    PROVE  AllRecorded(rows', driver'[d].pending) /\ AllRecorded(rows', driver'[d].batch.ops)
<1>1. ASSUME NEW ops, AllRecorded(rows, ops) PROVE AllRecorded(rows', ops)
  BY <1>1, RecordedKept DEF AllRecorded
<1>2. AllRecorded(rows, driver[d].pending) /\ AllRecorded(rows, driver[d].batch.ops)
  BY DEF Recorded
<1>3. AllRecorded(rows', <<>>)
  BY DEF AllRecorded
<1>4. rows \in Seq(DbRow)
  BY DEF Types
<1>5. ASSUME NEW i \in 1..Len(rows) PROVE RecordedIn(rows, rows[i])
  BY <1>4 DEF RecordedIn
<1>6. CASE driver'[d].pending = driver[d].pending /\ driver'[d].batch = driver[d].batch
  BY <1>1, <1>2, <1>6
<1>7. CASE driver'[d].pending = <<>> /\ driver'[d].batch.ops = <<>>
  BY <1>3, <1>7
<1>8. CASE driver'[d].pending = ListPending(rows, "deposit") /\ driver'[d].batch = driver[d].batch
  <2> DEFINE q == ListPending(rows, "deposit")
  <2>1. q \in Seq(DbRow) /\ \A k \in 1..Len(q) : \E i \in 1..Len(rows) : q[k] = rows[i]
    BY <1>4, ListPendingRows
  <2> HIDE DEF q
  <2>2. AllRecorded(rows, q)
    BY <1>5, <2>1 DEF AllRecorded
  <2> QED
    BY <1>1, <1>2, <1>8, <2>2 DEF q
<1>9. CASE BuildBatch(d) /\ driver'[d].pending = <<>> /\ driver'[d].batch = BatchOf(d)
  <2> DEFINE t == Transitions(d)
             p == driver[d].pending
  <2>1. driver[d].pc = "build" /\ CanBuild(d)
    BY <1>9 DEF BuildBatch
  <2>2. /\ t \in Seq(DbRow)
        /\ \A i \in 1..Len(t) : \/ \E k \in 1..Len(p) : t[i] = p[k]
                                \/ \E k \in 1..Len(rows) : t[i] = rows[k] /\ rows[k].status = "pending"
    BY <2>1, TransitionsFrom
  <2>3. p \in Seq(DbRow) /\ AllRecorded(rows, p)
    BY <1>2, <2>1 DEF Types, DriverState, IdleDriver
  <2>4. driver'[d].batch.ops = t
    BY <1>9 DEF BatchOf
  <2> HIDE DEF t, p
  <2>5. ASSUME NEW i \in 1..Len(t) PROVE RecordedIn(rows, t[i])
    <3>1. CASE \E k \in 1..Len(p) : t[i] = p[k]
      <4>1. PICK k \in 1..Len(p) : t[i] = p[k]
        BY <3>1
      <4>2. k \in DOMAIN p
        BY <2>3
      <4> QED
        BY <2>3, <4>1, <4>2 DEF AllRecorded
    <3>2. CASE \E k \in 1..Len(rows) : t[i] = rows[k]
      BY <1>5, <3>2
    <3> QED
      BY <2>2, <3>1, <3>2
  <2>6. AllRecorded(rows, t)
    BY <2>2, <2>5 DEF AllRecorded
  <2> QED
    BY <1>1, <1>3, <1>9, <2>4, <2>6
<1> QED
  BY <1>6, <1>7, <1>8, <1>9, DriverStep

\* Every step keeps the records, the held and the submitted operations backed.
LEMMA RecordedStep ==
    ASSUME Types, Types', Submitted, Named, Named', Recorded, [Next]_vars
    PROVE  Recorded'
<1>1. ASSUME NEW ops, AllRecorded(rows, ops) PROVE AllRecorded(rows', ops)
  BY <1>1, RecordedKept DEF AllRecorded
<1> DEFINE TxOK(r, c, tx) == /\ AllRecorded(r, tx.batch.ops)
                             /\ tx.status = "accepted"
                                  => \A k \in DOMAIN tx.batch.ops : SettledIn(c, tx.batch.ops[k])
<1>2. \A i \in DOMAIN txs : TxOK(rows, chain, txs[i])
  BY DEF Recorded
<1>3. ASSUME NEW i \in DOMAIN txs PROVE TxOK(rows', chain', txs[i])
  BY <1>1, <1>2, SettledKept
<1>4. \A i \in DOMAIN txs' : TxOK(rows', chain', txs'[i])
  <2>1. CASE UNCHANGED <<txs, chain>>
    BY <1>3, <2>1
  <2>2. ASSUME NEW d \in Drivers,
               txs' = Append(txs, [batch |-> driver[d].batch, status |-> "mempool"])
        PROVE  \A i \in DOMAIN txs' : TxOK(rows', chain', txs'[i])
    <3> DEFINE tx == [batch |-> driver[d].batch, status |-> "mempool"]
    <3>1. tx.batch = driver[d].batch /\ tx.status = "mempool"
      OBVIOUS
    <3>2. AllRecorded(rows', driver[d].batch.ops)
      BY <1>1 DEF Recorded
    <3>3. txs \in Seq(Tx) /\ txs' \in Seq(Tx) /\ txs' = Append(txs, tx)
      BY <2>2 DEF Types
    <3> HIDE DEF tx
    <3>4. /\ Len(txs') = Len(txs) + 1
          /\ \A i \in 1..Len(txs) : txs'[i] = txs[i]
          /\ txs'[Len(txs) + 1] = tx
      BY <3>3
    <3>5. \A i \in DOMAIN txs' : txs'[i] = tx \/ (i \in DOMAIN txs /\ txs'[i] = txs[i])
      BY <3>3, <3>4
    <3> QED
      BY <1>3, <3>1, <3>2, <3>5
  <2>3. ASSUME NEW i \in DOMAIN txs, Deliver(i)
        PROVE  \A k \in DOMAIN txs' : TxOK(rows', chain', txs'[k])
    <3>1. /\ DOMAIN txs' = DOMAIN txs
          /\ \A k \in DOMAIN txs : txs'[k].batch = txs[k].batch /\ (k # i => txs'[k] = txs[k])
      BY <2>3, DeliverEffect
    <3>2. TxOK(rows', chain', txs'[i])
      <4>1. AllRecorded(rows', txs'[i].batch.ops)
        BY <1>3, <3>1
      <4>2. txs'[i].status = "accepted" =>
               \A k \in DOMAIN txs'[i].batch.ops : SettledIn(chain', txs'[i].batch.ops[k])
        BY <2>3, <3>1, DeliverSettles
      <4> QED
        BY <4>1, <4>2
    <3> HIDE DEF TxOK
    <3> QED
      BY <1>3, <3>1, <3>2
  <2> HIDE DEF TxOK
  <2> QED
    BY <2>1, <2>2, <2>3, TxsStep
<1>5. wdSeq \in Nat /\ wdSeq' \in Nat
  BY SettlementAssumption DEF Types
<1>6. wdSeq <= wdSeq'
  <2>1. wdSeq' = wdSeq \/ wdSeq' = wdSeq + 1
    BY KnownStep
  <2> QED
    BY <1>5, <2>1
<1>7. requests' \subseteq 1..wdSeq'
  <2>1. requests \subseteq 1..wdSeq'
    BY <1>5, <1>6 DEF Recorded
  <2>2. ASSUME NEW h \in Handlers, SaveWithdrawRequest(h) PROVE requests' \subseteq 1..wdSeq'
    <3>1. /\ handler[h].pc = "request" /\ requests' = requests \cup {handler[h].row.id}
          /\ wdSeq' = wdSeq
      BY <2>2 DEF SaveWithdrawRequest
    <3>2. handler[h].row \in Known /\ handler[h].row.kind = "withdrawal"
      BY <3>1 DEF Known, Types
    <3>3. handler[h].row.id \in 1..wdSeq
      BY <3>2 DEF Named
    <3> QED
      BY <2>1, <3>1, <3>3
  <2> QED
    BY <2>1, <2>2, TablesStep
<1>8. ASSUME NEW w, \E i \in DOMAIN rows : Key(rows[i]) = <<"withdrawal", w>> /\ SettledIn(chain, rows[i])
      PROVE  \E i \in DOMAIN rows' : Key(rows'[i]) = <<"withdrawal", w>> /\ SettledIn(chain', rows'[i])
  <2>1. PICK i \in DOMAIN rows : Key(rows[i]) = <<"withdrawal", w>> /\ SettledIn(chain, rows[i])
    BY <1>8
  <2>2. RecordedIn(rows, rows[i]) /\ SettledIn(chain', rows[i])
    BY <2>1, SettledKept DEF RecordedIn
  <2>3. RecordedIn(rows', rows[i])
    BY <2>2, RecordedKept
  <2>4. PICK j \in DOMAIN rows' : /\ Key(rows'[j]) = Key(rows[i])
                                  /\ rows[i].kind = "withdrawal" => rows'[j].nullifier = rows[i].nullifier
    BY <2>3 DEF RecordedIn
  <2>5. rows[i].kind = "withdrawal" /\ rows'[j].kind = "withdrawal"
    BY <2>1, <2>4 DEF Key
  <2> QED
    BY <2>1, <2>2, <2>4, <2>5 DEF SettledIn
<1>9. ASSUME NEW w \in records'
      PROVE  \E i \in DOMAIN rows' : Key(rows'[i]) = <<"withdrawal", w>> /\ SettledIn(chain', rows'[i])
  <2>1. CASE w \in records
    <3>1. \E i \in DOMAIN rows : Key(rows[i]) = <<"withdrawal", w>> /\ SettledIn(chain, rows[i])
      BY <2>1 DEF Recorded, RecordsSettled, SettledOn, SettledIn
    <3> QED
      BY <1>8, <3>1
  <2>2. ASSUME NEW d \in Drivers, RecordResult(d), w \notin records
        PROVE  \E i \in DOMAIN rows' : Key(rows'[i]) = <<"withdrawal", w>> /\ SettledIn(chain', rows'[i])
    <3> DEFINE b == driver[d].batch
    <3>1. driver[d].pc = "record" /\ w \in BatchIds(b, "withdrawal")
      BY <1>9, <2>2 DEF RecordResult
    <3>2. PICK k \in DOMAIN b.ops : b.ops[k].kind = "withdrawal" /\ b.ops[k].id = w
      BY <3>1 DEF BatchIds
    <3>3. driver[d].tx \in DOMAIN txs /\ txs[driver[d].tx].batch = b /\ txs[driver[d].tx].status = "accepted"
      BY <3>1 DEF Submitted
    <3>4. SettledIn(chain, b.ops[k])
      BY <1>2, <3>2, <3>3
    <3>5. RecordedIn(rows, b.ops[k])
      BY <1>2, <3>2, <3>3 DEF AllRecorded
    <3>6. PICK i \in DOMAIN rows : Key(rows[i]) = Key(b.ops[k]) /\ rows[i].nullifier = b.ops[k].nullifier
      BY <3>2, <3>5 DEF RecordedIn
    <3>7. Key(rows[i]) = <<"withdrawal", w>> /\ SettledIn(chain, rows[i])
      BY <3>2, <3>4, <3>6 DEF SettledIn, Key
    <3> QED
      BY <1>8, <3>7
  <2> QED
    BY <1>9, <2>1, <2>2, TablesStep
<1>10. RecordsSettled'
  BY <1>9 DEF RecordsSettled, SettledOn, SettledIn
<1>11. records' \subseteq 1..wdSeq'
  <2> SUFFICES ASSUME NEW w \in records' PROVE w \in 1..wdSeq'
    OBVIOUS
  <2>1. PICK i \in DOMAIN rows' : Key(rows'[i]) = <<"withdrawal", w>>
    BY <1>9
  <2>2. rows'[i].kind = "withdrawal" /\ rows'[i].id = w /\ rows'[i] \in Known'
    BY <2>1 DEF Key, Known
  <2> QED
    BY <2>2 DEF Named
<1>12. \A d \in Drivers : AllRecorded(rows', driver'[d].pending) /\ AllRecorded(rows', driver'[d].batch.ops)
  BY HeldRecorded
<1> QED
  BY <1>4, <1>7, <1>10, <1>11, <1>12 DEF Recorded

\* Nothing is recorded, held or submitted at the start.
LEMMA InitRecorded == Init => Named /\ Recorded
<1> SUFFICES ASSUME Init PROVE Named /\ Recorded
  OBVIOUS
<1>1. /\ \A h \in Handlers : handler[h].pc = "idle"
      /\ \A d \in Drivers : driver[d].pending = <<>> /\ driver[d].batch.ops = <<>>
  BY DEF Init, IdleHandler, IdleDriver, NoBatchBuilt
<1>2. rows = <<>> /\ txs = <<>> /\ requests = {} /\ records = {}
  BY DEF Init
<1>3. Known = {}
  BY <1>1, <1>2 DEF Known
<1> QED
  BY <1>1, <1>2, <1>3 DEF Named, Recorded, AllRecorded, RecordsSettled

\* A withdraw record is offered for claim only for a withdrawal the chain has
\* settled, whatever fails, is cancelled, declined or restarted.
THEOREM RecordsTheorem == Spec => []RecordsSettled
<1> DEFINE I == Types /\ Submitted /\ Named /\ Recorded
<1>1. Init => I
  BY InitTypes, InitRoots, InitRecorded
<1>2. I /\ [Next]_vars => I'
  BY NextTypes, SubmittedKept, NamedKept, RecordedStep
<1>3. I => RecordsSettled
  BY DEF Recorded
<1> QED
  BY <1>1, <1>2, <1>3, PTL DEF Spec

-----------------------------------------------------------------------------
(* Batches *)

\* The transitions chain from the old to the new root, only the last one may be a
\* withdrawal, and its nullifier is that of its nonce.
Provable(b) ==
    /\ b.ops \in Seq(DbRow) /\ Len(b.ops) >= 1
    /\ ChainsFrom(b.ops, b.old)
    /\ OneWithdrawal(b.ops)
    /\ NullifiersRederive(b.ops, DefaultSecret)
    /\ b.new = Last(b.ops).rootAfter

\* Every batch that a driver holds or that was submitted is provable.
HeldProvable ==
    /\ \A d \in Drivers : driver[d].pc \in Holding => Provable(driver[d].batch)
    /\ \A i \in DOMAIN txs : Provable(txs[i].batch)

\* Every step keeps them provable.
LEMMA HeldProvableStep ==
    ASSUME Types, HeldProvable, [Next]_vars
    PROVE  HeldProvable'
<1>1. ASSUME NEW d \in Drivers, driver'[d].pc \in Holding PROVE Provable(driver'[d].batch)
  <2>1. CASE driver'[d].batch = driver[d].batch /\ driver[d].pc \in Holding
    BY <2>1 DEF HeldProvable
  <2>2. CASE BuildBatch(d) /\ driver'[d].batch = BatchOf(d)
    <3> DEFINE t == Transitions(d)
               new == Last(t).rootAfter
               n == batchSeq + 1
               b == [id |-> n, old |-> OldRoot(d), new |-> new, ops |-> t]
    <3>1. t \in Seq(DbRow) /\ Len(t) >= 1 /\ ChainsFrom(t, OldRoot(d)) /\ OneWithdrawal(t)
      BY <2>2, TransitionsFrom DEF BuildBatch
    <3>2. driver'[d].batch = b
      BY <2>2 DEF BatchOf
    <3>4. NullifiersRederive(t, DefaultSecret)
      BY <2>2 DEF BuildBatch, CanWitness
    <3> HIDE DEF t, n
    <3>3. b.ops = t /\ b.old = OldRoot(d) /\ b.new = Last(t).rootAfter
      OBVIOUS
    <3> HIDE DEF b
    <3> QED
      BY <3>1, <3>2, <3>3, <3>4 DEF Provable
  <2> QED
    BY <1>1, <2>1, <2>2, DriverStep
<1>2. ASSUME NEW i \in DOMAIN txs' PROVE Provable(txs'[i].batch)
  <2>1. CASE UNCHANGED <<txs, chain>>
    BY <1>2, <2>1 DEF HeldProvable
  <2>2. ASSUME NEW d \in Drivers, Broadcast(d),
               txs' = Append(txs, [batch |-> driver[d].batch, status |-> "mempool"])
        PROVE  Provable(txs'[i].batch)
    <3> DEFINE tx == [batch |-> driver[d].batch, status |-> "mempool"]
    <3>1. tx.batch = driver[d].batch
      OBVIOUS
    <3>2. Provable(driver[d].batch)
      BY <2>2 DEF HeldProvable, Broadcast, Holding
    <3> HIDE DEF tx
    <3>3. txs'[i] = tx \/ (i \in DOMAIN txs /\ txs'[i] = txs[i])
      BY <1>2, <2>2 DEF Types, tx
    <3> QED
      BY <3>1, <3>2, <3>3 DEF HeldProvable
  <2>3. ASSUME NEW k \in DOMAIN txs, Deliver(k) PROVE Provable(txs'[i].batch)
    <3>1. i \in DOMAIN txs /\ txs'[i].batch = txs[i].batch
      BY <1>2, <2>3, DeliverEffect
    <3> QED
      BY <3>1 DEF HeldProvable
  <2> QED
    BY <2>1, <2>2, <2>3, TxsStep
<1> QED
  BY <1>1, <1>2 DEF HeldProvable

\* The last withdrawal of an owner in a batch with one withdrawal is that one.
LEMMA OneNonce ==
    ASSUME NEW ops \in Seq(DbRow), OneWithdrawal(ops),
           NEW j \in DOMAIN ops, ops[j].kind = "withdrawal"
    PROVE  WitnessNonce(ops, ops[j].acct[1]) = ops[j].nonce
<1> DEFINE W == {i \in OfOwner(ops, ops[j].acct[1]) : ops[i].kind = "withdrawal"}
<1>1. j \in 1..Len(ops) /\ W = {j}
  BY DEF OneWithdrawal, OfOwner
<1>2. WitnessNonce(ops, ops[j].acct[1]) = ops[Max(W)].nonce
  BY <1>1 DEF WitnessNonce
<1> HIDE DEF W
<1>3. Max(W) = j
  BY <1>1 DEF Max
<1> QED
  BY <1>2, <1>3

\* Every batch ever submitted fits the witness made for it, whatever is recorded,
\* declined, cancelled, fails or restarts, with any number of handlers and drivers.
THEOREM BatchesTheorem == Spec => []BatchesFitWitness
<1> DEFINE I == Types /\ HeldProvable
<1>1. Init => I
  <2>1. Init => HeldProvable
    BY DEF Init, HeldProvable, IdleDriver, Holding
  <2> QED
    BY <2>1, InitTypes
<1>2. I /\ [Next]_vars => I'
  BY NextTypes, HeldProvableStep
<1>3. I => BatchesFitWitness
  <2> SUFFICES ASSUME HeldProvable, NEW i \in DOMAIN txs
               PROVE  LET ops == txs[i].batch.ops IN
                      /\ ops[1].rootBefore = txs[i].batch.old
                      /\ \A j \in 2..Len(ops) : ops[j].rootBefore = ops[j - 1].rootAfter
                      /\ Last(ops).rootAfter = txs[i].batch.new
                      /\ \A j \in DOMAIN ops :
                            ops[j].kind = "withdrawal"
                             => ops[j].nullifier =
                                  NullifierFor(DefaultSecret, WitnessNonce(ops, ops[j].acct[1]))
    BY DEF BatchesFitWitness
  <2> DEFINE b == txs[i].batch
             ops == b.ops
  <2>1. Provable(b)
    BY DEF HeldProvable
  <2>2. ops \in Seq(DbRow) /\ Len(ops) >= 1 /\ ChainsFrom(ops, b.old) /\ OneWithdrawal(ops)
        /\ NullifiersRederive(ops, DefaultSecret) /\ b.new = Last(ops).rootAfter
    BY <2>1 DEF Provable
  <2> HIDE DEF ops, b
  <2>3. ops[1].rootBefore = b.old /\ \A j \in 2..Len(ops) : ops[j].rootBefore = ops[j - 1].rootAfter
    BY <2>2 DEF ChainsFrom
  <2>4. ASSUME NEW j \in DOMAIN ops, ops[j].kind = "withdrawal"
        PROVE  ops[j].nullifier = NullifierFor(DefaultSecret, WitnessNonce(ops, ops[j].acct[1]))
    <3>1. ops[j].nullifier = NullifierFor(DefaultSecret, ops[j].nonce)
      BY <2>2, <2>4 DEF NullifiersRederive
    <3> QED
      BY <2>2, <2>4, <3>1, OneNonce
  <2> QED
    BY <2>2, <2>3, <2>4 DEF ops, b
<1> QED
  BY <1>1, <1>2, <1>3, PTL DEF Spec

-----------------------------------------------------------------------------
(* Type correctness *)

\* Drivers that have passed the bound check and not taken their batch number.
Preparing == {d \in Drivers : driver[d].pc \in {"initCursor", "deposits", "build"}}

\* Every such driver may still take a number; a driver's tx is one submitted.
Bounded ==
    /\ batchSeq + Cardinality(Preparing) <= MaxBatches + Cardinality(Drivers)
    /\ \A d \in Drivers : driver[d].tx \in 0..Len(txs)

\* Sets of drivers are finite.
LEMMA PreparingFinite ==
    /\ IsFiniteSet(Drivers) /\ Cardinality(Drivers) \in Nat
    /\ \A S \in SUBSET Drivers : /\ IsFiniteSet(S) /\ Cardinality(S) \in Nat
                                 /\ Cardinality(S) <= Cardinality(Drivers)
BY SettlementAssumption, FS_Subset, FS_CardinalityType

\* A batch number is taken by a driver that is preparing, and a pass starts below
\* the bound.
LEMMA BatchSeqStep ==
    ASSUME Types, Types', Bounded, [Next]_vars
    PROVE  batchSeq' + Cardinality(Preparing') <= MaxBatches + Cardinality(Drivers)
<1> DEFINE P == Preparing
           Q == Preparing'
           Prep == {"initCursor", "deposits", "build"}
<1>1. P \in SUBSET Drivers /\ Q \in SUBSET Drivers
  BY DEF Preparing
<1>2. /\ Cardinality(P) \in Nat /\ Cardinality(Q) \in Nat /\ Cardinality(Drivers) \in Nat
      /\ Cardinality(Q) <= Cardinality(Drivers) /\ IsFiniteSet(P) /\ IsFiniteSet(Q)
      /\ batchSeq \in Nat /\ batchSeq' \in Nat /\ MaxBatches \in Nat
  <2> HIDE DEF P, Q
  <2> QED
    BY <1>1, PreparingFinite, SettlementAssumption DEF Types
<1>3. batchSeq + Cardinality(P) <= MaxBatches + Cardinality(Drivers)
  BY DEF Bounded
<1>4. ASSUME Q \subseteq P, batchSeq' \in {0, batchSeq}
      PROVE  batchSeq' + Cardinality(Q) <= MaxBatches + Cardinality(Drivers)
  <2> HIDE DEF P, Q
  <2>1. Cardinality(Q) <= Cardinality(P)
    BY <1>2, <1>4, FS_Subset
  <2> QED
    BY <1>2, <1>3, <1>4, <2>1
<1>5. ASSUME NEW d \in Drivers, StartPass(d)
      PROVE  batchSeq' + Cardinality(Q) <= MaxBatches + Cardinality(Drivers)
  <2>1. batchSeq < MaxBatches /\ batchSeq' = batchSeq
    BY <1>5 DEF StartPass
  <2> HIDE DEF Q
  <2> QED
    BY <1>2, <2>1
<1>6. ASSUME NEW d \in Drivers, BuildBatch(d) \/ RefuseWitness(d)
      PROVE  batchSeq' + Cardinality(Q) <= MaxBatches + Cardinality(Drivers)
  <2>1. driver[d].pc = "build" /\ batchSeq' = batchSeq + 1
    BY <1>6 DEF BuildBatch, RefuseWitness
  <2>2. driver'[d].pc \notin Prep /\ \A e \in Drivers : e # d => driver'[e] = driver[e]
    BY <1>6, BuildBatchEffect, EndPassEffect DEF RefuseWitness
  <2>3. Q = P \ {d} /\ d \in P
    BY <2>1, <2>2 DEF Preparing
  <2> HIDE DEF P, Q
  <2>4. Cardinality(P \ {d}) = Cardinality(P) - 1
    BY <1>2, <2>3, FS_RemoveElement
  <2> QED
    BY <1>2, <1>3, <2>1, <2>3, <2>4
<1>7. ASSUME NEW d \in Drivers, driver'[d].pc \in Prep => driver[d].pc \in Prep,
             \A e \in Drivers : e # d => driver'[e] = driver[e]
      PROVE  Q \subseteq P
  BY <1>7 DEF Preparing
<1> HIDE DEF P, Q
<1>8. ASSUME NEW d \in Drivers, EndPass(d) PROVE Q \subseteq P
  BY <1>7, <1>8, EndPassEffect
<1>9. ASSUME NEW d \in Drivers, NEW pc, GotoDriver(d, pc), driver[d].pc # "idle",
             pc \in Prep => driver[d].pc \in Prep
      PROVE  Q \subseteq P
  BY <1>7, <1>9, GotoDriverEffect
<1>10. ASSUME NEW d \in Drivers,
              \/ DriverInitCursor(d) \/ MarkBatchIncluded(d) \/ Prove(d) \/ ProverFails(d)
              \/ GuardRefuses(d) \/ VerifierRefuses(d) \/ SubmitFails(d) \/ Decline(d)
              \/ Confirm(d) \/ RecordResult(d) \/ CommitRows(d) \/ ConfirmTimeout(d)
       PROVE  Q \subseteq P /\ batchSeq' = batchSeq
  <2>1. /\ \E pc : /\ GotoDriver(d, pc) /\ driver[d].pc # "idle"
                   /\ pc \in Prep => driver[d].pc \in Prep
        /\ batchSeq' = batchSeq
    BY <1>10 DEF DriverInitCursor, MarkBatchIncluded, Prove, ProverFails,
       GuardRefuses, VerifierRefuses, SubmitFails, Decline, Confirm, RecordResult, CommitRows,
       ConfirmTimeout
  <2> HIDE DEF Prep
  <2> QED
    BY <1>9, <2>1
<1>11. ASSUME NEW d \in Drivers, DriverFault(d) PROVE Q \subseteq P /\ batchSeq' = batchSeq
  <2>1. EndPass(d) \/ (GotoDriver(d, "reopen") /\ driver[d].pc # "idle")
    BY <1>11 DEF DriverFault
  <2> QED
    BY <1>8, <1>9, <1>11, <2>1 DEF DriverFault
<1>12. ASSUME NEW d \in Drivers, BuildNothing(d) \/ CommitCursor(d) \/ Reopen(d)
       PROVE  Q \subseteq P /\ batchSeq' = batchSeq
  BY <1>8, <1>12 DEF BuildNothing, CommitCursor, Reopen
<1>13. ASSUME NEW d \in Drivers, ListDeposits(d) PROVE Q \subseteq P /\ batchSeq' = batchSeq
  BY <1>7, <1>13, ListDepositsEffect DEF ListDeposits
<1>14. ASSUME NEW d \in Drivers, Broadcast(d) PROVE Q \subseteq P /\ batchSeq' = batchSeq
  <2>1. /\ driver'[d].pc = "wait" /\ \A e \in Drivers : e # d => driver'[e] = driver[e]
        /\ batchSeq' = batchSeq
    BY <1>14 DEF Broadcast, Types, DriverState, IdleDriver
  <2> QED
    BY <1>7, <2>1
<1>15. ASSUME Restart \/ RestartBlind PROVE Q \subseteq P /\ batchSeq' = 0
  BY <1>15 DEF Restart, RestartBlind, IdleDriver, Preparing, P, Q
<1>16. ASSUME UNCHANGED <<driver, batchSeq>> PROVE Q \subseteq P /\ batchSeq' = batchSeq
  BY <1>16 DEF P, Q, Preparing
<1>17. ASSUME NEW h \in Handlers,
              \/ \E d \in Deposits : ReceiveDeposit(h, d)
              \/ \E a \in Accounts, amount \in WithdrawAmounts : ReceiveWithdraw(h, a, amount)
              \/ HandlerStep(h) \/ HandlerFault(h)
       PROVE  UNCHANGED <<driver, batchSeq>>
  BY <1>17 DEF ReceiveDeposit, ReceiveWithdraw, HandlerStep, HandlerFault, HandlerInitCursor,
     ApplyOperation, RefuseOperation, SnapshotAfter, SaveOperation, CollideOnSave, ReadCursor,
     WritePendingRoot, SaveWithdrawRequest
<1>18. ASSUME \/ \E b \in 1..MaxBatches : CancelBatch(b)
              \/ \E i \in DOMAIN txs : Deliver(i)
              \/ UNCHANGED vars
       PROVE  UNCHANGED <<driver, batchSeq>>
  BY <1>18 DEF CancelBatch, Deliver, vars, memory
<1>19. ASSUME NEW d \in Drivers,
              PassStep(d) \/ BuildStep(d) \/ ConfirmTimeout(d) \/ DriverFault(d)
       PROVE  batchSeq' + Cardinality(Q) <= MaxBatches + Cardinality(Drivers)
  <2>1. CASE StartPass(d) \/ BuildBatch(d) \/ RefuseWitness(d)
    BY <1>5, <1>6, <2>1
  <2>2. CASE ~(StartPass(d) \/ BuildBatch(d) \/ RefuseWitness(d))
    <3>1. Q \subseteq P /\ batchSeq' = batchSeq
      BY <1>10, <1>11, <1>12, <1>13, <1>14, <1>19, <2>2 DEF PassStep, BuildStep
    <3> QED
      BY <1>4, <3>1
  <2> QED
    BY <2>1, <2>2
<1>20. batchSeq' + Cardinality(Q) <= MaxBatches + Cardinality(Drivers)
  BY <1>4, <1>15, <1>16, <1>17, <1>18, <1>19 DEF Next
<1> QED
  BY <1>20 DEF Q

\* A driver's tx is the number of a tx that was submitted, or 0.
LEMMA TxStep ==
    ASSUME Types, Bounded, [Next]_vars, NEW e \in Drivers
    PROVE  driver'[e].tx \in 0..Len(txs')
<1>1. txs \in Seq(Tx) /\ Len(txs) \in Nat /\ driver[e].tx \in 0..Len(txs)
  BY DEF Types, Bounded
<1>2. Len(txs') \in Nat /\ Len(txs') >= Len(txs)
  <2>1. CASE UNCHANGED <<txs, chain>>
    BY <1>1, <2>1
  <2>2. ASSUME NEW tx, txs' = Append(txs, tx) PROVE Len(txs') \in Nat /\ Len(txs') >= Len(txs)
    BY <1>1, <2>2
  <2>3. ASSUME NEW i \in DOMAIN txs, Deliver(i) PROVE Len(txs') \in Nat /\ Len(txs') >= Len(txs)
    <3>1. txs' \in Seq(Tx) /\ DOMAIN txs' = DOMAIN txs
      BY <2>3, DeliverEffect
    <3> QED
      BY <1>1, <3>1
  <2> QED
    BY <2>1, <2>2, <2>3, TxsStep
<1>3. 0 \in 0..Len(txs') /\ driver[e].tx \in 0..Len(txs')
  BY <1>1, <1>2
<1>4. CASE driver'[e].tx \in {0, driver[e].tx}
  BY <1>3, <1>4
<1>5. CASE driver'[e] = driver[e]
  BY <1>4, <1>5
<1>6. IdleDriver.tx = 0
  BY DEF IdleDriver
<1>7. ASSUME NEW d \in Drivers, EndPass(d) PROVE driver'[e].tx \in {0, driver[e].tx}
  BY <1>6, <1>7, EndPassEffect
<1>8. ASSUME NEW d \in Drivers, NEW pc, GotoDriver(d, pc), driver[d].pc # "idle"
      PROVE  driver'[e].tx \in {0, driver[e].tx}
  BY <1>8, GotoDriverEffect
<1>9. ASSUME NEW d \in Drivers, StartPass(d) PROVE driver'[e].tx \in {0, driver[e].tx}
  <2> DEFINE seen == IF cursor = NoCursor THEN InitialCursor(ls.root) ELSE cursor
             pc == IF cursor = NoCursor THEN "initCursor" ELSE "deposits"
  <2>1. driver' = [driver EXCEPT ![d] = [IdleDriver EXCEPT !.pc = pc, !.seen = seen]]
    BY <1>9 DEF StartPass
  <2> HIDE DEF seen, pc
  <2>2. driver'[d].tx = 0 /\ \A f \in Drivers : f # d => driver'[f] = driver[f]
    BY <2>1 DEF IdleDriver, Types
  <2> QED
    BY <2>2
<1>10. ASSUME NEW d \in Drivers, ListDeposits(d) \/ BuildBatch(d)
       PROVE  driver'[e].tx \in {0, driver[e].tx}
  <2> DEFINE q == ListPending(rows, "deposit")
             b == BatchOf(d)
  <2>1. driver[d] \in [pc : DriverPC \ {"idle"}, seen : Cursor, pending : Seq(DbRow),
                       batch : Batch, tx : Nat]
    BY <1>10 DEF ListDeposits, BuildBatch, Types, DriverState, IdleDriver
  <2>2. \/ driver' = [driver EXCEPT ![d].pc = "build", ![d].pending = q]
        \/ driver' = [driver EXCEPT ![d].pc = "mark", ![d].pending = <<>>, ![d].batch = b]
    BY <1>10 DEF ListDeposits, BuildBatch, BatchOf
  <2> HIDE DEF q, b
  <2>3. driver'[d].tx = driver[d].tx /\ \A f \in Drivers : f # d => driver'[f] = driver[f]
    BY <2>1, <2>2 DEF Types
  <2> QED
    BY <2>3
<1>11. ASSUME NEW d \in Drivers, Broadcast(d) PROVE driver'[e].tx \in 0..Len(txs')
  <2>1. /\ driver'[d].tx = Len(txs) + 1 /\ \A f \in Drivers : f # d => driver'[f] = driver[f]
    BY <1>11 DEF Broadcast, Types, DriverState, IdleDriver
  <2> DEFINE tx == [batch |-> driver[d].batch, status |-> "mempool"]
  <2>2. txs' = Append(txs, tx)
    BY <1>11 DEF Broadcast
  <2> HIDE DEF tx
  <2>3. Len(txs') = Len(txs) + 1
    BY <1>1, <2>2
  <2> QED
    BY <1>1, <1>3, <2>1, <2>3
<1>12. ASSUME NEW d \in Drivers,
              \/ DriverInitCursor(d) \/ MarkBatchIncluded(d) \/ Prove(d) \/ ProverFails(d)
              \/ GuardRefuses(d) \/ VerifierRefuses(d) \/ SubmitFails(d) \/ Decline(d)
              \/ Confirm(d) \/ RecordResult(d) \/ CommitRows(d) \/ ConfirmTimeout(d)
              \/ DriverFault(d) \/ BuildNothing(d) \/ RefuseWitness(d) \/ CommitCursor(d)
              \/ Reopen(d)
       PROVE  driver'[e].tx \in {0, driver[e].tx}
  <2>1. EndPass(d) \/ \E pc : GotoDriver(d, pc) /\ driver[d].pc # "idle"
    BY <1>12 DEF DriverInitCursor, MarkBatchIncluded, Prove, ProverFails,
       GuardRefuses, VerifierRefuses, SubmitFails, Decline, Confirm, RecordResult, CommitRows,
       ConfirmTimeout, DriverFault, BuildNothing, RefuseWitness, CommitCursor, Reopen
  <2> QED
    BY <1>7, <1>8, <2>1
<1>13. CASE Restart \/ RestartBlind
  BY <1>3, <1>6, <1>13 DEF Restart, RestartBlind
<1>14. ASSUME NEW h \in Handlers,
              \/ \E d \in Deposits : ReceiveDeposit(h, d)
              \/ \E a \in Accounts, amount \in WithdrawAmounts : ReceiveWithdraw(h, a, amount)
              \/ HandlerStep(h) \/ HandlerFault(h)
       PROVE  UNCHANGED driver
  BY <1>14 DEF ReceiveDeposit, ReceiveWithdraw, HandlerStep, HandlerFault, HandlerInitCursor,
     ApplyOperation, RefuseOperation, SnapshotAfter, SaveOperation, CollideOnSave, ReadCursor,
     WritePendingRoot, SaveWithdrawRequest
<1>15. ASSUME \/ \E b \in 1..MaxBatches : CancelBatch(b)
              \/ \E i \in DOMAIN txs : Deliver(i)
              \/ UNCHANGED vars
       PROVE  UNCHANGED driver
  BY <1>15 DEF CancelBatch, Deliver, vars, memory
<1>16. ASSUME NEW d \in Drivers,
              PassStep(d) \/ BuildStep(d) \/ ConfirmTimeout(d) \/ DriverFault(d)
       PROVE  driver'[e].tx \in 0..Len(txs')
  BY <1>4, <1>9, <1>10, <1>11, <1>12, <1>16 DEF PassStep, BuildStep
<1> QED
  BY <1>5, <1>13, <1>14, <1>15, <1>16 DEF Next

\* Every variable keeps its type in every reachable state, for any number of
\* handlers, drivers, faults and restarts.
THEOREM TypeTheorem == Spec => []TypeOK
<1> DEFINE I == Types /\ Submitted /\ Named /\ Recorded /\ Bounded
<1>1. Init => I
  <2>1. Init => Bounded
    <3> SUFFICES ASSUME Init PROVE Bounded
      OBVIOUS
    <3>1. batchSeq = 0 /\ txs = <<>> /\ \A d \in Drivers : driver[d].pc = "idle" /\ driver[d].tx = 0
      BY DEF Init, IdleDriver
    <3>2. Preparing = {}
      BY <3>1 DEF Preparing
    <3>3. Cardinality(Preparing) = 0 /\ Cardinality(Drivers) \in Nat /\ MaxBatches \in Nat
      BY <3>2, FS_EmptySet, PreparingFinite, SettlementAssumption
    <3> QED
      BY <3>1, <3>3 DEF Bounded
  <2> QED
    BY <2>1, InitTypes, InitRoots, InitRecorded
<1>2. I /\ [Next]_vars => I'
  <2> SUFFICES ASSUME I, [Next]_vars PROVE I'
    OBVIOUS
  <2>1. Types' /\ Submitted' /\ Named' /\ Recorded'
    BY NextTypes, SubmittedKept, NamedKept, RecordedStep
  <2>2. Bounded'
    BY <2>1, BatchSeqStep, TxStep DEF Bounded
  <2> QED
    BY <2>1, <2>2
<1>3. I => TypeOK
  <2> SUFFICES ASSUME I PROVE TypeOK
    OBVIOUS
  <2>1. ls.accounts \in [Accounts -> Account] /\ ls.root \in Root /\ ls.appliedDeposits \subseteq Deposits
    BY DEF Types, State
  <2>2. batchSeq \in 0..(MaxBatches + Cardinality(Drivers))
    <3>1. Cardinality(Preparing) \in Nat /\ Cardinality(Drivers) \in Nat /\ MaxBatches \in Nat
      <4>1. Preparing \in SUBSET Drivers
        BY DEF Preparing
      <4> QED
        BY <4>1, PreparingFinite, SettlementAssumption
    <3> QED
      BY <3>1 DEF Bounded, Types
  <2>3. ASSUME NEW h \in Handlers
        PROVE  /\ handler[h].pc \in HandlerPC
               /\ handler[h].pc # "idle" => handler[h].row \in Row
               /\ handler[h].pc = "writeCursor" => handler[h].seen \in Cursor
    BY DEF Types, HandlerState, IdleHandler, HandlerPC, DbRow
  <2>4. ASSUME NEW d \in Drivers
        PROVE  /\ driver[d].pc \in DriverPC
               /\ driver[d].pc # "idle" => driver[d].seen \in Cursor
               /\ driver[d].tx \in 0..Len(txs)
    BY DEF Types, DriverState, IdleDriver, DriverPC, Bounded
  <2>5. \A i \in DOMAIN rows : rows[i] \in Row
    BY DEF Types, DbRow
  <2>6. \A i \in DOMAIN txs : txs[i].status \in {"mempool", "accepted", "rejected"}
    <3>1. \A i \in DOMAIN txs : txs[i] \in Tx
      BY DEF Types
    <3> QED
      BY <3>1 DEF Tx
  <2> QED
    BY <2>1, <2>2, <2>3, <2>4, <2>5, <2>6 DEF TypeOK, Types, Recorded
<1> QED
  BY <1>1, <1>2, <1>3, PTL DEF Spec
-----------------------------------------------------------------------------
(* Roots and the operations they stand for *)

\* Every transition is exact: the root before it is that of some accounts, and the
\* root after it is that of the same accounts with the operation applied.
RowExact(r) ==
    \E A \in Accounting : /\ IsRoot(r.rootBefore, A)
                          /\ SettleOp(A, r) \in Accounting
                          /\ r.rootAfter = ComputeRoot(SettleOp(A, r))

\* The same of every operation of a list.
AllExact(ops) == \A k \in DOMAIN ops : RowExact(ops[k])

\* Settling exact transitions that chain from a root of the ledger yields a ledger
\* whose root is the one after the last.
LEMMA FoldExact ==
    ASSUME NEW L \in Accounting, NEW ops \in Seq(DbRow), Len(ops) >= 1, AllExact(ops),
           NEW root, IsRoot(root, L), ChainsFrom(ops, root)
    PROVE  LET M == FoldLeft(SettleOp, L, ops)
           IN  M \in Accounting /\ Last(ops).rootAfter = ComputeRoot(M)
<1> DEFINE N == Len(ops)
           S == [Accounts -> [balance : Int, nonce : Nat]]
           Step(n, s) == SettleOp(s, ops[n])
           Def(f) == [s \in SUBSET (1..N) |->
                         IF s = {} THEN L ELSE Step(Max(s), f[s \ {Max(s)}])]
           fold == CHOOSE f : f = Def(f)
           step == [n \in 1..N |-> [s \in S |-> Step(n, s)]]
<1>1. N \in Nat /\ N >= 1 /\ DOMAIN ops = 1..N
  OBVIOUS
<1>2. ASSUME NEW n \in 1..N, NEW s \in S PROVE Step(n, s) \in S
  <2>1. ops[n] \in DbRow
    BY <1>1
  <2> DEFINE a == ops[n].acct
             v == ops[n].amount
  <2>2. a \in Accounts /\ v \in Nat
    BY <2>1 DEF DbRow, Row
  <2> HIDE DEF a, v
  <2>3. Credit(s, a, v) \in S
    BY <2>2 DEF Credit
  <2>4. Debit(s, a, v) \in S
    BY <2>2 DEF Debit
  <2> QED
    BY <2>3, <2>4 DEF SettleOp, a, v
<1>3. FoldLeft(SettleOp, L, ops) = fold[1..N]
  BY <1>1 DEF FoldLeft, MapThenFoldSet
<1>4. L \in S
  BY DEF Accounting, Account
<1> HIDE DEF S
<1>5. \A n \in 1..N : \A s : Step(n, s) = SettleOp(s, ops[n])
  OBVIOUS
<1>6. Last(ops) = ops[N]
  BY DEF Last
<1>7. ASSUME NEW n \in 1..N PROVE /\ RowExact(ops[n])
                                  /\ ops[n].rootBefore = IF n = 1 THEN root ELSE ops[n - 1].rootAfter
  BY <1>1 DEF AllExact, ChainsFrom
<1> HIDE DEF N, Step
<1>8. step \in [1..N -> [S -> S]]
  BY <1>2
<1>9. \E f : f = Def(f)
  <2> HIDE DEF step
  <2>1. PICK f : Folds(f, N, S, L, step)
    BY <1>1, <1>4, <1>8, FoldExists
  <2>2. f = Def(f)
    <3>1. ASSUME NEW s \in SUBSET (1..N), s # {}
          PROVE  f[s] = Step(Max(s), f[s \ {Max(s)}])
      <4>1. Max(s) \in 1..N
        BY <1>1, <3>1, MaxOf
      <4>2. f[s \ {Max(s)}] \in S /\ f[s] = step[Max(s)][f[s \ {Max(s)}]]
        BY <2>1, <3>1 DEF Folds
      <4> QED
        BY <4>1, <4>2 DEF step
    <3> QED
      BY <2>1, <3>1 DEF Folds
  <2> HIDE DEF Def
  <2> QED
    BY <2>2
<1>10. fold = Def(fold)
  <2> HIDE DEF Def
  <2> QED
    BY <1>9
<1> HIDE DEF fold, step
<1> DEFINE T == {n \in 0..N : /\ fold[1..n] \in Accounting
                              /\ n = 0 => fold[1..n] = L
                              /\ n > 0 => ops[n].rootAfter = ComputeRoot(fold[1..n])}
<1>11. 0 \in T
  <2>1. fold[{}] = L /\ 1..0 = {}
    BY <1>10
  <2> QED
    BY <1>1, <2>1
<1>12. ASSUME NEW n \in 0..N, n < N, n \in T PROVE n + 1 \in T
  <2>1. n + 1 \in 1..N /\ n \in Nat
    BY <1>1, <1>12
  <2> DEFINE s == 1..(n + 1)
  <2>2. s \in SUBSET (1..N) /\ s # {} /\ n + 1 \in s
    BY <2>1, <1>1
  <2>3. Max(s) = n + 1
    <3>1. Max(s) \in s /\ n + 1 <= Max(s)
      <4> HIDE DEF s
      <4> QED
        BY <1>1, <2>2, MaxOf
    <3> QED
      BY <2>1, <3>1
  <2>4. s \ {Max(s)} = 1..n
    BY <2>1, <2>3
  <2> DEFINE F == fold[1..n]
  <2>5. fold[s] = SettleOp(F, ops[n + 1])
    <3>1. fold[s] = Step(n + 1, F)
      <4> HIDE DEF s
      <4> QED
        BY <1>10, <2>2, <2>3, <2>4
    <3> QED
      BY <1>5, <2>1, <3>1
  <2>6. F \in Accounting /\ IsRoot(ops[n + 1].rootBefore, F)
    <3>1. CASE n = 0
      <4>1. F = L /\ ops[n + 1].rootBefore = root
        BY <1>7, <1>12, <2>1, <3>1
      <4> QED
        BY <4>1
    <3>2. CASE n # 0
      <4>1. ops[n + 1].rootBefore = ops[n].rootAfter
        <5>1. n + 1 # 1 /\ (n + 1) - 1 = n
          BY <2>1, <3>2
        <5> QED
          BY <1>7, <2>1, <5>1
      <4>2. ops[n].rootAfter = ComputeRoot(F) /\ F \in Accounting
        BY <1>12, <2>1, <3>2
      <4> QED
        BY <4>1, <4>2 DEF IsRoot
    <3> QED
      BY <3>1, <3>2
  <2> HIDE DEF F, s
  <2>7. PICK A \in Accounting : /\ IsRoot(ops[n + 1].rootBefore, A)
                                /\ SettleOp(A, ops[n + 1]) \in Accounting
                                /\ ops[n + 1].rootAfter = ComputeRoot(SettleOp(A, ops[n + 1]))
    BY <1>7, <2>1 DEF RowExact
  <2>8. A = F
    BY <2>6, <2>7, RootInjective
  <2>9. fold[1..(n + 1)] \in Accounting /\ ops[n + 1].rootAfter = ComputeRoot(fold[1..(n + 1)])
    BY <2>5, <2>7, <2>8 DEF s
  <2> QED
    BY <2>1, <2>9
<1> HIDE DEF T
<1>13. \A n \in 0..N : n \in T
  BY <1>1, <1>11, <1>12, SetInduction
<1>14. N \in T
  BY <1>1, <1>13
<1>15. fold[1..N] \in Accounting /\ ops[N].rootAfter = ComputeRoot(fold[1..N])
  BY <1>1, <1>14 DEF T
<1> QED
  BY <1>3, <1>6, <1>15

-----------------------------------------------------------------------------
(* The invariant *)

\* The manager's root is that of its accounts; a handler that has not applied its
\* operation knows the manager's root, and every transition from then on is exact.
Exact ==
    /\ ls \in Rooted
    /\ \A h \in Handlers :
          /\ handler[h].pc \in {"initCursor", "apply"}
               => /\ handler[h].row.rootBefore = ls.root
                  /\ handler[h].row.kind = "deposit" => AsDeposited(handler[h].row)
          /\ handler[h].pc \notin {"idle", "initCursor", "apply"} => RowExact(handler[h].row)
    /\ AllExact(rows)
    /\ \A d \in Drivers : AllExact(driver[d].pending) /\ AllExact(driver[d].batch.ops)
    /\ \A i \in DOMAIN txs : AllExact(txs[i].batch.ops)

\* The chain's root is that of its ledger, and after the first batch a computed one.
ChainExact ==
    /\ chain.ledger \in Accounting
    /\ Len(chain.roots) >= 1
    /\ IsRoot(ChainRoot, chain.ledger)
    /\ SettledRootExact

\* Exactness is a matter of the columns that an update of a row keeps.
LEMMA SameRowExact ==
    ASSUME NEW r, NEW q, SameRow(r, q), RowExact(r)
    PROVE  RowExact(q)
<1>1. PICK A \in Accounting : /\ IsRoot(r.rootBefore, A)
                              /\ SettleOp(A, r) \in Accounting
                              /\ r.rootAfter = ComputeRoot(SettleOp(A, r))
  BY DEF RowExact
<1>2. SettleOp(A, q) = SettleOp(A, r)
  BY DEF SettleOp, SameRow, SameOp
<1>3. q.rootBefore = r.rootBefore /\ q.rootAfter = r.rootAfter
  BY DEF SameRow
<1> QED
  BY <1>1, <1>2, <1>3 DEF RowExact

\* An applied operation is exact, and keeps the manager's root that of its accounts.
LEMMA ApplyExact ==
    ASSUME Types, Exact, NEW h \in Handlers, ApplyOperation(h)
    PROVE  ls' \in Rooted /\ RowExact(handler'[h].row)
<1> DEFINE r == handler[h].row
           q == handler'[h].row
           A == ls.accounts
<1>1. handler[h].pc = "apply" /\ CanApply(r)
  BY DEF ApplyOperation
<1>2. r \in DbRow /\ ls \in State
  BY <1>1 DEF Types, HandlerState, IdleHandler
<1>3. /\ r.rootBefore = ls.root /\ (r.kind = "deposit" => AsDeposited(r))
      /\ IsRoot(ls.root, A)
  BY <1>1 DEF Exact, Rooted
<1>4. ls' \in State /\ ls'.root = ComputeRoot(ls'.accounts) /\ ls'.accounts = SettleOp(A, r)
  <2>1. CASE r.kind = "deposit"
    <3>1. r.id \in Deposits /\ ls' = ApplyDeposit(ls, r.id)
      BY <1>2, <2>1 DEF DbRow, ApplyOperation
    <3>2. SettleOp(A, r) = Credit(A, DepositRecord[r.id].acct, DepositRecord[r.id].amount)
      BY <1>3, <2>1 DEF SettleOp, AsDeposited
    <3> QED
      BY <1>2, <3>1, <3>2, ApplyDepositType
  <2>2. CASE r.kind # "deposit"
    <3>1. CanApplyWithdrawal(ls, r, r.nullifier) /\ ls' = ApplyWithdrawal(ls, r, r.nullifier)
      BY <1>1, <2>2 DEF CanApply, ApplyOperation
    <3>2. SettleOp(A, r) = Debit(A, r.acct, r.amount)
      BY <2>2 DEF SettleOp
    <3> QED
      BY <1>2, <3>1, <3>2, ApplyWithdrawalType
  <2> QED
    BY <2>1, <2>2
<1>5. q = [r EXCEPT !.rootAfter = ls'.root]
  BY SnapshotEffect
<1> HIDE DEF r, q, A
<1>6. /\ q.rootBefore = r.rootBefore /\ q.rootAfter = ls'.root
      /\ q.kind = r.kind /\ q.acct = r.acct /\ q.amount = r.amount
  BY <1>2, <1>5 DEF DbRow, Row
<1>7. SettleOp(A, q) = SettleOp(A, r)
  BY <1>6 DEF SettleOp
<1>8. A \in Accounting /\ SettleOp(A, q) \in Accounting
  BY <1>2, <1>4, <1>7 DEF State, Accounting, A
<1>9. RowExact(q)
  BY <1>3, <1>4, <1>6, <1>7, <1>8 DEF RowExact
<1> QED
  BY <1>4, <1>9 DEF Rooted, IsRoot, q

\* With one handler nothing moves the manager between the snapshot a handler takes
\* before its operation and the operation.
LEMMA HandlerExact ==
    ASSUME Types, Exact, [Next]_vars, NEW h \in Handlers, \A g \in Handlers : g = h
    PROVE  /\ handler'[h].pc \in {"initCursor", "apply"}
                => /\ handler'[h].row.rootBefore = ls'.root
                   /\ handler'[h].row.kind = "deposit" => AsDeposited(handler'[h].row)
           /\ handler'[h].pc \notin {"idle", "initCursor", "apply"} => RowExact(handler'[h].row)
<1> DEFINE Early(hs, root) == hs.pc \in {"initCursor", "apply"}
                                => /\ hs.row.rootBefore = root
                                   /\ hs.row.kind = "deposit" => AsDeposited(hs.row)
           Late(hs) == hs.pc \notin {"idle", "initCursor", "apply"} => RowExact(hs.row)
           Goal == Early(handler'[h], ls'.root) /\ Late(handler'[h])
<1> SUFFICES Goal
  OBVIOUS
<1>1. Early(handler[h], ls.root) /\ Late(handler[h])
  BY DEF Exact
<1>2. CASE UNCHANGED <<handler, ls>>
  BY <1>1, <1>2
<1>3. CASE \/ \E d \in Deposits : ReceiveDeposit(h, d)
           \/ \E a \in Accounts, amount \in WithdrawAmounts : ReceiveWithdraw(h, a, amount)
  <2>1. ls' = ls
    BY <1>3, ReceiveEffect
  <2>2. CASE handler'[h] = handler[h]
    BY <1>1, <2>1, <2>2
  <2>3. CASE handler'[h] # handler[h]
    <3>1. handler'[h].pc = "initCursor" \/ handler'[h].pc = "apply"
      BY <1>3, <2>3, ReceiveEffect
    <3>2. /\ handler'[h].row.rootBefore = ls.root
          /\ handler'[h].row.kind = "deposit" => AsDeposited(handler'[h].row)
      BY <1>3, <2>3, ReceiveEffect
    <3> QED
      BY <2>1, <3>1, <3>2
  <2> QED
    BY <2>2, <2>3
<1>4. CASE EndHandler(h)
  BY <1>4, EndHandlerEffect
<1>5. CASE HandlerInitCursor(h)
  <2>1. handler'[h].pc = "apply" /\ handler'[h].row = handler[h].row /\ ls' = ls
        /\ handler[h].pc = "initCursor"
    BY <1>5, GotoHandlerEffect DEF HandlerInitCursor
  <2> QED
    BY <1>1, <2>1
<1>6. CASE ApplyOperation(h)
  <2>1. handler'[h].pc = "snapshot"
    BY <1>6 DEF ApplyOperation, Types, HandlerState, IdleHandler
  <2> QED
    BY <1>6, <2>1, ApplyExact
<1>7. CASE SnapshotAfter(h)
  <2>1. /\ handler'[h].pc \in {"snapshot", "save"}
        /\ SameRow(handler[h].row, handler'[h].row)
        /\ handler[h].pc = "snapshot"
    <3>1. handler[h].pc = "snapshot"
      BY <1>7 DEF SnapshotAfter
    <3>2. /\ handler'[h].pc \in {"snapshot", "save"}
          /\ SameRow(handler[h].row, handler'[h].row)
      BY <1>7, SnapshotEffect
    <3> QED
      BY <3>1, <3>2
  <2>2. RowExact(handler'[h].row)
    BY <1>1, <2>1, SameRowExact
  <2> QED
    BY <2>1, <2>2
<1>8. CASE SaveOperation(h) \/ (WritePendingRoot(h) /\ GotoHandler(h, "request"))
  <2>1. /\ handler'[h].pc \in {"readCursor", "request"} /\ handler'[h].row = handler[h].row
        /\ handler[h].pc \in {"save", "writeCursor"}
    BY <1>8, GotoHandlerEffect DEF SaveOperation, WritePendingRoot
  <2> QED
    BY <1>1, <2>1
<1>9. CASE ReadCursor(h)
  <2>1. /\ handler'[h].pc = "writeCursor" /\ handler'[h].row = handler[h].row
        /\ handler[h].pc = "readCursor"
    BY <1>9 DEF ReadCursor, Types, HandlerState, IdleHandler
  <2> QED
    BY <1>1, <2>1
<1>10. CASE Restart \/ RestartBlind
  BY <1>10 DEF Restart, RestartBlind, IdleHandler
<1>11. ASSUME NEW d \in Drivers,
              PassStep(d) \/ BuildStep(d) \/ ConfirmTimeout(d) \/ DriverFault(d)
       PROVE  UNCHANGED <<handler, ls>>
  BY <1>11 DEF PassStep, BuildStep, StartPass, DriverInitCursor, ListDeposits, Prove, ProverFails,
     GuardRefuses, VerifierRefuses, SubmitFails, Broadcast, Confirm, RecordResult, CommitCursor,
     BuildNothing, RefuseWitness, BuildBatch, ConfirmTimeout, DriverFault, MarkBatchIncluded,
     Decline, CommitRows, Reopen
<1>12. ASSUME \/ \E b \in 1..MaxBatches : CancelBatch(b)
              \/ \E i \in DOMAIN txs : Deliver(i)
              \/ UNCHANGED vars
       PROVE  UNCHANGED <<handler, ls>>
  BY <1>12 DEF CancelBatch, Deliver, vars, memory
<1>13. ASSUME HandlerStep(h) \/ HandlerFault(h) PROVE Goal
  <2> HIDE DEF Goal
  <2>1. CASE WritePendingRoot(h)
    BY <1>4, <1>8, <2>1 DEF WritePendingRoot
  <2> QED
    BY <1>4, <1>5, <1>6, <1>7, <1>8, <1>9, <1>13, <2>1 DEF HandlerStep, HandlerFault,
       RefuseOperation, CollideOnSave, SaveWithdrawRequest
<1> HIDE DEF Goal
<1> QED
  BY <1>2, <1>3, <1>10, <1>11, <1>12, <1>13 DEF Next

\* Every step keeps every transition exact.
LEMMA ExactStep ==
    ASSUME Types, Types', Exact, [Next]_vars, \A g, h \in Handlers : g = h
    PROVE  Exact'
<1>1. ls' \in Rooted
  <2>1. CASE Restart \/ RestartBlind
    BY <2>1, RehydrateType, NewLocalStateRooted DEF Restart, RestartBlind, Types
  <2>2. CASE UNCHANGED ls
    BY <2>2 DEF Exact
  <2> QED
    BY <2>1, <2>2, ManagerStep, ApplyExact
<1>2. rows \in Seq(DbRow) /\ rows' \in Seq(DbRow) /\ AllExact(rows)
  BY DEF Types, Exact
<1>3. AllExact(rows')
  <2> SUFFICES ASSUME NEW i \in DOMAIN rows' PROVE RowExact(rows'[i])
    BY DEF AllExact
  <2>1. i \in 1..Len(rows')
    BY <1>2
  <2>2. CASE SameRows(rows, rows')
    <3>1. i \in DOMAIN rows /\ SameRow(rows[i], rows'[i])
      BY <1>2, <2>1, <2>2 DEF SameRows
    <3> QED
      BY <1>2, <3>1, SameRowExact DEF AllExact
  <2>3. ASSUME NEW h \in Handlers, SaveOperation(h) PROVE RowExact(rows'[i])
    <3> DEFINE x == handler[h].row
               q == SavePending(rows, x)
    <3>1. handler[h].pc = "save" /\ x \in DbRow /\ rows' = q
      BY <2>3 DEF SaveOperation, Types, HandlerState, IdleHandler
    <3>2. RowExact(x)
      BY <3>1 DEF Exact
    <3> HIDE DEF x
    <3>3. \A k \in 1..Len(q) : \/ q[k] = x
                               \/ k \in 1..Len(rows) /\ q[k] = rows[k] /\ Key(rows[k]) # Key(x)
      BY <1>2, <3>1, SaveRow
    <3> HIDE DEF q
    <3>4. rows'[i] = x \/ (i \in DOMAIN rows /\ rows'[i] = rows[i])
      BY <1>2, <2>1, <3>1, <3>3
    <3> QED
      BY <1>2, <3>2, <3>4 DEF AllExact
  <2> QED
    BY <2>2, <2>3, RowsStep
<1>4. ASSUME NEW d \in Drivers PROVE AllExact(driver'[d].pending) /\ AllExact(driver'[d].batch.ops)
  <2>1. AllExact(driver[d].pending) /\ AllExact(driver[d].batch.ops) /\ AllExact(<<>>)
    BY DEF Exact, AllExact
  <2>2. CASE driver'[d].pending = driver[d].pending /\ driver'[d].batch = driver[d].batch
    BY <2>1, <2>2
  <2>3. CASE driver'[d].pending = <<>> /\ driver'[d].batch.ops = <<>>
    BY <2>1, <2>3
  <2>4. CASE driver'[d].pending = ListPending(rows, "deposit") /\ driver'[d].batch = driver[d].batch
    <3> DEFINE q == ListPending(rows, "deposit")
    <3>1. q \in Seq(DbRow) /\ \A k \in 1..Len(q) : \E i \in 1..Len(rows) : q[k] = rows[i]
      BY <1>2, ListPendingRows
    <3> HIDE DEF q
    <3>2. DOMAIN q = 1..Len(q) /\ DOMAIN rows = 1..Len(rows)
      BY <1>2, <3>1
    <3>3. AllExact(q)
      BY <1>2, <3>1, <3>2 DEF AllExact
    <3> QED
      BY <2>1, <2>4, <3>3 DEF q
  <2>5. CASE BuildBatch(d) /\ driver'[d].pending = <<>> /\ driver'[d].batch = BatchOf(d)
    <3> DEFINE t == Transitions(d)
               p == driver[d].pending
    <3>1. driver[d].pc = "build" /\ CanBuild(d)
      BY <2>5 DEF BuildBatch
    <3>2. /\ t \in Seq(DbRow)
          /\ \A i \in 1..Len(t) : \/ \E k \in 1..Len(p) : t[i] = p[k]
                                  \/ \E k \in 1..Len(rows) : t[i] = rows[k] /\ rows[k].status = "pending"
      BY <3>1, TransitionsFrom
    <3>3. p \in Seq(DbRow) /\ AllExact(p)
      BY <2>1, <3>1 DEF Types, DriverState, IdleDriver
    <3>4. driver'[d].batch.ops = t
      BY <2>5 DEF BatchOf
    <3> HIDE DEF t, p
    <3>5. DOMAIN t = 1..Len(t) /\ DOMAIN p = 1..Len(p) /\ DOMAIN rows = 1..Len(rows)
      BY <1>2, <3>2, <3>3
    <3>6. AllExact(t)
      BY <1>2, <3>2, <3>3, <3>5 DEF AllExact
    <3> QED
      BY <2>1, <2>5, <3>4, <3>6
  <2> QED
    BY <2>2, <2>3, <2>4, <2>5, DriverStep
<1>5. ASSUME NEW i \in DOMAIN txs' PROVE AllExact(txs'[i].batch.ops)
  <2>1. CASE UNCHANGED <<txs, chain>>
    BY <1>5, <2>1 DEF Exact
  <2>2. ASSUME NEW d \in Drivers,
               txs' = Append(txs, [batch |-> driver[d].batch, status |-> "mempool"])
        PROVE  AllExact(txs'[i].batch.ops)
    <3> DEFINE tx == [batch |-> driver[d].batch, status |-> "mempool"]
    <3>1. tx.batch = driver[d].batch
      OBVIOUS
    <3> HIDE DEF tx
    <3>2. txs'[i] = tx \/ (i \in DOMAIN txs /\ txs'[i] = txs[i])
      BY <1>5, <2>2 DEF Types, tx
    <3> QED
      BY <3>1, <3>2 DEF Exact
  <2>3. ASSUME NEW k \in DOMAIN txs, Deliver(k) PROVE AllExact(txs'[i].batch.ops)
    <3>1. i \in DOMAIN txs /\ txs'[i].batch = txs[i].batch
      BY <1>5, <2>3, DeliverEffect
    <3> QED
      BY <3>1 DEF Exact
  <2> QED
    BY <2>1, <2>2, <2>3, TxsStep
<1>6. ASSUME NEW h \in Handlers
      PROVE  /\ handler'[h].pc \in {"initCursor", "apply"}
                  => /\ handler'[h].row.rootBefore = ls'.root
                     /\ handler'[h].row.kind = "deposit" => AsDeposited(handler'[h].row)
             /\ handler'[h].pc \notin {"idle", "initCursor", "apply"} => RowExact(handler'[h].row)
  BY HandlerExact
<1> QED
  BY <1>1, <1>3, <1>4, <1>5, <1>6 DEF Exact

\* A settled batch takes the chain's root and its ledger along together.
LEMMA ChainExactStep ==
    ASSUME Types, HeldProvable, Exact, ChainExact, [Next]_vars
    PROVE  ChainExact'
<1>1. CASE UNCHANGED chain
  BY <1>1 DEF ChainExact, SettledRootExact, ChainRoot
<1>2. ASSUME NEW i \in DOMAIN txs, Deliver(i), chain' # chain PROVE ChainExact'
  <2> DEFINE b == txs[i].batch
             M == FoldLeft(SettleOp, chain.ledger, b.ops)
             R == chain.roots
             D == chain.deposits \cup BatchIds(b, "deposit")
             V == chain.nullifiers \cup
                 {b.ops[k].nullifier : k \in {j \in DOMAIN b.ops : b.ops[j].kind = "withdrawal"}}
  <2>1. ChainAccepts(b) /\ chain' = ChainAfter(b)
    BY <1>2, DeliverEffect
  <2>2. chain' = [roots |-> Append(R, b.new), deposits |-> D, nullifiers |-> V, ledger |-> M]
    BY <2>1 DEF ChainAfter
  <2>3. b.old = ChainRoot
    BY <2>1 DEF ChainAccepts
  <2>4. b.ops \in Seq(DbRow) /\ Len(b.ops) >= 1 /\ ChainsFrom(b.ops, b.old) /\ b.new = Last(b.ops).rootAfter
    BY DEF HeldProvable, Provable
  <2>5. AllExact(b.ops)
    BY DEF Exact
  <2>6. M \in Accounting /\ b.new = ComputeRoot(M)
    <3> DEFINE ops == b.ops
               L == chain.ledger
    <3>1. /\ ops \in Seq(DbRow) /\ Len(ops) >= 1 /\ ChainsFrom(ops, b.old) /\ AllExact(ops)
          /\ L \in Accounting /\ IsRoot(b.old, L)
      BY <2>3, <2>4, <2>5 DEF ChainExact
    <3> HIDE DEF ops, L
    <3>2. FoldLeft(SettleOp, L, ops) \in Accounting
          /\ Last(ops).rootAfter = ComputeRoot(FoldLeft(SettleOp, L, ops))
      BY <3>1, FoldExact, Zenon
    <3> QED
      BY <2>4, <3>2 DEF ops, L
  <2>7. R \in Seq(Root) /\ Len(R) >= 1
    BY DEF Types, ChainExact
  <2> HIDE DEF M, R, D, V
  <2>8. chain'.roots = Append(R, b.new) /\ chain'.ledger = M
    BY <2>2
  <2>9. Len(chain'.roots) = Len(R) + 1 /\ chain'.roots[Len(R) + 1] = b.new
    BY <2>7, <2>8
  <2>10. ChainRoot' = b.new /\ Len(chain'.roots) # 1 /\ Len(chain'.roots) >= 1
    BY <2>7, <2>9 DEF ChainRoot, Last
  <2> QED
    BY <2>6, <2>8, <2>10 DEF ChainExact, SettledRootExact, IsRoot
<1> QED
  BY <1>1, <1>2, TxsStep

\* With one request handler the root the chain holds is the root of exactly the
\* operations it settled, whatever drivers, faults, cancellations and restarts do.
THEOREM SettledRootTheorem ==
    ASSUME \A g, h \in Handlers : g = h
    PROVE  Spec => []SettledRootExact
<1> DEFINE I == Types /\ HeldProvable /\ Exact /\ ChainExact
<1>1. Init => I
  <2> SUFFICES ASSUME Init PROVE I
    OBVIOUS
  <2>1. HeldProvable
    BY DEF Init, HeldProvable, IdleDriver, Holding
  <2>2. /\ \A h \in Handlers : handler[h].pc = "idle"
        /\ \A d \in Drivers : driver[d].pending = <<>> /\ driver[d].batch.ops = <<>>
    BY DEF Init, IdleHandler, IdleDriver, NoBatchBuilt
  <2>3. Exact
    BY <2>2, NewLocalStateRooted DEF Init, Exact, AllExact
  <2>4. chain.roots = <<GenesisRoot>> /\ chain.ledger = NewLocalState.accounts
    BY DEF Init
  <2>5. NewLocalState.accounts \in Accounting
    BY NewLocalStateType DEF State, Accounting
  <2>6. ChainRoot = GenesisRoot /\ Len(chain.roots) = 1
    BY <2>4 DEF ChainRoot, Last
  <2>7. ChainExact
    BY <2>4, <2>5, <2>6 DEF ChainExact, SettledRootExact, IsRoot
  <2> QED
    BY <2>1, <2>3, <2>7, InitTypes
<1>2. I /\ [Next]_vars => I'
  BY NextTypes, HeldProvableStep, ExactStep, ChainExactStep
<1>3. I => SettledRootExact
  BY DEF ChainExact
<1> QED
  BY <1>1, <1>2, <1>3, PTL DEF Spec
=============================================================================
