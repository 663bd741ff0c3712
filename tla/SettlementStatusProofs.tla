----------------------- MODULE SettlementStatusProofs -----------------------
(***************************************************************************)
(* What the status of a row says about the chain, until the process is     *)
(* restarted and numbers its batches from one again.  And, where requests  *)
(* are handled one at a time and nothing fails: the pending root is the    *)
(* root of an operation recorded or about to be, Settlement implements     *)
(* SettlementLedger, and the pending rows left when nothing is in flight   *)
(* make a batch that the builders accept.                                  *)
(***************************************************************************)
EXTENDS SettlementProofs

-----------------------------------------------------------------------------
(* What a step does to one handler and to one row *)

\* A handler moves on with the same operation, ends, or takes a request.
LEMMA HandlerMove ==
    ASSUME Types, [Next]_vars, NEW h \in Handlers
    PROVE  \/ handler'[h] = handler[h]
           \/ handler'[h].pc = "idle"
           \/ /\ handler[h].pc = "idle" /\ handler'[h].pc \in {"initCursor", "apply"}
              /\ handler'[h].row.status = "pending" /\ handler'[h].row.batch = NoBatch
              /\ handler'[h].row.kind = "withdrawal"
                   => handler'[h].row.id = wdSeq' /\ wdSeq' = wdSeq + 1
           \/ /\ handler[h].pc # "idle" /\ SameOp(handler[h].row, handler'[h].row)
              /\ handler'[h].row.status = handler[h].row.status
              /\ handler'[h].row.batch = handler[h].row.batch
              /\ \/ HandlerInitCursor(h) /\ handler'[h].pc = "apply"
                 \/ ApplyOperation(h) /\ handler'[h].pc = "snapshot"
                 \/ SnapshotAfter(h) /\ handler'[h].pc \in {"snapshot", "save"}
                 \/ SaveOperation(h) /\ handler'[h].pc = "readCursor"
                 \/ ReadCursor(h) /\ handler'[h].pc = "writeCursor"
                 \/ WritePendingRoot(h) /\ handler'[h].pc = "request"
<1> DEFINE Kept == handler'[h] = handler[h]
           Ended == handler'[h].pc = "idle"
           Began == /\ handler[h].pc = "idle" /\ handler'[h].pc \in {"initCursor", "apply"}
                    /\ handler'[h].row.status = "pending" /\ handler'[h].row.batch = NoBatch
                    /\ handler'[h].row.kind = "withdrawal"
                         => handler'[h].row.id = wdSeq' /\ wdSeq' = wdSeq + 1
           Same == /\ handler[h].pc # "idle" /\ SameOp(handler[h].row, handler'[h].row)
                   /\ handler'[h].row.status = handler[h].row.status
                   /\ handler'[h].row.batch = handler[h].row.batch
           Where == \/ HandlerInitCursor(h) /\ handler'[h].pc = "apply"
                    \/ ApplyOperation(h) /\ handler'[h].pc = "snapshot"
                    \/ SnapshotAfter(h) /\ handler'[h].pc \in {"snapshot", "save"}
                    \/ SaveOperation(h) /\ handler'[h].pc = "readCursor"
                    \/ ReadCursor(h) /\ handler'[h].pc = "writeCursor"
                    \/ WritePendingRoot(h) /\ handler'[h].pc = "request"
           Goal == Kept \/ Ended \/ Began \/ (Same /\ Where)
<1> SUFFICES Goal
  BY Zenon
<1>1. handler[h].pc # "idle" => SameOp(handler[h].row, handler[h].row)
  BY DEF SameOp
<1>2. ASSUME NEW g \in Handlers,
             \/ \E d \in Deposits : ReceiveDeposit(g, d)
             \/ \E a \in Accounts, amount \in WithdrawAmounts : ReceiveWithdraw(g, a, amount)
      PROVE  Goal
  <2>1. CASE g # h
    BY <1>2, <2>1, ReceiveEffect
  <2>2. CASE g = h /\ handler'[h] # handler[h]
    <3>1. handler'[h].pc = "initCursor" \/ handler'[h].pc = "apply"
      BY <1>2, <2>2, ReceiveEffect
    <3>2. /\ handler[h].pc = "idle"
          /\ handler'[h].row.status = "pending" /\ handler'[h].row.batch = NoBatch
          /\ handler'[h].row.kind = "withdrawal"
               => handler'[h].row.id = wdSeq' /\ wdSeq' = wdSeq + 1
      BY <1>2, <2>2, ReceiveEffect
    <3> QED
      BY <3>1, <3>2
  <2> QED
    BY <2>1, <2>2
<1>3. ASSUME NEW g \in Handlers, EndHandler(g) PROVE Goal
  BY <1>3, EndHandlerEffect
<1>4. ASSUME NEW g \in Handlers, NEW pc, GotoHandler(g, pc), handler[g].pc # "idle",
             g = h /\ handler'[h].pc = pc => Where
      PROVE  Goal
  <2>1. /\ handler'[g].pc = pc /\ handler'[g].row = handler[g].row
        /\ g # h => handler'[h] = handler[h]
    BY <1>4, GotoHandlerEffect
  <2> HIDE DEF Where
  <2> QED
    BY <1>1, <1>4, <2>1
<1>5. ASSUME NEW g \in Handlers, ApplyOperation(g) \/ SnapshotAfter(g) PROVE Goal
  <2>1. /\ handler'[g].pc \in {"snapshot", "save"} /\ SameOp(handler[g].row, handler'[g].row)
        /\ handler'[g].row.status = handler[g].row.status
        /\ handler'[g].row.batch = handler[g].row.batch
        /\ g # h => handler'[h] = handler[h]
    BY <1>5, SnapshotEffect
  <2>2. handler[g].pc # "idle"
    BY <1>5 DEF ApplyOperation, SnapshotAfter
  <2>3. ApplyOperation(g) => handler'[g].pc = "snapshot"
    BY DEF ApplyOperation, Types, HandlerState, IdleHandler
  <2> QED
    BY <1>5, <2>1, <2>2, <2>3
<1>6. ASSUME NEW g \in Handlers, ReadCursor(g) PROVE Goal
  <2>1. /\ handler'[g].pc = "writeCursor" /\ handler'[g].row = handler[g].row
        /\ handler[g].pc # "idle"
        /\ g # h => handler'[h] = handler[h]
    BY <1>6 DEF ReadCursor, Types, HandlerState, IdleHandler
  <2> QED
    BY <1>1, <1>6, <2>1
<1>7. CASE Restart \/ RestartBlind
  BY <1>7 DEF Restart, RestartBlind, IdleHandler
<1>8. CASE UNCHANGED handler
  BY <1>8
<1>9. ASSUME NEW d \in Drivers,
             PassStep(d) \/ BuildStep(d) \/ ConfirmTimeout(d) \/ DriverFault(d)
      PROVE  UNCHANGED handler
  BY <1>9 DEF PassStep, BuildStep, StartPass, DriverInitCursor, ListDeposits, Prove, ProverFails,
     GuardRefuses, VerifierRefuses, SubmitFails, Broadcast, Confirm, RecordResult, CommitCursor,
     BuildNothing, RefuseWitness, BuildBatch, ConfirmTimeout, DriverFault, MarkBatchIncluded,
     Decline, CommitRows, Reopen
<1>10. ASSUME \/ \E b \in 1..MaxBatches : CancelBatch(b)
              \/ \E i \in DOMAIN txs : Deliver(i)
              \/ UNCHANGED vars
       PROVE  UNCHANGED handler
  BY <1>10 DEF CancelBatch, Deliver, vars, memory
<1>11. ASSUME NEW g \in Handlers, HandlerStep(g) \/ HandlerFault(g) PROVE Goal
  <2>1. CASE HandlerInitCursor(g)
    BY <1>4, <2>1 DEF HandlerInitCursor
  <2>2. CASE SaveOperation(g)
    BY <1>4, <2>2 DEF SaveOperation
  <2>3. CASE WritePendingRoot(g)
    BY <1>3, <1>4, <2>3 DEF WritePendingRoot
  <2> HIDE DEF Goal
  <2> QED
    BY <1>3, <1>5, <1>6, <1>11, <2>1, <2>2, <2>3 DEF HandlerStep, HandlerFault,
       RefuseOperation, CollideOnSave, SaveWithdrawRequest
<1> HIDE DEF Goal
<1> QED
  BY <1>2, <1>7, <1>8, <1>9, <1>10, <1>11 DEF Next

\* MarkIncluded puts the rows of the batch in it.
LEMMA MarkIncludedRow ==
    ASSUME NEW r \in Seq(DbRow), NEW b \in Nat, NEW keys, NEW i \in DOMAIN r
    PROVE  LET q == MarkIncluded(r, b, keys)[i]
           IN  \/ q = r[i] /\ Key(r[i]) \notin keys
               \/ /\ Key(r[i]) \in keys /\ SameRow(r[i], q)
                  /\ q.status = "included" /\ q.batch = b
<1> DEFINE x == r[i]
           y == [x EXCEPT !.status = "included", !.batch = b]
<1>1. x \in DbRow /\ "included" \in Status
  BY DEF Status
<1> HIDE DEF x
<1>2. SameRow(x, y) /\ y.status = "included" /\ y.batch = b
  BY <1>1, MarkRow DEF DbRow, Row
<1> HIDE DEF y
<1>3. MarkIncluded(r, b, keys)[i] = IF Key(x) \in keys THEN y ELSE x
  BY DEF MarkIncluded, x, y
<1> QED
  BY <1>2, <1>3 DEF x

\* MarkCommitted and MarkFailed set the status of the rows of the batch.
LEMMA MarkByBatchRow ==
    ASSUME NEW r \in Seq(DbRow), NEW b \in Nat, NEW s \in Status, NEW i \in DOMAIN r
    PROVE  LET q == MarkByBatch(r, b, s)[i]
           IN  \/ q = r[i] /\ r[i].batch # b
               \/ /\ r[i].batch = b /\ SameRow(r[i], q)
                  /\ q.status = s /\ q.batch = b
<1> DEFINE x == r[i]
           y == [x EXCEPT !.status = s]
<1>1. x \in DbRow
  OBVIOUS
<1> HIDE DEF x
<1>2. SameRow(x, y) /\ y.status = s /\ y.batch = x.batch
  BY <1>1, MarkRow DEF DbRow, Row
<1> HIDE DEF y
<1>3. MarkByBatch(r, b, s)[i] = IF x.batch = b THEN y ELSE x
  BY DEF MarkByBatch, x, y
<1> QED
  BY <1>2, <1>3 DEF x

\* ReopenIncluded returns the included rows of the batch to the queue.
LEMMA ReopenRow ==
    ASSUME NEW r \in Seq(DbRow), NEW b \in Nat, NEW i \in DOMAIN r
    PROVE  LET q == ReopenIncluded(r, b)[i]
           IN  \/ q = r[i] /\ ~InBatch(r[i], b)
               \/ /\ InBatch(r[i], b) /\ SameRow(r[i], q)
                  /\ q.status = "pending" /\ q.batch = NoBatch
<1> DEFINE x == r[i]
           y == [x EXCEPT !.status = "pending", !.batch = NoBatch]
<1>1. x \in DbRow /\ NoBatch \in Nat /\ "pending" \in Status
  BY DEF NoBatch, Status
<1> HIDE DEF x
<1>2. SameRow(x, y) /\ y.status = "pending" /\ y.batch = NoBatch
  BY <1>1, MarkRow DEF DbRow, Row
<1> HIDE DEF y
<1>3. ReopenIncluded(r, b)[i] = IF InBatch(x, b) THEN y ELSE x
  BY DEF ReopenIncluded, x, y
<1> QED
  BY <1>2, <1>3 DEF x

\* A row is as it was, is saved by a handler, or is marked by a driver or reopened.
LEMMA RowMove ==
    ASSUME Types, Types', [Next]_vars, NEW i \in DOMAIN rows'
    PROVE  \/ i \in DOMAIN rows /\ rows'[i] = rows[i]
           \/ \E h \in Handlers : SaveOperation(h) /\ rows'[i] = handler[h].row
           \/ /\ i \in DOMAIN rows /\ SameRow(rows[i], rows'[i])
              /\ \E d \in Drivers :
                    \/ /\ MarkBatchIncluded(d) /\ Key(rows[i]) \in BatchKeys(driver[d].batch)
                       /\ rows'[i].status = "included" /\ rows'[i].batch = driver[d].batch.id
                    \/ /\ rows[i].batch = driver[d].batch.id /\ rows'[i].batch = rows[i].batch
                       /\ \/ Decline(d) /\ rows'[i].status = "failed"
                          \/ CommitRows(d) /\ rows'[i].status = "committed"
           \/ /\ i \in DOMAIN rows /\ SameRow(rows[i], rows'[i])
              /\ rows[i].status = "included"
              /\ rows'[i].status = "pending" /\ rows'[i].batch = NoBatch
              /\ \/ \E d \in Drivers : Reopen(d) /\ rows[i].batch = driver[d].batch.id
                 \/ \E b \in 1..MaxBatches : CancelBatch(b)
<1> DEFINE Kept == i \in DOMAIN rows /\ rows'[i] = rows[i]
           Saved == \E h \in Handlers : SaveOperation(h) /\ rows'[i] = handler[h].row
           Marked(d) ==
              \/ /\ MarkBatchIncluded(d) /\ Key(rows[i]) \in BatchKeys(driver[d].batch)
                 /\ rows'[i].status = "included" /\ rows'[i].batch = driver[d].batch.id
              \/ /\ rows[i].batch = driver[d].batch.id /\ rows'[i].batch = rows[i].batch
                 /\ \/ Decline(d) /\ rows'[i].status = "failed"
                    \/ CommitRows(d) /\ rows'[i].status = "committed"
           Updated == /\ i \in DOMAIN rows /\ SameRow(rows[i], rows'[i])
                      /\ \E d \in Drivers : Marked(d)
           Reopened == /\ i \in DOMAIN rows /\ SameRow(rows[i], rows'[i])
                       /\ rows[i].status = "included"
                       /\ rows'[i].status = "pending" /\ rows'[i].batch = NoBatch
                       /\ \/ \E d \in Drivers : Reopen(d) /\ rows[i].batch = driver[d].batch.id
                          \/ \E b \in 1..MaxBatches : CancelBatch(b)
           Goal == Kept \/ Saved \/ Updated \/ Reopened
<1> SUFFICES Goal
  BY Zenon
<1>1. /\ rows \in Seq(DbRow) /\ rows' \in Seq(DbRow)
      /\ "committed" \in Status /\ "failed" \in Status /\ "pending" \in Status
  BY DEF Types, Status
<1>2. ASSUME NEW d \in Drivers, driver[d].pc # "idle" PROVE driver[d].batch.id \in Nat
  BY <1>2 DEF Types, DriverState, IdleDriver, Batch
<1>3. ASSUME NEW h \in Handlers, SaveOperation(h) PROVE Goal
  <2> DEFINE x == handler[h].row
             q == SavePending(rows, x)
  <2>1. x \in DbRow /\ rows' = q
    BY <1>3 DEF SaveOperation, Types, HandlerState, IdleHandler
  <2>2. \A k \in 1..Len(q) : \/ q[k] = x
                             \/ k \in 1..Len(rows) /\ q[k] = rows[k] /\ Key(rows[k]) # Key(x)
    <3> HIDE DEF x
    <3> QED
      BY <1>1, <2>1, SaveRow
  <2> HIDE DEF x, q
  <2>3. rows'[i] = x \/ (i \in DOMAIN rows /\ rows'[i] = rows[i])
    BY <1>1, <2>1, <2>2
  <2> QED
    BY <1>3, <2>3 DEF x
<1>4. ASSUME NEW d \in Drivers, MarkBatchIncluded(d) PROVE Goal
  <2> DEFINE b == driver[d].batch.id
             keys == BatchKeys(driver[d].batch)
             q == MarkIncluded(rows, b, keys)
  <2>1. b \in Nat /\ rows' = q
    BY <1>2, <1>4 DEF MarkBatchIncluded
  <2>2. i \in DOMAIN rows
    BY <1>1, <2>1 DEF MarkIncluded
  <2> HIDE DEF b, keys, q
  <2>3. \/ q[i] = rows[i]
        \/ /\ Key(rows[i]) \in keys /\ SameRow(rows[i], q[i])
           /\ q[i].status = "included" /\ q[i].batch = b
    BY <1>1, <2>1, <2>2, MarkIncludedRow DEF q
  <2> QED
    BY <1>4, <2>1, <2>2, <2>3 DEF b, keys
<1>5. ASSUME NEW d \in Drivers, Decline(d) \/ CommitRows(d) PROVE Goal
  <2> DEFINE b == driver[d].batch.id
             s == IF Decline(d) THEN "failed" ELSE "committed"
             q == MarkByBatch(rows, b, s)
  <2>1. b \in Nat /\ rows' = q /\ s \in Status
    <3>1. ~(Decline(d) /\ CommitRows(d))
      BY DEF Decline, CommitRows
    <3> QED
      BY <1>1, <1>2, <1>5, <3>1 DEF Decline, CommitRows
  <2>2. i \in DOMAIN rows
    BY <1>1, <2>1 DEF MarkByBatch
  <2>3. (Decline(d) /\ s = "failed") \/ (CommitRows(d) /\ s = "committed")
    BY <1>5
  <2> HIDE DEF b, s, q
  <2>4. \/ q[i] = rows[i]
        \/ /\ rows[i].batch = b /\ SameRow(rows[i], q[i])
           /\ q[i].status = s /\ q[i].batch = b
    BY <1>1, <2>1, <2>2, MarkByBatchRow DEF q
  <2> QED
    BY <2>1, <2>2, <2>3, <2>4 DEF b
<1>6. ASSUME NEW b \in Nat, rows' = ReopenIncluded(rows, b),
             \/ \E d \in Drivers : Reopen(d) /\ b = driver[d].batch.id
             \/ \E c \in 1..MaxBatches : CancelBatch(c)
      PROVE  Goal
  <2> DEFINE q == ReopenIncluded(rows, b)
  <2>1. i \in DOMAIN rows
    BY <1>1, <1>6 DEF ReopenIncluded
  <2> HIDE DEF q
  <2>2. \/ q[i] = rows[i]
        \/ /\ InBatch(rows[i], b) /\ SameRow(rows[i], q[i])
           /\ q[i].status = "pending" /\ q[i].batch = NoBatch
    BY <1>1, <2>1, ReopenRow DEF q
  <2>3. rows' = q
    BY <1>6 DEF q
  <2> QED
    BY <1>6, <2>1, <2>2, <2>3 DEF InBatch
<1>7. CASE UNCHANGED rows
  BY <1>7
<1>8. ASSUME NEW d \in Drivers, Reopen(d) PROVE Goal
  BY <1>2, <1>6, <1>7, <1>8 DEF Reopen
<1>9. ASSUME NEW b \in 1..MaxBatches, CancelBatch(b) PROVE Goal
  BY <1>6, <1>9, SettlementAssumption DEF CancelBatch
<1> HIDE DEF Goal
<1> QED
  BY <1>3, <1>4, <1>5, <1>7, <1>8, <1>9 DEF Next, PassStep, BuildStep, vars, database, StartPass,
     DriverInitCursor, ListDeposits, Prove, ProverFails, GuardRefuses, VerifierRefuses, SubmitFails,
     Broadcast, Confirm, RecordResult, CommitCursor, BuildNothing, RefuseWitness, BuildBatch,
     ConfirmTimeout, DriverFault, ReceiveDeposit, ReceiveWithdraw, HandlerStep, HandlerFault,
     HandlerInitCursor, ApplyOperation, RefuseOperation, SnapshotAfter, CollideOnSave,
     ReadCursor, WritePendingRoot, SaveWithdrawRequest, Deliver, Restart, RestartBlind

-----------------------------------------------------------------------------
(* Batch numbers *)

\* The operations of the handlers are new: pending and in no batch.
Fresh ==
    \A h \in Handlers : handler[h].pc # "idle"
        => handler[h].row.status = "pending" /\ handler[h].row.batch = NoBatch

\* A number stands for one batch: those that the drivers hold differ, and the rows
\* marked with one of them are operations of its batch.
Numbered ==
    /\ \A d \in Drivers : driver[d].pc \in Holding => driver[d].batch.id \in 1..batchSeq
    /\ \A d, e \in Drivers : d # e /\ driver[d].pc \in Holding /\ driver[e].pc \in Holding
                               => driver[d].batch.id # driver[e].batch.id
    /\ \A i \in DOMAIN rows : rows[i].batch \in 0..batchSeq
    /\ \A d \in Drivers, i \in DOMAIN rows :
          driver[d].pc \in Holding /\ rows[i].batch = driver[d].batch.id
              => Key(rows[i]) \in BatchKeys(driver[d].batch)

\* A restart is counted; any other step keeps the batch number or takes the next.
LEMMA SeqStep ==
    ASSUME [Next]_vars
    PROVE  \/ restarts' = restarts /\ batchSeq' \in {batchSeq, batchSeq + 1}
           \/ restarts' = restarts + 1 /\ restarts < MaxRestarts
<1>1. ASSUME NEW h \in Handlers,
             \/ \E d \in Deposits : ReceiveDeposit(h, d)
             \/ \E a \in Accounts, amount \in WithdrawAmounts : ReceiveWithdraw(h, a, amount)
             \/ HandlerStep(h) \/ HandlerFault(h)
      PROVE  UNCHANGED <<restarts, batchSeq>>
  BY <1>1 DEF ReceiveDeposit, ReceiveWithdraw, HandlerStep, HandlerFault, HandlerInitCursor,
     ApplyOperation, RefuseOperation, SnapshotAfter, SaveOperation, CollideOnSave, ReadCursor,
     WritePendingRoot, SaveWithdrawRequest
<1>2. ASSUME NEW d \in Drivers,
             PassStep(d) \/ BuildStep(d) \/ ConfirmTimeout(d) \/ DriverFault(d)
      PROVE  restarts' = restarts /\ batchSeq' \in {batchSeq, batchSeq + 1}
  BY <1>2 DEF PassStep, BuildStep, StartPass, DriverInitCursor, ListDeposits, Prove, ProverFails,
     GuardRefuses, VerifierRefuses, SubmitFails, Broadcast, Confirm, RecordResult, CommitCursor,
     BuildNothing, RefuseWitness, BuildBatch, ConfirmTimeout, DriverFault, MarkBatchIncluded,
     Decline, CommitRows, Reopen
<1>3. ASSUME \/ \E b \in 1..MaxBatches : CancelBatch(b)
             \/ \E i \in DOMAIN txs : Deliver(i)
             \/ UNCHANGED vars
      PROVE  UNCHANGED <<restarts, batchSeq>>
  BY <1>3 DEF CancelBatch, Deliver, vars, memory
<1>4. ASSUME Restart \/ RestartBlind PROVE restarts' = restarts + 1 /\ restarts < MaxRestarts
  BY <1>4 DEF Restart, RestartBlind
<1> QED
  BY <1>1, <1>2, <1>3, <1>4 DEF Next

\* Handlers keep working on operations that are new.
LEMMA FreshStep ==
    ASSUME Types, Fresh, [Next]_vars
    PROVE  Fresh'
<1> SUFFICES ASSUME NEW h \in Handlers, handler'[h].pc # "idle"
             PROVE  handler'[h].row.status = "pending" /\ handler'[h].row.batch = NoBatch
  BY DEF Fresh
<1> QED
  BY HandlerMove DEF Fresh

\* Until a restart a batch number is not handed out twice.
LEMMA NumberedStep ==
    ASSUME Types, Types', Fresh, Numbered, [Next]_vars, restarts' = restarts, restarts \in Nat
    PROVE  Numbered'
<1> DEFINE n == batchSeq
           m == batchSeq'
           Held(d) == driver[d].pc \in Holding
           HeldN(d) == driver'[d].pc \in Holding
<1>1. n \in Nat /\ m \in {n, n + 1}
  BY SeqStep DEF Types
<1>2. ASSUME NEW d \in Drivers, HeldN(d)
      PROVE  \/ Held(d) /\ driver'[d].batch = driver[d].batch
             \/ /\ BuildBatch(d) /\ driver'[d].batch.id = n + 1 /\ m = n + 1
                /\ \A e \in Drivers : e # d => driver'[e] = driver[e]
  <2>1. CASE Held(d) /\ driver'[d].batch = driver[d].batch
    BY <2>1
  <2>2. CASE BuildBatch(d)
    BY <2>2, BuildBatchEffect DEF BuildBatch
  <2> QED
    BY <1>2, <2>1, <2>2, DriverStep DEF Holding
<1>3. ASSUME NEW d \in Drivers, HeldN(d) PROVE driver'[d].batch.id \in 1..m
  <2>1. CASE Held(d) /\ driver'[d].batch = driver[d].batch
    BY <1>1, <2>1 DEF Numbered
  <2>2. CASE driver'[d].batch.id = n + 1 /\ m = n + 1
    BY <1>1, <2>2
  <2> QED
    BY <1>2, <1>3, <2>1, <2>2
<1>4. ASSUME NEW d \in Drivers, NEW e \in Drivers, d # e, HeldN(d), HeldN(e)
      PROVE  driver'[d].batch.id # driver'[e].batch.id
  <2>1. ASSUME NEW a \in Drivers, NEW b \in Drivers, a # b, BuildBatch(a), HeldN(b),
               driver'[a].batch.id = n + 1, driver'[b] = driver[b]
        PROVE  driver'[a].batch.id # driver'[b].batch.id
    <3>1. driver'[b].batch.id \in 1..n
      BY <2>1 DEF Numbered
    <3> QED
      BY <1>1, <2>1, <3>1
  <2>2. CASE BuildBatch(d) /\ driver'[d].batch.id = n + 1 /\ driver'[e] = driver[e]
    BY <1>4, <2>1, <2>2
  <2>3. CASE BuildBatch(e) /\ driver'[e].batch.id = n + 1 /\ driver'[d] = driver[d]
    BY <1>4, <2>1, <2>3
  <2>4. CASE /\ Held(d) /\ driver'[d].batch = driver[d].batch
             /\ Held(e) /\ driver'[e].batch = driver[e].batch
    BY <1>4, <2>4 DEF Numbered
  <2> QED
    BY <1>2, <1>4, <2>2, <2>3, <2>4
<1>5. ASSUME NEW i \in DOMAIN rows' PROVE rows'[i].batch \in 0..m
  <2>1. CASE i \in DOMAIN rows /\ rows'[i].batch = rows[i].batch
    BY <1>1, <2>1 DEF Numbered
  <2>2. CASE rows'[i].batch = NoBatch
    BY <1>1, <2>2 DEF NoBatch
  <2>3. ASSUME NEW h \in Handlers, SaveOperation(h), rows'[i] = handler[h].row
        PROVE  rows'[i].batch = NoBatch
    BY <2>3 DEF SaveOperation, Fresh
  <2>4. ASSUME NEW d \in Drivers, MarkBatchIncluded(d), rows'[i].batch = driver[d].batch.id
        PROVE  rows'[i].batch \in 0..m
    <3>1. driver[d].batch.id \in 1..n
      BY <2>4 DEF MarkBatchIncluded, Holding, Numbered
    <3> QED
      BY <1>1, <2>4, <3>1
  <2> QED
    BY <2>1, <2>2, <2>3, <2>4, RowMove
<1>6. ASSUME NEW d \in Drivers, NEW i \in DOMAIN rows', HeldN(d),
             rows'[i].batch = driver'[d].batch.id
      PROVE  Key(rows'[i]) \in BatchKeys(driver'[d].batch)
  <2>0. driver'[d].batch.id \in 1..m
    BY <1>3, <1>6
  <2>1. CASE rows'[i].batch = NoBatch
    BY <1>1, <1>6, <2>0, <2>1 DEF NoBatch
  <2>2. ASSUME NEW h \in Handlers, SaveOperation(h), rows'[i] = handler[h].row
        PROVE  rows'[i].batch = NoBatch
    BY <2>2 DEF SaveOperation, Fresh
  <2>3. ASSUME i \in DOMAIN rows, rows'[i].batch = rows[i].batch, Key(rows'[i]) = Key(rows[i])
        PROVE  Key(rows'[i]) \in BatchKeys(driver'[d].batch)
    <3>1. rows[i].batch \in 0..n
      BY <2>3 DEF Numbered
    <3>2. driver'[d].batch.id # n + 1
      BY <1>1, <1>6, <2>3, <3>1
    <3>3. Held(d) /\ driver'[d].batch = driver[d].batch
      BY <1>2, <1>6, <3>2
    <3> QED
      BY <1>6, <2>3, <3>3 DEF Numbered
  <2>4. ASSUME NEW e \in Drivers, MarkBatchIncluded(e), i \in DOMAIN rows,
               Key(rows[i]) \in BatchKeys(driver[e].batch), Key(rows'[i]) = Key(rows[i]),
               rows'[i].batch = driver[e].batch.id
        PROVE  Key(rows'[i]) \in BatchKeys(driver'[d].batch)
    <3>1. /\ Held(e) /\ batchSeq' = batchSeq
      BY <2>4 DEF MarkBatchIncluded, Holding
    <3>2. Held(d) /\ driver'[d].batch = driver[d].batch
      BY <1>1, <1>2, <1>6, <3>1
    <3>3. d = e
      BY <1>6, <2>4, <3>1, <3>2 DEF Numbered
    <3> QED
      BY <2>4, <3>2, <3>3
  <2>5. i \in DOMAIN rows /\ SameRow(rows[i], rows'[i]) => Key(rows'[i]) = Key(rows[i])
    BY DEF SameRow, SameOp, Key
  <2> QED
    BY <2>1, <2>2, <2>3, <2>4, <2>5, RowMove
<1> QED
  BY <1>3, <1>4, <1>5, <1>6 DEF Numbered

-----------------------------------------------------------------------------
(* Every operation once *)

\* Two rows of one operation: of a deposit, or of one nullifier.
SameMark(x, y) ==
    /\ x.kind = y.kind
    /\ IF x.kind = "deposit" THEN x.id = y.id ELSE x.nullifier = y.nullifier

\* The manager has applied the operation.
AppliedIn(s, x) ==
    IF x.kind = "deposit" THEN x.id \in s.appliedDeposits ELSE x.nullifier \in s.appliedNullifiers

\* The handlers whose operation is applied and has no row yet.
Unsaved == {h \in Handlers : handler[h].pc \in {"snapshot", "save"}}

\* Rows and unsaved operations were applied, and no two are the same operation.
Once ==
    /\ \A i \in DOMAIN rows : AppliedIn(ls, rows[i])
    /\ \A h \in Unsaved : /\ AppliedIn(ls, handler[h].row)
                          /\ \A i \in DOMAIN rows : ~SameMark(rows[i], handler[h].row)
    /\ \A g, h \in Unsaved : g # h => ~SameMark(handler[g].row, handler[h].row)
    /\ \A i, j \in DOMAIN rows : i # j => ~SameMark(rows[i], rows[j])

\* SameMark and AppliedIn look only at what no update changes.
LEMMA SameMarks ==
    ASSUME NEW x, NEW y, NEW p, NEW q, SameOp(x, p), SameOp(y, q)
    PROVE  /\ SameMark(p, q) <=> SameMark(x, y)
           /\ \A s : AppliedIn(s, p) <=> AppliedIn(s, x)
BY DEF SameOp, SameMark, AppliedIn

\* An operation is applied when it was not, and stays applied.
LEMMA ApplyOnce ==
    ASSUME Types, NEW h \in Handlers, ApplyOperation(h)
    PROVE  /\ ~AppliedIn(ls, handler[h].row) /\ AppliedIn(ls', handler[h].row)
           /\ \A x : AppliedIn(ls, x) => AppliedIn(ls', x)
<1> DEFINE x == handler[h].row
<1>1. CASE x.kind = "deposit"
  <2>1. x.id \notin ls.appliedDeposits /\ ls' = ApplyDeposit(ls, x.id)
    BY <1>1 DEF ApplyOperation, CanApply, CanApplyDeposit
  <2>2. /\ ls'.appliedDeposits = ls.appliedDeposits \cup {x.id}
        /\ ls'.appliedNullifiers = ls.appliedNullifiers
    BY <2>1 DEF ApplyDeposit
  <2> QED
    BY <1>1, <2>1, <2>2 DEF AppliedIn
<1>2. CASE x.kind # "deposit"
  <2>1. x.nullifier \notin ls.appliedNullifiers /\ ls' = ApplyWithdrawal(ls, x, x.nullifier)
    BY <1>2 DEF ApplyOperation, CanApply, CanApplyWithdrawal
  <2>2. /\ ls'.appliedDeposits = ls.appliedDeposits
        /\ ls'.appliedNullifiers = ls.appliedNullifiers \cup {x.nullifier}
    BY <2>1 DEF ApplyWithdrawal
  <2> QED
    BY <1>2, <2>1, <2>2 DEF AppliedIn
<1> QED
  BY <1>1, <1>2

\* An operation about to be saved has no row: the save appends one.
LEMMA SaveAppends ==
    ASSUME Types, Named, Once, NEW h \in Handlers, SaveOperation(h)
    PROVE  /\ Key(handler[h].row) \notin Keys(rows)
           /\ rows' = Append(rows, handler[h].row)
<1> DEFINE x == handler[h].row
<1>1. ASSUME NEW i \in DOMAIN rows, Key(rows[i]) = Key(x) PROVE FALSE
  <2>1. h \in Unsaved
    BY DEF SaveOperation, Unsaved
  <2>2. ~SameMark(rows[i], x)
    BY <2>1 DEF Once
  <2>3. rows[i] \in Known /\ x \in Known
    BY DEF Known, SaveOperation
  <2>4. rows[i] \in DbRow
    BY DEF Types
  <2>5. rows[i].kind \in {"deposit", "withdrawal"}
    BY <2>4 DEF DbRow, Row
  <2>6. rows[i].kind = x.kind /\ rows[i].id = x.id
    BY <1>1 DEF Key
  <2>7. rows[i].kind = "withdrawal" => rows[i].nullifier = x.nullifier
    BY <1>1, <2>3 DEF Named
  <2> QED
    BY <2>2, <2>5, <2>6, <2>7 DEF SameMark
<1>2. Key(x) \notin Keys(rows)
  BY <1>1 DEF Keys
<1> QED
  BY <1>2 DEF SaveOperation, SavePending

\* Until a restart every operation is applied, and recorded, once.
LEMMA OnceStep ==
    ASSUME Types, Types', Named, Once, [Next]_vars, restarts' = restarts, restarts \in Nat
    PROVE  Once'
<1>1. ls' = ls \/ \E h \in Handlers : ApplyOperation(h)
  <2>1. ~Restart /\ ~RestartBlind
    BY DEF Restart, RestartBlind
  <2> QED
    BY <2>1, ManagerStep
<1>2. \A x : AppliedIn(ls, x) => AppliedIn(ls', x)
  BY <1>1, ApplyOnce
<1>3. rows \in Seq(DbRow) /\ rows' \in Seq(DbRow)
      /\ DOMAIN rows = 1..Len(rows) /\ DOMAIN rows' = 1..Len(rows')
  BY DEF Types
<1>4. ASSUME NEW h \in Unsaved'
      PROVE  /\ h \in Handlers /\ SameOp(handler[h].row, handler'[h].row)
             /\ h \in Unsaved \/ ApplyOperation(h)
  <2>1. h \in Handlers /\ handler'[h].pc \in {"snapshot", "save"}
    BY <1>4 DEF Unsaved
  <2>2. CASE handler'[h] = handler[h]
    BY <2>1, <2>2 DEF Unsaved, SameOp
  <2>3. CASE SnapshotAfter(h) /\ SameOp(handler[h].row, handler'[h].row)
    BY <2>1, <2>3 DEF Unsaved, SnapshotAfter
  <2> QED
    BY <2>1, <2>2, <2>3, HandlerMove
<1>5. ASSUME NEW h \in Handlers, SaveOperation(h) PROVE Once'
  <2> DEFINE x == handler[h].row
             n == Len(rows)
  <2>1. /\ rows' = Append(rows, x) /\ h \in Unsaved
        /\ \A g \in Handlers : g # h => handler'[g] = handler[g]
        /\ handler'[h].pc = "readCursor" /\ ls' = ls
    BY <1>5, SaveAppends, GotoHandlerEffect DEF SaveOperation, Unsaved
  <2>2. /\ Len(rows') = n + 1 /\ n \in Nat /\ rows'[n + 1] = x
        /\ \A i \in 1..n : rows'[i] = rows[i]
    <3>1. x \in DbRow
      BY <1>5 DEF SaveOperation, Types, HandlerState, IdleHandler
    <3> HIDE DEF x
    <3> QED
      BY <1>3, <2>1, <3>1
  <2>3. AppliedIn(ls, x) /\ \A i \in 1..n : ~SameMark(rows[i], x) /\ ~SameMark(x, rows[i])
    BY <1>3, <2>1 DEF Once, SameMark
  <2>4. ASSUME NEW g \in Unsaved'
        PROVE  g \in Unsaved /\ g # h /\ handler'[g] = handler[g]
    BY <2>1, <2>4 DEF Unsaved
  <2>5. \A g \in Unsaved' : /\ AppliedIn(ls, handler'[g].row) /\ ~SameMark(x, handler'[g].row)
                            /\ \A i \in 1..n : ~SameMark(rows[i], handler'[g].row)
    BY <1>3, <2>1, <2>4 DEF Once
  <2>6. \A g, k \in Unsaved' : g # k => ~SameMark(handler'[g].row, handler'[k].row)
    BY <2>4 DEF Once
  <2>7. \A i \in DOMAIN rows' : AppliedIn(ls', rows'[i])
    BY <1>3, <2>1, <2>2, <2>3 DEF Once
  <2> HIDE DEF x, n
  <2>8. \A g \in Unsaved', i \in DOMAIN rows' : ~SameMark(rows'[i], handler'[g].row)
    BY <1>3, <2>2, <2>5
  <2>9. \A i, j \in DOMAIN rows' : i # j => ~SameMark(rows'[i], rows'[j])
    <3>1. \A i, j \in 1..n : i # j => ~SameMark(rows[i], rows[j])
      BY <1>3 DEF Once, n
    <3> QED
      BY <1>3, <2>2, <2>3, <3>1
  <2> QED
    BY <2>1, <2>5, <2>6, <2>7, <2>8, <2>9 DEF Once
<1>6. ASSUME SameRows(rows, rows') PROVE Once'
  <2>1. /\ DOMAIN rows' = DOMAIN rows
        /\ \A i \in DOMAIN rows : SameOp(rows[i], rows'[i])
    BY <1>3, <1>6 DEF SameRows, SameRow
  <2>2. \A i \in DOMAIN rows' : AppliedIn(ls', rows'[i])
    BY <1>2, <2>1, SameMarks DEF Once
  <2>3. \A i, j \in DOMAIN rows' : i # j => ~SameMark(rows'[i], rows'[j])
    BY <2>1, SameMarks DEF Once
  <2>4. ASSUME NEW h \in Unsaved'
        PROVE  /\ AppliedIn(ls', handler'[h].row)
               /\ \A i \in DOMAIN rows' : ~SameMark(rows'[i], handler'[h].row)
    <3>1. CASE h \in Unsaved
      BY <1>2, <1>4, <2>1, <2>4, <3>1, SameMarks DEF Once
    <3>2. CASE ApplyOperation(h)
      <4>1. ~AppliedIn(ls, handler[h].row) /\ AppliedIn(ls', handler[h].row)
        BY <1>4, <2>4, <3>2, ApplyOnce
      <4>2. AppliedIn(ls', handler'[h].row)
        BY <1>4, <2>4, <4>1, SameMarks
      <4>3. ASSUME NEW i \in DOMAIN rows', SameMark(rows'[i], handler'[h].row) PROVE FALSE
        <5>1. SameMark(rows[i], handler[h].row)
          BY <1>4, <2>1, <2>4, <4>3, SameMarks
        <5>2. AppliedIn(ls, rows[i])
          BY <2>1 DEF Once
        <5> QED
          BY <4>1, <5>1, <5>2 DEF SameMark, AppliedIn
      <4> QED
        BY <4>2, <4>3
    <3> QED
      BY <1>4, <2>4, <3>1, <3>2
  <2>5. ASSUME NEW g \in Unsaved', NEW h \in Unsaved', g # h
        PROVE  ~SameMark(handler'[g].row, handler'[h].row)
    <3>1. CASE g \in Unsaved /\ h \in Unsaved
      BY <1>4, <2>5, <3>1, SameMarks DEF Once
    <3>2. ASSUME NEW a \in Unsaved', NEW b \in Unsaved', a # b, ApplyOperation(a)
          PROVE  ~SameMark(handler'[a].row, handler'[b].row)
      <4>1. a \in Handlers /\ b \in Handlers /\ handler'[b] = handler[b]
        BY <1>4, <3>2, SnapshotEffect
      <4>2. b \in Unsaved
        BY <3>2, <4>1 DEF Unsaved
      <4>3. AppliedIn(ls, handler[b].row) /\ ~AppliedIn(ls, handler[a].row)
        BY <3>2, <4>1, <4>2, ApplyOnce DEF Once
      <4>4. ~SameMark(handler[a].row, handler[b].row)
        BY <4>3 DEF SameMark, AppliedIn
      <4> QED
        BY <1>4, <3>2, <4>4, SameMarks
    <3>3. SameMark(handler'[g].row, handler'[h].row) => SameMark(handler'[h].row, handler'[g].row)
      BY DEF SameMark
    <3> QED
      BY <1>4, <2>5, <3>1, <3>2, <3>3
  <2> QED
    BY <2>2, <2>3, <2>4, <2>5 DEF Once
<1> QED
  BY <1>5, <1>6, RowsStep

\* Before anything is recorded, nothing is.
LEMMA InitOnce == Init => Fresh /\ Numbered /\ Once /\ CommittedAccepted /\ restarts = 0
<1> SUFFICES ASSUME Init PROVE Fresh /\ Numbered /\ Once /\ CommittedAccepted /\ restarts = 0
  OBVIOUS
<1>1. /\ \A h \in Handlers : handler[h].pc = "idle"
      /\ \A d \in Drivers : driver[d].pc = "idle"
      /\ rows = <<>> /\ restarts = 0
  BY DEF Init, IdleHandler, IdleDriver
<1> QED
  BY <1>1 DEF Fresh, Numbered, Once, Unsaved, CommittedAccepted, RowsWith, Holding

\* Until the process restarts, and for any number of handlers, drivers and failures,
\* no insert trips the unique index on the nullifier: no nonce is handed out and
\* applied twice.
THEOREM SaveTheorem == Spec => [](restarts = 0 => SaveNeverCollides)
<1> DEFINE I == /\ Types /\ Named /\ restarts \in Nat
                /\ restarts = 0 => Once
<1>1. Init => I
  BY InitTypes, InitRecorded, InitOnce
<1>2. I /\ [Next]_vars => I'
  <2> SUFFICES ASSUME I, [Next]_vars PROVE I'
    OBVIOUS
  <2>1. Types' /\ Named'
    BY NextTypes, NamedKept
  <2>2. restarts' \in Nat /\ (restarts' = 0 => restarts = 0 /\ restarts' = restarts)
    BY SeqStep
  <2>3. ASSUME restarts' = 0 PROVE Once'
    BY <2>1, <2>2, <2>3, OnceStep
  <2> QED
    BY <2>1, <2>2, <2>3
<1>3. I => (restarts = 0 => SaveNeverCollides)
  <2> SUFFICES ASSUME Once, NEW h \in Handlers, handler[h].pc = "save",
                      NullifierTaken(rows, handler[h].row)
               PROVE  FALSE
    BY DEF SaveNeverCollides
  <2>1. PICK i \in DOMAIN rows : /\ rows[i].kind = "withdrawal"
                                 /\ rows[i].nullifier = handler[h].row.nullifier
                                 /\ handler[h].row.kind = "withdrawal"
    BY DEF NullifierTaken
  <2>2. h \in Unsaved
    BY DEF Unsaved
  <2> QED
    BY <2>1, <2>2 DEF Once, SameMark
<1> QED
  BY <1>1, <1>2, <1>3, PTL DEF Spec

-----------------------------------------------------------------------------
(* Committed rows *)

\* The settled rows stay settled, whatever else happens to them.
LEMMA CommittedStep ==
    ASSUME Types, Types', Submitted, Named, Recorded, Fresh, Numbered, CommittedAccepted,
           [Next]_vars
    PROVE  CommittedAccepted'
<1> SUFFICES ASSUME NEW i \in DOMAIN rows', rows'[i].status = "committed"
             PROVE  SettledIn(chain', rows'[i])
  BY DEF CommittedAccepted, RowsWith, SettledOn, SettledIn
<1>1. ASSUME i \in DOMAIN rows, rows'[i] = rows[i] PROVE SettledIn(chain', rows'[i])
  <2>1. SettledIn(chain, rows[i])
    BY <1>1 DEF CommittedAccepted, RowsWith, SettledOn, SettledIn
  <2> QED
    BY <1>1, <2>1, SettledKept
<1>2. ASSUME NEW h \in Handlers, SaveOperation(h), rows'[i] = handler[h].row PROVE FALSE
  BY <1>2 DEF SaveOperation, Fresh
<1>3. ASSUME NEW d \in Drivers, CommitRows(d), i \in DOMAIN rows, SameRow(rows[i], rows'[i]),
             rows[i].batch = driver[d].batch.id
      PROVE  SettledIn(chain', rows'[i])
  <2> DEFINE b == driver[d].batch
             x == rows[i]
  <2>1. Key(x) \in BatchKeys(b)
    BY <1>3 DEF CommitRows, Holding, Numbered
  <2>2. PICK k \in DOMAIN b.ops : Key(x) = Key(b.ops[k])
    BY <2>1 DEF BatchKeys
  <2>3. SettledIn(chain, b.ops[k])
    BY <1>3 DEF CommitRows, Submitted, Recorded
  <2>4. PICK j \in DOMAIN rows : /\ Key(rows[j]) = Key(b.ops[k])
                                 /\ b.ops[k].kind = "withdrawal"
                                      => rows[j].nullifier = b.ops[k].nullifier
    BY DEF Recorded, AllRecorded, RecordedIn
  <2>5. x \in Known /\ rows[j] \in Known
    BY <1>3 DEF Known
  <2>6. x \in DbRow
    BY <1>3 DEF Types
  <2>7. x.kind \in {"deposit", "withdrawal"}
    BY <2>6 DEF DbRow, Row
  <2>8. x.kind = b.ops[k].kind /\ x.id = b.ops[k].id
    BY <2>2 DEF Key
  <2>9. x.kind = "withdrawal" => x.nullifier = b.ops[k].nullifier
    BY <2>2, <2>4, <2>5, <2>8 DEF Named
  <2> HIDE DEF x, b
  <2>10. SettledIn(chain, x)
    BY <2>3, <2>7, <2>8, <2>9 DEF SettledIn
  <2>11. SettledIn(chain', x)
    BY <2>10, SettledKept
  <2> QED
    BY <1>3, <2>11 DEF SettledIn, SameRow, SameOp, x
<1> QED
  BY <1>1, <1>2, <1>3, RowMove

\* Until the process restarts, and for any number of handlers, drivers, failures and
\* cancels, a row is marked committed only when the chain has settled its operation.
THEOREM CommittedTheorem == Spec => [](restarts = 0 => CommittedAccepted)
<1> DEFINE K == Fresh /\ Numbered /\ CommittedAccepted
           I == /\ Types /\ Submitted /\ Named /\ Recorded /\ restarts \in Nat
                /\ restarts = 0 => K
<1>1. Init => I
  <2> SUFFICES ASSUME Init PROVE I
    OBVIOUS
  <2> QED
    BY InitTypes, InitRoots, InitRecorded, InitOnce
<1>2. I /\ [Next]_vars => I'
  <2> SUFFICES ASSUME I, [Next]_vars PROVE I'
    OBVIOUS
  <2>1. Types' /\ Submitted' /\ Named' /\ Recorded'
    BY NextTypes, SubmittedKept, NamedKept, RecordedStep
  <2>2. restarts' \in Nat /\ (restarts' = 0 => restarts = 0 /\ restarts' = restarts)
    BY SeqStep
  <2>3. ASSUME restarts' = 0 PROVE K'
    BY <2>1, <2>2, <2>3, FreshStep, NumberedStep, CommittedStep
  <2> HIDE DEF K
  <2> QED
    BY <2>1, <2>2, <2>3
<1>3. I => (restarts = 0 => CommittedAccepted)
  OBVIOUS
<1> QED
  BY <1>1, <1>2, <1>3, PTL DEF Spec

-----------------------------------------------------------------------------
(* Committed rows stay committed *)

\* What a driver has listed or built and not yet committed is not committed.
Uncommitted ==
    \A d \in Drivers, i \in DOMAIN rows : rows[i].status = "committed" =>
        /\ driver[d].pc = "build" =>
              \A k \in DOMAIN driver[d].pending : Key(rows[i]) # Key(driver[d].pending[k])
        /\ driver[d].pc = "mark" => Key(rows[i]) \notin BatchKeys(driver[d].batch)
        /\ driver[d].pc \in {"mark", "prove", "submit", "wait", "record", "commit"}
              => rows[i].batch # driver[d].batch.id

\* An operation has one row.
LEMMA OneRow ==
    ASSUME Types, Named, Once, NEW i \in DOMAIN rows, NEW j \in DOMAIN rows,
           Key(rows[i]) = Key(rows[j])
    PROVE  i = j
<1>1. rows[i] \in Known /\ rows[j] \in Known
  BY DEF Known
<1>2. rows[i] \in DbRow
  BY DEF Types
<1>3. rows[i].kind \in {"deposit", "withdrawal"}
  BY <1>2 DEF DbRow, Row
<1>4. rows[i].kind = rows[j].kind /\ rows[i].id = rows[j].id
  BY DEF Key
<1>5. rows[i].kind = "withdrawal" => rows[i].nullifier = rows[j].nullifier
  BY <1>1 DEF Named
<1>6. SameMark(rows[i], rows[j])
  BY <1>3, <1>4, <1>5 DEF SameMark
<1> QED
  BY <1>6 DEF Once

\* With one driver a committed row is as it was.
LEMMA CommittedRow ==
    ASSUME Types, Types', Named, Once, Uncommitted, [Next]_vars,
           NEW i \in DOMAIN rows, rows[i].status = "committed"
    PROVE  i \in DOMAIN rows' /\ Key(rows'[i]) = Key(rows[i]) /\ rows'[i].status = "committed"
<1>1. /\ rows \in Seq(DbRow) /\ rows' \in Seq(DbRow)
      /\ DOMAIN rows = 1..Len(rows) /\ DOMAIN rows' = 1..Len(rows')
      /\ Len(rows) \in Nat
  BY DEF Types
<1>2. ASSUME NEW h \in Handlers, SaveOperation(h) PROVE i \in DOMAIN rows' /\ rows'[i] = rows[i]
  <2> DEFINE x == handler[h].row
  <2>1. rows' = Append(rows, x)
    BY <1>2, SaveAppends
  <2>2. x \in DbRow
    BY <1>2 DEF SaveOperation, Types, HandlerState, IdleHandler
  <2> HIDE DEF x
  <2> QED
    BY <1>1, <2>1, <2>2
<1>3. ASSUME ~\E h \in Handlers : SaveOperation(h) PROVE i \in DOMAIN rows'
  <2>1. SameRows(rows, rows')
    BY <1>3, RowsStep
  <2> QED
    BY <1>1, <2>1 DEF SameRows
<1>4. i \in DOMAIN rows'
  BY <1>2, <1>3
<1>5. SameRow(rows[i], rows'[i]) => Key(rows'[i]) = Key(rows[i])
  BY DEF SameRow, SameOp, Key
<1>6. ASSUME NEW d \in Drivers, MarkBatchIncluded(d), Key(rows[i]) \in BatchKeys(driver[d].batch)
      PROVE  FALSE
  BY <1>6 DEF MarkBatchIncluded, Uncommitted
<1>7. ASSUME NEW d \in Drivers, Decline(d), rows[i].batch = driver[d].batch.id
      PROVE  FALSE
  BY <1>7 DEF Decline, Uncommitted
<1> QED
  BY <1>2, <1>4, <1>5, <1>6, <1>7, RowMove

\* A row is committed by its driver, and stays committed.
LEMMA NewlyCommitted ==
    ASSUME Types, Types', Fresh, [Next]_vars, NEW i \in DOMAIN rows', rows'[i].status = "committed"
    PROVE  /\ i \in DOMAIN rows /\ Key(rows'[i]) = Key(rows[i])
           /\ rows'[i].batch = rows[i].batch
           /\ rows[i].status = "committed" \/ \E d \in Drivers : CommitRows(d)
<1>1. ASSUME NEW h \in Handlers, SaveOperation(h), rows'[i] = handler[h].row PROVE FALSE
  BY <1>1 DEF SaveOperation, Fresh
<1>2. i \in DOMAIN rows /\ SameRow(rows[i], rows'[i]) => Key(rows'[i]) = Key(rows[i])
  BY DEF SameRow, SameOp, Key
<1> QED
  BY <1>1, <1>2, RowMove

\* A driver moves on with what it holds, ends or starts a pass, lists, or builds.
LEMMA DriverMove ==
    ASSUME Types, Submitted, [Next]_vars, NEW d \in Drivers
    PROVE  \/ driver'[d] = driver[d]
           \/ /\ driver'[d] = IdleDriver /\ driver'[d].pc = "idle"
              /\ \/ driver[d].pc \in {"build", "commitCursor", "reopen"}
                 \/ driver[d].pc \notin {"wait", "record", "commit"} /\ faults < MaxFaults
                 \/ Restart \/ RestartBlind
           \/ StartPass(d) /\ driver'[d].pc \in {"initCursor", "deposits"}
           \/ ListDeposits(d) /\ driver'[d].pc = "build"
           \/ BuildBatch(d) /\ driver'[d].pc = "mark"
           \/ /\ driver'[d].batch = driver[d].batch /\ driver'[d].seen = driver[d].seen
              /\ \/ DriverInitCursor(d) /\ driver'[d].pc = "deposits"
                 \/ MarkBatchIncluded(d) /\ driver'[d].pc = "prove"
                 \/ Prove(d) /\ driver'[d].pc = "submit"
                 \/ Broadcast(d) /\ driver'[d].pc = "wait" /\ driver'[d].tx = Len(txs) + 1
                 \/ /\ driver'[d].tx = driver[d].tx
                    /\ \/ /\ Confirm(d) /\ driver'[d].pc = "record"
                          /\ txs[driver[d].tx].status = "accepted"
                       \/ RecordResult(d) /\ driver'[d].pc = "commit"
                       \/ CommitRows(d) /\ driver'[d].pc = "commitCursor"
                 \/ /\ driver'[d].pc = "reopen"
                    /\ \/ driver[d].pc \in {"prove", "submit"}
                       \/ driver[d].pc = "wait" /\ txs[driver[d].tx].status = "rejected"
                       \/ /\ driver[d].pc \in {"wait", "commit", "commitCursor"}
                          /\ faults < MaxFaults
<1> DEFINE Moved == driver'[d].batch = driver[d].batch /\ driver'[d].seen = driver[d].seen
           Reopens == /\ driver'[d].pc = "reopen"
                      /\ \/ driver[d].pc \in {"prove", "submit"}
                         \/ driver[d].pc = "wait" /\ txs[driver[d].tx].status = "rejected"
                         \/ /\ driver[d].pc \in {"wait", "commit", "commitCursor"}
                            /\ faults < MaxFaults
           Advances == \/ DriverInitCursor(d) /\ driver'[d].pc = "deposits"
                       \/ MarkBatchIncluded(d) /\ driver'[d].pc = "prove"
                       \/ Prove(d) /\ driver'[d].pc = "submit"
                       \/ Broadcast(d) /\ driver'[d].pc = "wait" /\ driver'[d].tx = Len(txs) + 1
                       \/ /\ driver'[d].tx = driver[d].tx
                          /\ \/ /\ Confirm(d) /\ driver'[d].pc = "record"
                                /\ txs[driver[d].tx].status = "accepted"
                             \/ RecordResult(d) /\ driver'[d].pc = "commit"
                             \/ CommitRows(d) /\ driver'[d].pc = "commitCursor"
           Ended == /\ driver'[d] = IdleDriver /\ driver'[d].pc = "idle"
                    /\ \/ driver[d].pc \in {"build", "commitCursor", "reopen"}
                       \/ driver[d].pc \notin {"wait", "record", "commit"} /\ faults < MaxFaults
                       \/ Restart \/ RestartBlind
           Began == \/ StartPass(d) /\ driver'[d].pc \in {"initCursor", "deposits"}
                    \/ ListDeposits(d) /\ driver'[d].pc = "build"
                    \/ BuildBatch(d) /\ driver'[d].pc = "mark"
           Goal == driver'[d] = driver[d] \/ Ended \/ Began \/ (Moved /\ (Advances \/ Reopens))
<1> SUFFICES Goal
  BY Zenon
<1>1. ASSUME NEW e \in Drivers, EndPass(e),
             \/ driver[e].pc \in {"build", "commitCursor", "reopen"}
             \/ driver[e].pc \notin {"wait", "record", "commit"} /\ faults < MaxFaults
      PROVE  Goal
  BY <1>1, EndPassEffect
<1>2. ASSUME NEW e \in Drivers, NEW pc, GotoDriver(e, pc), driver[e].pc # "idle",
             e = d /\ driver'[d].pc = pc /\ driver'[d].tx = driver[d].tx => Advances \/ Reopens
      PROVE  Goal
  <2>1. /\ driver'[e].pc = pc /\ driver'[e].tx = driver[e].tx
        /\ driver'[e].batch = driver[e].batch /\ driver'[e].seen = driver[e].seen
        /\ e # d => driver'[d] = driver[d]
    BY <1>2, GotoDriverEffect
  <2> HIDE DEF Advances, Reopens
  <2> QED
    BY <1>2, <2>1
<1>3. ASSUME NEW e \in Drivers, StartPass(e) \/ ListDeposits(e) \/ BuildBatch(e) PROVE Goal
  <2>1. e # d => driver'[d] = driver[d]
    BY <1>3, StartPassEffect, ListDepositsEffect, BuildBatchEffect
  <2>2. StartPass(e) => driver'[e].pc = "initCursor" \/ driver'[e].pc = "deposits"
    BY StartPassEffect
  <2>3. ListDeposits(e) => driver'[e].pc = "build"
    BY ListDepositsEffect
  <2>4. BuildBatch(e) => driver'[e].pc = "mark"
    BY BuildBatchEffect
  <2> QED
    BY <1>3, <2>1, <2>2, <2>3, <2>4
<1>4. ASSUME NEW e \in Drivers, Broadcast(e) PROVE Goal
  <2>1. /\ driver'[e].pc = "wait" /\ driver'[e].tx = Len(txs) + 1
        /\ driver'[e].batch = driver[e].batch /\ driver'[e].seen = driver[e].seen
        /\ e # d => driver'[d] = driver[d]
    BY <1>4 DEF Broadcast, Types, DriverState, IdleDriver
  <2> QED
    BY <1>4, <2>1
<1>5. ASSUME NEW e \in Drivers,
             \/ DriverInitCursor(e) \/ MarkBatchIncluded(e) \/ Prove(e)
             \/ RecordResult(e) \/ CommitRows(e)
      PROVE  Goal
  <2>1. CASE DriverInitCursor(e)
    BY <1>2, <2>1 DEF DriverInitCursor
  <2>2. CASE MarkBatchIncluded(e)
    BY <1>2, <2>2 DEF MarkBatchIncluded
  <2>3. CASE Prove(e)
    BY <1>2, <2>3 DEF Prove
  <2>4. CASE RecordResult(e)
    BY <1>2, <2>4 DEF RecordResult
  <2>5. CASE CommitRows(e)
    BY <1>2, <2>5 DEF CommitRows
  <2> HIDE DEF Goal
  <2> QED
    BY <1>5, <2>1, <2>2, <2>3, <2>4, <2>5
<1>6. ASSUME NEW e \in Drivers, Confirm(e) PROVE Goal
  <2>1. txs[driver[e].tx].status \in {"accepted", "rejected"}
    <3>1. txs[driver[e].tx] \in Tx
      BY <1>6 DEF Confirm, Submitted, Types
    <3> QED
      BY <1>6, <3>1 DEF Confirm, Tx
  <2>2. CASE txs[driver[e].tx].status = "accepted"
    <3>1. GotoDriver(e, "record")
      BY <1>6, <2>2 DEF Confirm
    <3> QED
      BY <1>2, <1>6, <2>2, <3>1 DEF Confirm
  <2>3. CASE txs[driver[e].tx].status = "rejected"
    <3>1. GotoDriver(e, "reopen")
      BY <1>6, <2>3 DEF Confirm
    <3> QED
      BY <1>2, <1>6, <2>3, <3>1 DEF Confirm
  <2> QED
    BY <2>1, <2>2, <2>3
<1>7. ASSUME NEW e \in Drivers,
             \/ ProverFails(e) \/ GuardRefuses(e) \/ VerifierRefuses(e) \/ SubmitFails(e)
             \/ Decline(e) \/ ConfirmTimeout(e)
      PROVE  Goal
  <2>1. /\ GotoDriver(e, "reopen") /\ driver[e].pc # "idle"
        /\ \/ driver[e].pc \in {"prove", "submit"}
           \/ driver[e].pc = "wait" /\ faults < MaxFaults
    BY <1>7 DEF ProverFails, GuardRefuses, VerifierRefuses, SubmitFails, Decline, ConfirmTimeout
  <2> QED
    BY <1>2, <2>1
<1>8. ASSUME NEW e \in Drivers, DriverFault(e) PROVE Goal
  <2>1. CASE driver[e].pc \in {"commit", "commitCursor"}
    <3>1. GotoDriver(e, "reopen") /\ faults < MaxFaults
      BY <1>8, <2>1 DEF DriverFault
    <3> QED
      BY <1>2, <2>1, <3>1
  <2>2. CASE driver[e].pc \notin {"commit", "commitCursor"}
    BY <1>1, <1>8, <2>2 DEF DriverFault
  <2> QED
    BY <2>1, <2>2
<1>9. CASE Restart \/ RestartBlind
  BY <1>9 DEF Restart, RestartBlind, IdleDriver
<1>10. CASE UNCHANGED driver
  BY <1>10
<1>11. ASSUME NEW h \in Handlers,
              \/ \E x \in Deposits : ReceiveDeposit(h, x)
              \/ \E a \in Accounts, amount \in WithdrawAmounts : ReceiveWithdraw(h, a, amount)
              \/ HandlerStep(h) \/ HandlerFault(h)
       PROVE  UNCHANGED driver
  BY <1>11 DEF ReceiveDeposit, ReceiveWithdraw, HandlerStep, HandlerFault, HandlerInitCursor,
     ApplyOperation, RefuseOperation, SnapshotAfter, SaveOperation, CollideOnSave, ReadCursor,
     WritePendingRoot, SaveWithdrawRequest
<1>12. ASSUME \/ \E b \in 1..MaxBatches : CancelBatch(b)
              \/ \E i \in DOMAIN txs : Deliver(i)
              \/ UNCHANGED vars
       PROVE  UNCHANGED driver
  BY <1>12 DEF CancelBatch, Deliver, vars, memory
<1>13. ASSUME NEW e \in Drivers,
              PassStep(e) \/ BuildStep(e) \/ ConfirmTimeout(e) \/ DriverFault(e)
       PROVE  Goal
  <2> HIDE DEF Goal
  <2>1. CASE CommitCursor(e) \/ Reopen(e) \/ BuildNothing(e) \/ RefuseWitness(e)
    BY <1>1, <2>1 DEF CommitCursor, Reopen, BuildNothing, RefuseWitness
  <2> QED
    BY <1>3, <1>4, <1>5, <1>6, <1>7, <1>8, <1>13, <2>1 DEF PassStep, BuildStep
<1> HIDE DEF Goal
<1> QED
  BY <1>9, <1>10, <1>11, <1>12, <1>13 DEF Next

\* With one driver, what it has listed or built stays uncommitted until it commits it.
LEMMA UncommittedStep ==
    ASSUME Types, Types', Submitted, Named, Once, Fresh, Numbered, Uncommitted, [Next]_vars,
           \A d, e \in Drivers : d = e
    PROVE  Uncommitted'
<1> SUFFICES ASSUME NEW d \in Drivers, NEW i \in DOMAIN rows', rows'[i].status = "committed"
             PROVE  /\ driver'[d].pc = "build" =>
                          \A k \in DOMAIN driver'[d].pending : Key(rows'[i]) # Key(driver'[d].pending[k])
                    /\ driver'[d].pc = "mark" => Key(rows'[i]) \notin BatchKeys(driver'[d].batch)
                    /\ driver'[d].pc \in {"mark", "prove", "submit", "wait", "record", "commit"}
                          => rows'[i].batch # driver'[d].batch.id
  BY DEF Uncommitted
<1>0. rows \in Seq(DbRow) /\ DOMAIN rows = 1..Len(rows)
  BY DEF Types
<1>1. /\ i \in DOMAIN rows /\ Key(rows'[i]) = Key(rows[i]) /\ rows'[i].batch = rows[i].batch
      /\ rows[i].status = "committed" \/ \E e \in Drivers : CommitRows(e)
  BY NewlyCommitted
<1>2. CASE \E e \in Drivers : CommitRows(e)
  <2>1. CommitRows(d)
    BY <1>2
  <2>2. driver'[d].pc = "commitCursor"
    BY <2>1, GotoDriverEffect DEF CommitRows
  <2> QED
    BY <2>2
<1>3. CASE rows[i].status = "committed"
  <2>1. CASE driver'[d] = driver[d]
    BY <1>1, <1>3, <2>1 DEF Uncommitted
  <2>2. CASE ListDeposits(d)
    <3> DEFINE q == ListPending(rows, "deposit")
    <3>1. driver'[d].pc = "build" /\ driver'[d].pending = q
      BY <2>2, ListDepositsEffect
    <3>2. /\ q \in Seq(DbRow)
          /\ \A k \in 1..Len(q) : \E j \in 1..Len(rows) : q[k] = rows[j] /\ rows[j].status = "pending"
      BY <1>0, ListPendingRows
    <3> HIDE DEF q
    <3>3. ASSUME NEW k \in DOMAIN q PROVE Key(rows[i]) # Key(q[k])
      <4>1. PICK j \in DOMAIN rows : q[k] = rows[j] /\ rows[j].status = "pending"
        BY <1>0, <3>2, DOMAIN q = 1..Len(q)
      <4> QED
        BY <1>1, <1>3, <4>1, OneRow
    <3> QED
      BY <1>1, <3>1, <3>3
  <2>3. CASE BuildBatch(d)
    <3> DEFINE t == Transitions(d)
               p == driver[d].pending
    <3>1. driver[d].pc = "build" /\ CanBuild(d)
      BY <2>3 DEF BuildBatch
    <3>2. /\ t \in Seq(DbRow)
          /\ \A m \in 1..Len(t) : \/ \E k \in 1..Len(p) : t[m] = p[k]
                                  \/ \E k \in 1..Len(rows) : t[m] = rows[k] /\ rows[k].status = "pending"
      BY <3>1, TransitionsFrom
    <3>3. p \in Seq(DbRow)
      BY <3>1 DEF Types, DriverState, IdleDriver
    <3>4. /\ driver'[d].pc = "mark" /\ driver'[d].batch.ops = t
          /\ driver'[d].batch.id = batchSeq + 1
      BY <2>3, BuildBatchEffect
    <3> HIDE DEF t, p
    <3>5. ASSUME NEW m \in DOMAIN t PROVE Key(rows[i]) # Key(t[m])
      <4>1. \/ \E k \in DOMAIN p : t[m] = p[k]
            \/ \E k \in DOMAIN rows : t[m] = rows[k] /\ rows[k].status = "pending"
        BY <1>0, <3>2, <3>3, DOMAIN t = 1..Len(t), DOMAIN p = 1..Len(p)
      <4>2. ASSUME NEW k \in DOMAIN p, t[m] = p[k] PROVE Key(rows[i]) # Key(t[m])
        BY <1>1, <1>3, <3>1, <4>2 DEF Uncommitted, p
      <4>3. ASSUME NEW k \in DOMAIN rows, t[m] = rows[k], rows[k].status = "pending"
            PROVE  Key(rows[i]) # Key(t[m])
        BY <1>1, <1>3, <4>3, OneRow
      <4> QED
        BY <4>1, <4>2, <4>3
    <3>6. Key(rows[i]) \notin BatchKeys(driver'[d].batch)
      BY <3>4, <3>5 DEF BatchKeys
    <3>7. rows[i].batch # batchSeq + 1
      <4>1. rows[i].batch \in 0..batchSeq /\ batchSeq \in Nat
        BY <1>1 DEF Numbered, Types
      <4> QED
        BY <4>1
    <3> QED
      BY <1>1, <3>4, <3>6, <3>7
  <2>4. ASSUME driver'[d].batch = driver[d].batch,
               driver'[d].pc \notin {"build", "mark"},
               driver[d].pc \in {"mark", "prove", "submit", "wait", "record", "commit"}
        PROVE  rows'[i].batch # driver'[d].batch.id
    BY <1>1, <1>3, <2>4 DEF Uncommitted
  <2>5. /\ MarkBatchIncluded(d) => driver[d].pc = "mark"
        /\ Prove(d) => driver[d].pc = "prove"
        /\ Broadcast(d) => driver[d].pc = "submit"
        /\ Confirm(d) => driver[d].pc = "wait"
        /\ RecordResult(d) => driver[d].pc = "record"
    BY DEF MarkBatchIncluded, Prove, Broadcast, Confirm, RecordResult

  <2> QED
    BY <2>1, <2>2, <2>3, <2>4, <2>5, DriverMove
<1> QED
  BY <1>1, <1>2, <1>3

\* With one driver and no restart - and any number of handlers, failures, timeouts and
\* cancels - no reopen, cancel, rebuild or late failure takes a committed row back.
THEOREM FinalTheorem ==
    ASSUME \A d, e \in Drivers : d = e, MaxRestarts = 0
    PROVE  Spec => CommittedFinal
<1> DEFINE I == /\ Types /\ Submitted /\ Named /\ Fresh /\ Numbered /\ Once /\ Uncommitted
                /\ restarts = 0
<1>1. Init => I
  <2> SUFFICES ASSUME Init PROVE I
    OBVIOUS
  <2>1. Uncommitted
    BY DEF Init, Uncommitted
  <2> QED
    BY <2>1, InitTypes, InitRoots, InitRecorded, InitOnce
<1>2. I /\ [Next]_vars => I'
  <2> SUFFICES ASSUME I, [Next]_vars PROVE I'
    OBVIOUS
  <2>1. restarts' = restarts /\ restarts \in Nat
    BY SeqStep
  <2>2. Types' /\ Submitted' /\ Named'
    BY NextTypes, SubmittedKept, NamedKept
  <2> QED
    BY <2>1, <2>2, FreshStep, NumberedStep, OnceStep, UncommittedStep
<1>3. I /\ I' /\ [Next]_vars => [CommittedKeys \subseteq CommittedKeys']_rows
  <2> SUFFICES ASSUME I, I', [Next]_vars, NEW i \in DOMAIN rows, rows[i].status = "committed"
               PROVE  \E j \in DOMAIN rows' : /\ Key(rows'[j]) = Key(rows[i])
                                              /\ rows'[j].status = "committed"
    BY DEF CommittedKeys, RowsWith
  <2> QED
    BY CommittedRow
<1> QED
  BY <1>1, <1>2, <1>3, PTL DEF Spec, CommittedFinal

-----------------------------------------------------------------------------
(* Pending rows are not settled *)

\* What the chain has settled has a row.
SettledRecorded ==
    \A x \in DbRow : SettledIn(chain, x) => \E i \in DOMAIN rows : SameMark(rows[i], x)

\* After its rows are marked and until they are committed, a batch has its rows to
\* itself; only the driver that waits for it has a tx in the mempool.
Submitting == {"prove", "submit", "wait", "record", "commit"}

BatchHeld ==
    /\ \A d \in Drivers, i \in DOMAIN rows :
          driver[d].pc \in Submitting /\ Key(rows[i]) \in BatchKeys(driver[d].batch)
              => rows[i].status = "included" /\ rows[i].batch = driver[d].batch.id
    /\ \A k \in DOMAIN txs : txs[k].status = "mempool"
          => \E d \in Drivers : driver[d].pc = "wait" /\ driver[d].tx = k

\* A settled row is committed, or its driver has the acceptance and will commit it.
SettledHeld ==
    \A i \in DOMAIN rows : SettledIn(chain, rows[i]) =>
        \/ rows[i].status = "committed"
        \/ \E d \in Drivers : /\ driver[d].pc \in {"wait", "record", "commit"}
                              /\ txs[driver[d].tx].status = "accepted"
                              /\ rows[i].status = "included" /\ rows[i].batch = driver[d].batch.id

\* A failure is counted, and there is a bound on them.
LEMMA FaultsStep ==
    ASSUME [Next]_vars
    PROVE  faults' = faults \/ faults < MaxFaults
<1>1. ASSUME NEW h \in Handlers,
             \/ \E d \in Deposits : ReceiveDeposit(h, d)
             \/ \E a \in Accounts, amount \in WithdrawAmounts : ReceiveWithdraw(h, a, amount)
             \/ HandlerStep(h) \/ HandlerFault(h)
      PROVE  faults' = faults \/ faults < MaxFaults
  BY <1>1 DEF ReceiveDeposit, ReceiveWithdraw, HandlerStep, HandlerFault, HandlerInitCursor,
     ApplyOperation, RefuseOperation, SnapshotAfter, SaveOperation, CollideOnSave, ReadCursor,
     WritePendingRoot, SaveWithdrawRequest
<1>2. ASSUME NEW d \in Drivers,
             PassStep(d) \/ BuildStep(d) \/ ConfirmTimeout(d) \/ DriverFault(d)
      PROVE  faults' = faults \/ faults < MaxFaults
  BY <1>2 DEF PassStep, BuildStep, StartPass, DriverInitCursor, ListDeposits, Prove, ProverFails,
     GuardRefuses, VerifierRefuses, SubmitFails, Broadcast, Confirm, RecordResult, CommitCursor,
     BuildNothing, RefuseWitness, BuildBatch, ConfirmTimeout, DriverFault, MarkBatchIncluded,
     Decline, CommitRows, Reopen
<1>3. ASSUME \/ \E b \in 1..MaxBatches : CancelBatch(b)
             \/ \E i \in DOMAIN txs : Deliver(i)
             \/ Restart \/ RestartBlind
             \/ UNCHANGED vars
      PROVE  faults' = faults \/ faults < MaxFaults
  BY <1>3 DEF CancelBatch, Deliver, Restart, RestartBlind, vars
<1> QED
  BY <1>1, <1>2, <1>3 DEF Next

\* Only the delivery of a batch settles an operation, and it is one of the batch.
LEMMA NewlySettled ==
    ASSUME Types, [Next]_vars, NEW x \in DbRow, SettledIn(chain', x), ~SettledIn(chain, x)
    PROVE  \E k \in DOMAIN txs : /\ Deliver(k) /\ txs'[k].status = "accepted"
                                 /\ \E m \in DOMAIN txs[k].batch.ops : SameMark(txs[k].batch.ops[m], x)
<1>1. PICK k \in DOMAIN txs : Deliver(k)
  BY TxsStep
<1> DEFINE b == txs[k].batch
<1>2. /\ txs'[k].status = "accepted"
      /\ chain'.deposits = chain.deposits \cup BatchIds(b, "deposit")
      /\ chain'.nullifiers = chain.nullifiers \cup
            {b.ops[j].nullifier : j \in {m \in DOMAIN b.ops : b.ops[m].kind = "withdrawal"}}
  BY <1>1, DeliverEffect
<1>3. x.kind \in {"deposit", "withdrawal"}
  BY DEF DbRow, Row
<1> HIDE DEF b
<1>4. \E m \in DOMAIN b.ops : SameMark(b.ops[m], x)
  BY <1>2, <1>3 DEF SettledIn, BatchIds, SameMark
<1> QED
  BY <1>1, <1>2, <1>4 DEF b

\* Rows keep their place and their operation.
LEMMA RowKept ==
    ASSUME Types, Types', Named, Once, [Next]_vars, NEW i \in DOMAIN rows
    PROVE  i \in DOMAIN rows' /\ SameOp(rows[i], rows'[i])
<1>1. /\ rows \in Seq(DbRow) /\ rows' \in Seq(DbRow)
      /\ DOMAIN rows = 1..Len(rows) /\ DOMAIN rows' = 1..Len(rows')
  BY DEF Types
<1>2. ASSUME NEW h \in Handlers, SaveOperation(h) PROVE i \in DOMAIN rows' /\ SameOp(rows[i], rows'[i])
  <2> DEFINE x == handler[h].row
  <2>1. rows' = Append(rows, x)
    BY <1>2, SaveAppends
  <2>2. x \in DbRow
    BY <1>2 DEF SaveOperation, Types, HandlerState, IdleHandler
  <2> HIDE DEF x
  <2>3. i \in DOMAIN rows' /\ rows'[i] = rows[i]
    BY <1>1, <2>1, <2>2
  <2> QED
    BY <2>3 DEF SameOp
<1>3. ASSUME SameRows(rows, rows') PROVE i \in DOMAIN rows' /\ SameOp(rows[i], rows'[i])
  BY <1>1, <1>3 DEF SameRows, SameRow
<1> QED
  BY <1>2, <1>3, RowsStep

\* A new row is one that a handler saves.
LEMMA NewRowStep ==
    ASSUME Types, Types', Named, Once, [Next]_vars, NEW i \in DOMAIN rows', i \notin DOMAIN rows
    PROVE  \E h \in Handlers : SaveOperation(h) /\ rows'[i] = handler[h].row
BY RowMove

\* The operations of a submitted batch are operations of rows.
LEMMA OpHasRow ==
    ASSUME Types, Recorded, NEW k \in DOMAIN txs, NEW m \in DOMAIN txs[k].batch.ops
    PROVE  \E i \in DOMAIN rows : /\ Key(rows[i]) = Key(txs[k].batch.ops[m])
                                  /\ SameMark(rows[i], txs[k].batch.ops[m])
<1> DEFINE op == txs[k].batch.ops[m]
<1>1. PICK i \in DOMAIN rows : /\ Key(rows[i]) = Key(op)
                               /\ op.kind = "withdrawal" => rows[i].nullifier = op.nullifier
  BY DEF Recorded, AllRecorded, RecordedIn
<1>2. rows[i] \in DbRow
  BY DEF Types
<1>3. rows[i].kind \in {"deposit", "withdrawal"}
  BY <1>2 DEF DbRow, Row
<1> HIDE DEF op
<1>4. SameMark(rows[i], op)
  BY <1>1, <1>3 DEF Key, SameMark
<1> QED
  BY <1>1, <1>4 DEF op

\* The chain settles recorded operations only.
LEMMA SettledRecordedStep ==
    ASSUME Types, Types', Named, Recorded, Once, SettledRecorded, [Next]_vars
    PROVE  SettledRecorded'
<1> SUFFICES ASSUME NEW x \in DbRow, SettledIn(chain', x)
             PROVE  \E i \in DOMAIN rows' : SameMark(rows'[i], x)
  BY DEF SettledRecorded
<1>1. \E i \in DOMAIN rows : SameMark(rows[i], x)
  <2>1. CASE SettledIn(chain, x)
    BY <2>1 DEF SettledRecorded
  <2>2. CASE ~SettledIn(chain, x)
    <3>1. PICK k \in DOMAIN txs : \E m \in DOMAIN txs[k].batch.ops : SameMark(txs[k].batch.ops[m], x)
      BY <2>2, NewlySettled
    <3>2. PICK m \in DOMAIN txs[k].batch.ops : SameMark(txs[k].batch.ops[m], x)
      BY <3>1
    <3>3. PICK i \in DOMAIN rows : SameMark(rows[i], txs[k].batch.ops[m])
      BY OpHasRow
    <3> QED
      BY <3>2, <3>3 DEF SameMark
  <2> QED
    BY <2>1, <2>2
<1>2. PICK i \in DOMAIN rows : SameMark(rows[i], x)
  BY <1>1
<1> QED
  BY <1>2, RowKept, SameMarks DEF SameMark, SameOp

\* The hypotheses of this section: one driver, no failure, no cancel and no restart.
Undisturbed ==
    /\ \A d, e \in Drivers : d = e
    /\ MaxFaults = 0 /\ MaxRestarts = 0 /\ ~OperatorCancels
    /\ faults = 0 /\ restarts = 0

\* Nothing disturbs them.
LEMMA UndisturbedStep ==
    ASSUME Undisturbed, [Next]_vars
    PROVE  /\ Undisturbed' /\ restarts' = restarts /\ restarts \in Nat
           /\ ~Restart /\ ~RestartBlind /\ \A b \in 1..MaxBatches : ~CancelBatch(b)
<1>1. restarts' = restarts /\ restarts \in Nat /\ faults' = faults
  BY SeqStep, FaultsStep DEF Undisturbed
<1> QED
  BY <1>1 DEF Undisturbed, Restart, RestartBlind, CancelBatch

\* A driver keeps the rows of its batch until it commits or reopens them.
LEMMA BatchHeldStep ==
    ASSUME Types, Types', Submitted, Named, Recorded, Once, BatchHeld, Undisturbed, [Next]_vars
    PROVE  BatchHeld'
<1>0. /\ \A d, e \in Drivers : d = e
      /\ ~Restart /\ ~RestartBlind /\ ~(faults < MaxFaults)
      /\ \A b \in 1..MaxBatches : ~CancelBatch(b)
  BY UndisturbedStep DEF Undisturbed
<1>1. ASSUME NEW d \in Drivers, NEW i \in DOMAIN rows', driver'[d].pc \in Submitting,
             Key(rows'[i]) \in BatchKeys(driver'[d].batch)
      PROVE  rows'[i].status = "included" /\ rows'[i].batch = driver'[d].batch.id
  <2>1. CASE MarkBatchIncluded(d)
    <3> DEFINE b == driver[d].batch.id
               keys == BatchKeys(driver[d].batch)
               q == MarkIncluded(rows, b, keys)
    <3>1. /\ rows' = q /\ rows \in Seq(DbRow) /\ b \in Nat
          /\ driver'[d].batch = driver[d].batch
      BY <2>1, GotoDriverEffect DEF MarkBatchIncluded, Types, DriverState, IdleDriver, Batch
    <3>2. i \in DOMAIN rows
      BY <3>1 DEF MarkIncluded
    <3> HIDE DEF b, keys, q
    <3>3. \/ q[i] = rows[i] /\ Key(rows[i]) \notin keys
          \/ /\ Key(rows[i]) \in keys /\ SameRow(rows[i], q[i])
             /\ q[i].status = "included" /\ q[i].batch = b
      BY <3>1, <3>2, MarkIncludedRow DEF q
    <3> QED
      BY <1>1, <3>1, <3>3 DEF b, keys
  <2>2. CASE driver[d].pc \in Submitting /\ driver'[d].batch = driver[d].batch
    <3>1. CASE i \in DOMAIN rows /\ rows'[i] = rows[i]
      BY <1>1, <2>2, <3>1 DEF BatchHeld
    <3>2. ASSUME NEW h \in Handlers, SaveOperation(h), rows'[i] = handler[h].row PROVE FALSE
      <4>1. Key(handler[h].row) \notin Keys(rows)
        BY <3>2, SaveAppends
      <4>2. PICK m \in DOMAIN driver[d].batch.ops : Key(rows'[i]) = Key(driver[d].batch.ops[m])
        BY <1>1, <2>2 DEF BatchKeys
      <4>3. RecordedIn(rows, driver[d].batch.ops[m])
        BY DEF Recorded, AllRecorded
      <4> QED
        BY <3>2, <4>1, <4>2, <4>3 DEF RecordedIn, Keys
    <3>3. ~MarkBatchIncluded(d) /\ ~Reopen(d)
      BY <2>2 DEF MarkBatchIncluded, Reopen, Submitting
    <3>4. ~Decline(d) /\ ~CommitRows(d)
      <4>1. Decline(d) => driver'[d].pc = "reopen"
        BY GotoDriverEffect DEF Decline
      <4>2. CommitRows(d) => driver'[d].pc = "commitCursor"
        BY GotoDriverEffect DEF CommitRows
      <4> QED
        BY <1>1, <4>1, <4>2 DEF Submitting
    <3> QED
      BY <1>0, <3>1, <3>2, <3>3, <3>4, RowMove
  <2>3. /\ Prove(d) => driver[d].pc = "prove"
        /\ Broadcast(d) => driver[d].pc = "submit"
        /\ Confirm(d) => driver[d].pc = "wait"
        /\ RecordResult(d) => driver[d].pc = "record"
    BY DEF Prove, Broadcast, Confirm, RecordResult
  <2> QED
    BY <1>1, <2>1, <2>2, <2>3, DriverMove DEF Submitting
<1>2. ASSUME NEW k \in DOMAIN txs', txs'[k].status = "mempool"
      PROVE  \E d \in Drivers : driver'[d].pc = "wait" /\ driver'[d].tx = k
  <2>1. ASSUME k \in DOMAIN txs, txs[k].status = "mempool", \A d \in Drivers : ~Broadcast(d)
        PROVE  \E d \in Drivers : driver'[d].pc = "wait" /\ driver'[d].tx = k
    <3>1. PICK d \in Drivers : driver[d].pc = "wait" /\ driver[d].tx = k
      BY <2>1 DEF BatchHeld
    <3>2. driver'[d] = driver[d]
      <4>1. /\ ~StartPass(d) /\ ~ListDeposits(d) /\ ~BuildBatch(d) /\ ~DriverInitCursor(d)
            /\ ~MarkBatchIncluded(d) /\ ~Prove(d) /\ ~RecordResult(d) /\ ~CommitRows(d)
            /\ ~Broadcast(d)
        BY <3>1 DEF StartPass, ListDeposits, BuildBatch, DriverInitCursor, MarkBatchIncluded,
           Prove, RecordResult, CommitRows, Broadcast
      <4> QED
        BY <1>0, <2>1, <3>1, <4>1, DriverMove
    <3> QED
      BY <3>1, <3>2
  <2>2. ASSUME NEW d \in Drivers, Broadcast(d),
               txs' = Append(txs, [batch |-> driver[d].batch, status |-> "mempool"])
        PROVE  \E e \in Drivers : driver'[e].pc = "wait" /\ driver'[e].tx = k
    <3>1. driver'[d].pc = "wait" /\ driver'[d].tx = Len(txs) + 1 /\ driver[d].pc = "submit"
      BY <2>2 DEF Broadcast, Types, DriverState, IdleDriver
    <3>2. k = Len(txs) + 1 \/ (k \in DOMAIN txs /\ txs'[k] = txs[k])
      <4> DEFINE x == [batch |-> driver[d].batch, status |-> "mempool"]
      <4>1. txs \in Seq(Tx) /\ txs' \in Seq(Tx)
        BY DEF Types
      <4> HIDE DEF x
      <4>2. txs' = Append(txs, x)
        BY <2>2 DEF x
      <4> QED
        BY <1>2, <4>1, <4>2
    <3>3. CASE k \in DOMAIN txs /\ txs'[k] = txs[k]
      BY <1>0, <1>2, <3>1, <3>3 DEF BatchHeld
    <3> QED
      BY <3>1, <3>2, <3>3
  <2>3. ASSUME NEW j \in DOMAIN txs, Deliver(j)
        PROVE  \E e \in Drivers : driver'[e].pc = "wait" /\ driver'[e].tx = k
    <3>1. driver' = driver /\ txs' # txs
      BY <2>3, DeliverEffect DEF Deliver, memory
    <3>2. k \in DOMAIN txs /\ k # j /\ txs'[k] = txs[k]
      BY <1>2, <2>3, DeliverEffect
    <3> QED
      BY <1>2, <3>1, <3>2 DEF BatchHeld
  <2>4. ASSUME UNCHANGED txs, NEW d \in Drivers, Broadcast(d) PROVE FALSE
    <3> DEFINE x == [batch |-> driver[d].batch, status |-> "mempool"]
    <3>1. txs \in Seq(Tx) /\ txs' = Append(txs, x)
      BY <2>4 DEF Broadcast, Types
    <3> HIDE DEF x
    <3>2. Len(txs') = Len(txs) + 1 /\ Len(txs) \in Nat
      BY <3>1
    <3> QED
      BY <2>4, <3>2
  <2> QED
    BY <1>2, <2>1, <2>2, <2>3, <2>4, TxsStep
<1> QED
  BY <1>1, <1>2 DEF BatchHeld

\* An accepted tx stays accepted.
LEMMA AcceptedKept ==
    ASSUME Types, Types', [Next]_vars, NEW k \in DOMAIN txs, txs[k].status = "accepted"
    PROVE  k \in DOMAIN txs' /\ txs'[k].status = "accepted"
<1>1. ASSUME NEW d \in Drivers,
             txs' = Append(txs, [batch |-> driver[d].batch, status |-> "mempool"])
      PROVE  k \in DOMAIN txs' /\ txs'[k] = txs[k]
  <2> DEFINE x == [batch |-> driver[d].batch, status |-> "mempool"]
  <2>1. txs \in Seq(Tx) /\ txs' \in Seq(Tx)
    BY DEF Types
  <2> HIDE DEF x
  <2>2. txs' = Append(txs, x)
    BY <1>1 DEF x
  <2> QED
    BY <2>1, <2>2
<1>2. ASSUME NEW i \in DOMAIN txs, Deliver(i) PROVE k \in DOMAIN txs' /\ txs'[k] = txs[k]
  BY <1>2, DeliverEffect
<1> QED
  BY <1>1, <1>2, TxsStep

\* A settled row is committed before its driver lets go of it.
LEMMA SettledHeldStep ==
    ASSUME Types, Types', Submitted, Named, Recorded, Once, Uncommitted, SettledRecorded,
           BatchHeld, SettledHeld, Undisturbed, [Next]_vars
    PROVE  SettledHeld'
<1> SUFFICES ASSUME NEW i \in DOMAIN rows', SettledIn(chain', rows'[i])
             PROVE  \/ rows'[i].status = "committed"
                    \/ \E d \in Drivers : /\ driver'[d].pc \in {"wait", "record", "commit"}
                                          /\ txs'[driver'[d].tx].status = "accepted"
                                          /\ rows'[i].status = "included"
                                          /\ rows'[i].batch = driver'[d].batch.id
  BY DEF SettledHeld
<1>0. /\ \A d, e \in Drivers : d = e
      /\ ~Restart /\ ~RestartBlind /\ ~(faults < MaxFaults)
      /\ \A b \in 1..MaxBatches : ~CancelBatch(b)
  BY UndisturbedStep DEF Undisturbed
<1>1. i \in DOMAIN rows
  <2> SUFFICES ASSUME i \notin DOMAIN rows PROVE FALSE
    OBVIOUS
  <2>1. PICK h \in Handlers : SaveOperation(h) /\ rows'[i] = handler[h].row
    BY NewRowStep
  <2>2. h \in Unsaved /\ chain' = chain /\ handler[h].row \in DbRow
    BY <2>1 DEF SaveOperation, Unsaved, Types, HandlerState, IdleHandler
  <2>3. PICK j \in DOMAIN rows : SameMark(rows[j], handler[h].row)
    BY <2>1, <2>2 DEF SettledRecorded
  <2> QED
    BY <2>2, <2>3 DEF Once
<1>2. SameOp(rows[i], rows'[i]) /\ rows[i] \in DbRow
  BY <1>1, RowKept DEF Types
<1>3. SettledIn(chain', rows[i])
  BY <1>2 DEF SettledIn, SameOp
<1>4. CASE SettledIn(chain, rows[i]) /\ rows[i].status = "committed"
  BY <1>1, <1>4, CommittedRow
<1>5. ASSUME NEW d \in Drivers, driver[d].pc \in {"wait", "record", "commit"},
             txs[driver[d].tx].status = "accepted",
             rows[i].status = "included", rows[i].batch = driver[d].batch.id
      PROVE  \/ rows'[i].status = "committed"
             \/ /\ driver'[d].pc \in {"wait", "record", "commit"}
                /\ txs'[driver'[d].tx].status = "accepted"
                /\ rows'[i].status = "included"
                /\ rows'[i].batch = driver'[d].batch.id
  <2>1. CASE CommitRows(d)
    <3> DEFINE b == driver[d].batch.id
               q == MarkByBatch(rows, b, "committed")
    <3>1. rows' = q /\ b \in Nat /\ rows \in Seq(DbRow) /\ "committed" \in Status
      BY <2>1 DEF CommitRows, Types, DriverState, IdleDriver, Batch, Status
    <3> HIDE DEF b, q
    <3>2. q[i].status = "committed"
      BY <1>1, <1>5, <3>1, MarkByBatchRow DEF q, b
    <3> QED
      BY <3>1, <3>2
  <2>2. CASE ~CommitRows(d)
    <3>1. /\ ~StartPass(d) /\ ~ListDeposits(d) /\ ~BuildBatch(d) /\ ~DriverInitCursor(d)
          /\ ~MarkBatchIncluded(d) /\ ~Prove(d) /\ ~Broadcast(d) /\ ~Decline(d) /\ ~Reopen(d)
      BY <1>5 DEF StartPass, ListDeposits, BuildBatch, DriverInitCursor, MarkBatchIncluded,
         Prove, Broadcast, Decline, Reopen
    <3>2. /\ driver'[d].pc \in {"wait", "record", "commit"}
          /\ driver'[d].tx = driver[d].tx /\ driver'[d].batch = driver[d].batch
      BY <1>0, <1>5, <2>2, <3>1, DriverMove
    <3>3. driver[d].tx \in DOMAIN txs
      BY <1>5 DEF Submitted
    <3>4. txs'[driver[d].tx].status = "accepted"
      BY <1>5, <3>3, AcceptedKept
    <3>5. ASSUME NEW h \in Handlers, SaveOperation(h), rows'[i] = handler[h].row PROVE FALSE
      <4>1. Key(handler[h].row) \notin Keys(rows)
        BY <3>5, SaveAppends
      <4>2. Key(rows[i]) = Key(handler[h].row)
        BY <1>2, <3>5 DEF Key, SameOp
      <4> QED
        BY <1>1, <4>1, <4>2 DEF Keys
    <3>6. rows'[i] = rows[i]
      BY <1>0, <2>2, <3>1, <3>5, RowMove
    <3> QED
      BY <1>5, <3>2, <3>4, <3>6
  <2> QED
    BY <2>1, <2>2
<1>6. CASE ~SettledIn(chain, rows[i])
  <2>1. PICK k \in DOMAIN txs : /\ Deliver(k) /\ txs'[k].status = "accepted"
                                /\ \E m \in DOMAIN txs[k].batch.ops :
                                      SameMark(txs[k].batch.ops[m], rows[i])
    BY <1>2, <1>3, <1>6, NewlySettled
  <2>2. PICK m \in DOMAIN txs[k].batch.ops : SameMark(txs[k].batch.ops[m], rows[i])
    BY <2>1
  <2>3. PICK r \in DOMAIN rows : /\ Key(rows[r]) = Key(txs[k].batch.ops[m])
                                 /\ SameMark(rows[r], txs[k].batch.ops[m])
    BY OpHasRow
  <2>4. r = i
    BY <1>1, <2>2, <2>3 DEF SameMark, Once
  <2>5. txs[k].status = "mempool" /\ driver' = driver /\ rows' = rows
    BY <2>1, DeliverEffect DEF Deliver, memory, database
  <2>6. PICK d \in Drivers : driver[d].pc = "wait" /\ driver[d].tx = k
    BY <2>5 DEF BatchHeld
  <2>7. txs[k].batch = driver[d].batch
    BY <2>6 DEF Submitted
  <2>8. Key(rows[i]) \in BatchKeys(driver[d].batch)
    BY <2>3, <2>4, <2>7 DEF BatchKeys
  <2>9. rows[i].status = "included" /\ rows[i].batch = driver[d].batch.id
    BY <1>1, <2>6, <2>8 DEF BatchHeld, Submitting
  <2> QED
    BY <2>1, <2>5, <2>6, <2>9
<1> QED
  BY <1>1, <1>4, <1>5, <1>6 DEF SettledHeld

\* With one driver and no failure, cancel or restart - and any number of handlers,
\* refused proofs, declines and rejected submissions - a row that is in the queue is
\* not one the chain has settled, so a retry never repeats what was done.
THEOREM ReopenedTheorem ==
    ASSUME \A d, e \in Drivers : d = e, MaxFaults = 0, MaxRestarts = 0, ~OperatorCancels
    PROVE  Spec => []ReopenedNotSettled
<1> DEFINE I == /\ Types /\ Submitted /\ Named /\ Recorded /\ Fresh /\ Numbered /\ Once
                /\ Uncommitted /\ SettledRecorded /\ BatchHeld /\ SettledHeld /\ Undisturbed
<1>1. Init => I
  <2> SUFFICES ASSUME Init PROVE I
    OBVIOUS
  <2>1. rows = <<>> /\ txs = <<>> /\ chain.deposits = {} /\ chain.nullifiers = {}
    BY DEF Init
  <2>2. Uncommitted /\ SettledHeld /\ BatchHeld
    BY <2>1 DEF Uncommitted, SettledHeld, BatchHeld
  <2>3. SettledRecorded
    BY <2>1 DEF SettledRecorded, SettledIn
  <2>4. Undisturbed
    BY DEF Init, Undisturbed
  <2> QED
    BY <2>2, <2>3, <2>4, InitTypes, InitRoots, InitRecorded, InitOnce
<1>2. I /\ [Next]_vars => I'
  <2> SUFFICES ASSUME I, [Next]_vars PROVE I'
    OBVIOUS
  <2>1. Undisturbed' /\ restarts' = restarts /\ restarts \in Nat
    BY UndisturbedStep
  <2>2. Types' /\ Submitted' /\ Named' /\ Recorded'
    BY NextTypes, SubmittedKept, NamedKept, RecordedStep
  <2>3. Fresh' /\ Numbered' /\ Once'
    BY <2>1, <2>2, FreshStep, NumberedStep, OnceStep
  <2>4. Uncommitted'
    BY <2>2, UncommittedStep DEF Undisturbed
  <2> QED
    BY <2>1, <2>2, <2>3, <2>4, SettledRecordedStep, BatchHeldStep, SettledHeldStep
<1>3. I => ReopenedNotSettled
  <2> SUFFICES ASSUME SettledHeld, NEW i \in DOMAIN rows, rows[i].status = "pending",
                      SettledIn(chain, rows[i])
               PROVE  FALSE
    BY DEF ReopenedNotSettled, RowsWith, SettledOn, SettledIn
  <2> QED
    BY DEF SettledHeld
<1> QED
  BY <1>1, <1>2, <1>3, PTL DEF Spec

-----------------------------------------------------------------------------
(* The pending root *)

\* The hypotheses of this section: one handler, no failure and no restart.
Orderly ==
    /\ \A g, h \in Handlers : g = h
    /\ MaxFaults = 0 /\ MaxRestarts = 0 /\ faults = 0 /\ restarts = 0

\* They stay.
LEMMA OrderlyStep ==
    ASSUME Orderly, [Next]_vars
    PROVE  /\ Orderly' /\ restarts' = restarts /\ restarts \in Nat
           /\ ~Restart /\ ~RestartBlind /\ ~(faults < MaxFaults)
<1>1. restarts' = restarts /\ restarts \in Nat /\ faults' = faults
  BY SeqStep, FaultsStep DEF Orderly
<1> QED
  BY <1>1 DEF Orderly, Restart, RestartBlind

\* What the "after" snapshot fills in.
LEMMA SnapshotAfterEffect ==
    ASSUME Types, NEW h \in Handlers, SnapshotAfter(h)
    PROVE  /\ handler'[h].pc = "save" /\ handler'[h].pendingRoot = ls.root
           /\ handler'[h].row = [handler[h].row EXCEPT
                                    !.balanceAfter = ls.accounts[handler[h].row.acct].balance]
<1>1. handler[h] \in [pc : HandlerPC \ {"idle"}, row : DbRow, pendingRoot : Root,
                      seen : Cursor \cup {NoCursor}]
  BY DEF SnapshotAfter, Types, HandlerState, IdleHandler
<1> DEFINE bal == ls.accounts[handler[h].row.acct].balance
           root == ls.root
<1>2. handler' = [handler EXCEPT ![h].pc = "save", ![h].row.balanceAfter = bal,
                                 ![h].pendingRoot = root]
  BY DEF SnapshotAfter
<1> HIDE DEF bal, root
<1>3. /\ handler'[h].pc = "save" /\ handler'[h].pendingRoot = root
      /\ handler'[h].row = [handler[h].row EXCEPT !.balanceAfter = bal]
  BY <1>1, <1>2 DEF Types
<1> QED
  BY <1>3 DEF bal, root

\* A request ends when it is refused or done, never between the operation and its row.
LEMMA HandlerEnds ==
    ASSUME Types, Once, Orderly, [Next]_vars, NEW h \in Handlers,
           handler[h].pc # "idle", handler'[h].pc = "idle"
    PROVE  RefuseOperation(h) \/ WritePendingRoot(h) \/ SaveWithdrawRequest(h)
<1> DEFINE Goal == RefuseOperation(h) \/ WritePendingRoot(h) \/ SaveWithdrawRequest(h)
<1>0. /\ \A g \in Handlers : g = h
      /\ ~Restart /\ ~RestartBlind /\ ~(faults < MaxFaults)
  BY OrderlyStep DEF Orderly
<1>1. ASSUME NEW g \in Handlers,
             \/ \E d \in Deposits : ReceiveDeposit(g, d)
             \/ \E a \in Accounts, amount \in WithdrawAmounts : ReceiveWithdraw(g, a, amount)
      PROVE  FALSE
  BY <1>0, <1>1, ReceiveEffect
<1>2. ASSUME NEW pc, GotoHandler(h, pc), pc # "idle" PROVE FALSE
  BY <1>2, GotoHandlerEffect
<1>3. ~(ApplyOperation(h) \/ SnapshotAfter(h))
  BY SnapshotEffect
<1>4. ~ReadCursor(h)
  BY DEF ReadCursor, Types, HandlerState, IdleHandler
<1>5. ~CollideOnSave(h)
  <2> SUFFICES ASSUME handler[h].pc = "save", NullifierTaken(rows, handler[h].row) PROVE FALSE
    BY DEF CollideOnSave
  <2>1. PICK i \in DOMAIN rows : /\ rows[i].kind = "withdrawal"
                                 /\ rows[i].nullifier = handler[h].row.nullifier
                                 /\ handler[h].row.kind = "withdrawal"
    BY DEF NullifierTaken
  <2>2. h \in Unsaved
    BY DEF Unsaved
  <2> QED
    BY <2>1, <2>2 DEF Once, SameMark
<1>6. ~HandlerFault(h)
  BY <1>0 DEF HandlerFault
<1>7. ~HandlerInitCursor(h) /\ ~SaveOperation(h)
  BY <1>2 DEF HandlerInitCursor, SaveOperation
<1>8. ASSUME NEW g \in Handlers, HandlerStep(g) \/ HandlerFault(g) PROVE Goal
  BY <1>0, <1>3, <1>4, <1>5, <1>6, <1>7, <1>8 DEF HandlerStep
<1>9. ASSUME NEW d \in Drivers,
             PassStep(d) \/ BuildStep(d) \/ ConfirmTimeout(d) \/ DriverFault(d)
      PROVE  UNCHANGED handler
  BY <1>9 DEF PassStep, BuildStep, StartPass, DriverInitCursor, ListDeposits, Prove, ProverFails,
     GuardRefuses, VerifierRefuses, SubmitFails, Broadcast, Confirm, RecordResult, CommitCursor,
     BuildNothing, RefuseWitness, BuildBatch, ConfirmTimeout, DriverFault, MarkBatchIncluded,
     Decline, CommitRows, Reopen
<1>10. ASSUME \/ \E b \in 1..MaxBatches : CancelBatch(b)
              \/ \E i \in DOMAIN txs : Deliver(i)
              \/ UNCHANGED vars
       PROVE  UNCHANGED handler
  BY <1>10 DEF CancelBatch, Deliver, vars, memory
<1> HIDE DEF Goal
<1> QED
  BY <1>0, <1>1, <1>8, <1>9, <1>10 DEF Next, Goal

\* Who writes the cursor row.
LEMMA CursorStep ==
    ASSUME [Next]_vars
    PROVE  \/ UNCHANGED cursor
           \/ \E h \in Handlers : HandlerInitCursor(h) \/ WritePendingRoot(h)
           \/ \E d \in Drivers : DriverInitCursor(d) \/ CommitCursor(d)
<1>1. ASSUME NEW d \in Drivers,
             PassStep(d) \/ BuildStep(d) \/ ConfirmTimeout(d) \/ DriverFault(d)
      PROVE  UNCHANGED cursor \/ DriverInitCursor(d) \/ CommitCursor(d)
  BY <1>1 DEF PassStep, BuildStep, StartPass, ListDeposits, Prove, ProverFails,
     GuardRefuses, VerifierRefuses, SubmitFails, Broadcast, Confirm, RecordResult,
     BuildNothing, RefuseWitness, BuildBatch, ConfirmTimeout, DriverFault, MarkBatchIncluded,
     Decline, CommitRows, Reopen, database
<1>2. ASSUME NEW h \in Handlers,
             \/ \E d \in Deposits : ReceiveDeposit(h, d)
             \/ \E a \in Accounts, amount \in WithdrawAmounts : ReceiveWithdraw(h, a, amount)
             \/ HandlerStep(h) \/ HandlerFault(h)
      PROVE  UNCHANGED cursor \/ HandlerInitCursor(h) \/ WritePendingRoot(h)
  BY <1>2 DEF ReceiveDeposit, ReceiveWithdraw, HandlerStep, HandlerFault, ApplyOperation,
     RefuseOperation, SnapshotAfter, SaveOperation, CollideOnSave, ReadCursor,
     SaveWithdrawRequest, database
<1>3. ASSUME \/ \E b \in 1..MaxBatches : CancelBatch(b)
             \/ \E i \in DOMAIN txs : Deliver(i)
             \/ Restart \/ RestartBlind \/ UNCHANGED vars
      PROVE  UNCHANGED cursor
  BY <1>3 DEF CancelBatch, Deliver, Restart, RestartBlind, vars, database
<1> QED
  BY <1>1, <1>2, <1>3 DEF Next

\* Between its operation and its write of the cursor a handler is about to make the
\* pending root the manager's; the cursor a driver is about to create is initial.
Recording == {"snapshot", "save", "readCursor", "writeCursor"}

CursorKnown ==
    /\ \A h \in Handlers : handler[h].pc \in Recording \ {"snapshot"}
                             => handler[h].pendingRoot = ls.root
    /\ cursor \in Cursor => \/ cursor.pending \in {ls.root, cursor.committed}
                            \/ \E h \in Handlers : handler[h].pc \in Recording
    /\ \A d \in Drivers : driver[d].pc = "initCursor"
                            => driver[d].seen.pending = driver[d].seen.committed

\* The cursor stays known: every write of the row puts one of the two roots there, and
\* the manager does not move while a handler holds the root it read.
LEMMA CursorKnownStep ==
    ASSUME Types, Types', Submitted, Once, CursorKnown, Orderly, [Next]_vars
    PROVE  CursorKnown'
<1>0. /\ \A g, h \in Handlers : g = h
      /\ ~Restart /\ ~RestartBlind
  BY OrderlyStep DEF Orderly
<1>1. ASSUME NEW h \in Handlers, ApplyOperation(h) PROVE handler'[h].pc = "snapshot"
  BY <1>1 DEF ApplyOperation, Types, HandlerState, IdleHandler
<1>2. UNCHANGED ls \/ \E h \in Handlers : ApplyOperation(h) /\ handler'[h].pc = "snapshot"
  BY <1>0, <1>1, ManagerStep
<1>3. ASSUME NEW h \in Handlers, handler'[h].pc \in Recording \ {"snapshot"}
      PROVE  handler'[h].pendingRoot = ls'.root
  <2>1. UNCHANGED ls
    BY <1>0, <1>2, <1>3
  <2>2. CASE handler'[h] = handler[h]
    BY <1>3, <2>1, <2>2 DEF CursorKnown
  <2>3. CASE SnapshotAfter(h)
    <3>1. handler'[h].pendingRoot = ls.root
      BY <2>3, SnapshotAfterEffect
    <3> QED
      BY <2>1, <3>1
  <2>4. CASE SaveOperation(h) \/ ReadCursor(h)
    <3>1. handler'[h].pendingRoot = handler[h].pendingRoot /\ handler[h].pc \in Recording \ {"snapshot"}
      BY <2>4, GotoHandlerEffect
         DEF SaveOperation, ReadCursor, Types, HandlerState, IdleHandler, Recording
    <3> QED
      BY <2>1, <3>1 DEF CursorKnown
  <2> QED
    BY <1>3, <2>2, <2>3, <2>4, HandlerMove DEF Recording
<1>4. ASSUME NEW h \in Handlers, WritePendingRoot(h) PROVE cursor'.pending = ls'.root
  <2>1. handler[h].pc = "writeCursor" /\ handler[h].seen \in Cursor
    BY <1>4 DEF WritePendingRoot, Types
  <2>2. cursor'.pending = handler[h].pendingRoot
    BY <1>4, <2>1 DEF WritePendingRoot, Cursor
  <2>3. handler[h].pendingRoot = ls.root /\ UNCHANGED ls
    BY <1>4, <2>1 DEF CursorKnown, Recording, WritePendingRoot
  <2> QED
    BY <2>2, <2>3
<1>5. ASSUME NEW h \in Handlers, handler[h].pc \in Recording, ~WritePendingRoot(h)
      PROVE  handler'[h].pc \in Recording
  <2>1. handler'[h].pc # "idle"
    BY <1>5, HandlerEnds DEF Recording, RefuseOperation, SaveWithdrawRequest
  <2> QED
    BY <1>5, <2>1, HandlerMove DEF Recording, HandlerInitCursor
<1>6. ASSUME cursor' \in Cursor
      PROVE  \/ cursor'.pending \in {ls'.root, cursor'.committed}
             \/ \E h \in Handlers : handler'[h].pc \in Recording
  <2>1. CASE \E h \in Handlers : WritePendingRoot(h)
    BY <1>4, <2>1
  <2>2. CASE UNCHANGED cursor /\ ~\E h \in Handlers : WritePendingRoot(h)
    BY <1>2, <1>5, <1>6, <2>2 DEF CursorKnown, Recording
  <2>3. CASE \E h \in Handlers : HandlerInitCursor(h)
    BY <2>3 DEF HandlerInitCursor, InitialCursor
  <2>4. CASE \E d \in Drivers : DriverInitCursor(d)
    BY <2>4 DEF DriverInitCursor, CursorKnown
  <2>5. CASE \E d \in Drivers : CommitCursor(d)
    BY <2>5 DEF CommitCursor
  <2> QED
    BY <2>1, <2>2, <2>3, <2>4, <2>5, CursorStep
<1>7. ASSUME NEW d \in Drivers, driver'[d].pc = "initCursor"
      PROVE  driver'[d].seen.pending = driver'[d].seen.committed
  <2>1. CASE driver'[d] = driver[d]
    BY <1>7, <2>1 DEF CursorKnown
  <2>2. CASE StartPass(d)
    <3>1. cursor = NoCursor
      BY <1>7, <2>2, StartPassEffect
    <3>2. driver'[d].seen = InitialCursor(ls.root)
      BY <2>2, <3>1, StartPassEffect
    <3> QED
      BY <3>2 DEF InitialCursor
  <2> QED
    BY <1>7, <2>1, <2>2, DriverMove
<1> QED
  BY <1>3, <1>6, <1>7 DEF CursorKnown

\* With one handler and no failure or restart - and any number of drivers, cancels,
\* declines and rejected submissions - the pending root at rest is the manager's root
\* or the committed one, however the handler's read and write of the cursor row fall
\* around the commits.
THEOREM PendingRootTheorem ==
    ASSUME \A g, h \in Handlers : g = h, MaxFaults = 0, MaxRestarts = 0
    PROVE  Spec => []PendingRootKnown
<1> DEFINE I == Types /\ Submitted /\ Named /\ Once /\ CursorKnown /\ Orderly
<1>1. Init => I
  <2> SUFFICES ASSUME Init PROVE I
    OBVIOUS
  <2>1. CursorKnown
    BY NoCursorAssumption DEF Init, CursorKnown, Recording, IdleHandler, IdleDriver
  <2>2. Orderly
    BY DEF Init, Orderly
  <2> QED
    BY <2>1, <2>2, InitTypes, InitRoots, InitRecorded, InitOnce
<1>2. I /\ [Next]_vars => I'
  <2> SUFFICES ASSUME I, [Next]_vars PROVE I'
    OBVIOUS
  <2>1. Orderly' /\ restarts' = restarts /\ restarts \in Nat
    BY OrderlyStep
  <2>2. Types' /\ Submitted' /\ Named'
    BY NextTypes, SubmittedKept, NamedKept
  <2>3. Once'
    BY <2>1, <2>2, OnceStep
  <2> QED
    BY <2>1, <2>2, <2>3, CursorKnownStep
<1>3. I => PendingRootKnown
  <2> SUFFICES ASSUME Types, CursorKnown, AtRest, cursor # NoCursor
               PROVE  cursor.pending \in {ls.root, cursor.committed}
    BY DEF PendingRootKnown
  <2> QED
    BY DEF CursorKnown, AtRest, Recording, Types
<1> QED
  BY <1>1, <1>2, <1>3, PTL DEF Spec

-----------------------------------------------------------------------------
(* The order of the rows *)

\* The accounts B come after the accounts A: every operation moves the nonce of an
\* account up, or its balance up with the same nonce.
Precedes(A, B) ==
    /\ A # B
    /\ \A a \in Accounts : \/ A[a].nonce < B[a].nonce
                           \/ A[a].nonce = B[a].nonce /\ A[a].balance <= B[a].balance

\* It is an order.
LEMMA PrecedesTransitive ==
    ASSUME NEW A \in Accounting, NEW B \in Accounting, NEW C \in Accounting,
           Precedes(A, B), Precedes(B, C)
    PROVE  Precedes(A, C)
<1>1. \A a \in Accounts : /\ A[a].nonce \in Nat /\ B[a].nonce \in Nat /\ C[a].nonce \in Nat
                          /\ A[a].balance \in Nat /\ B[a].balance \in Nat /\ C[a].balance \in Nat
  BY DEF Accounting, Account
<1>2. \A a \in Accounts : \/ A[a].nonce < C[a].nonce
                          \/ A[a].nonce = C[a].nonce /\ A[a].balance <= C[a].balance
  BY <1>1 DEF Precedes
<1>3. ASSUME A = C PROVE FALSE
  <2>1. ASSUME NEW a \in Accounts PROVE A[a] = B[a]
    <3>1. A[a].nonce = B[a].nonce /\ A[a].balance = B[a].balance
      BY <1>1, <1>3 DEF Precedes
    <3>2. A[a] \in Account /\ B[a] \in Account
      BY DEF Accounting
    <3> QED
      BY <3>1, <3>2 DEF Account
  <2>2. A = B
    BY <2>1 DEF Accounting
  <2> QED
    BY <2>2 DEF Precedes
<1> QED
  BY <1>2, <1>3 DEF Precedes

\* An operation moves the accounts on.
LEMMA SettlePrecedes ==
    ASSUME NEW A \in Accounting, NEW r \in DbRow, r.kind = "deposit" => AsDeposited(r)
    PROVE  Precedes(A, SettleOp(A, r))
<1> DEFINE acct == r.acct
           amount == r.amount
           B == SettleOp(A, r)
<1>1. acct \in Accounts /\ amount \in Nat /\ (r.kind = "deposit" => r.id \in Deposits)
  BY DEF DbRow, Row
<1>2. A[acct].balance \in Nat /\ A[acct].nonce \in Nat
  BY <1>1 DEF Accounting, Account
<1>3. CASE r.kind = "deposit"
  <2>1. amount \in Nat /\ amount # 0
    BY <1>1, <1>3, DepositRecordAssumption DEF AsDeposited
  <2>2. B = [A EXCEPT ![acct] = [balance |-> A[acct].balance + amount, nonce |-> A[acct].nonce]]
    BY <1>3 DEF SettleOp, Credit
  <2> HIDE DEF acct, amount, B
  <2>3. /\ B[acct].balance = A[acct].balance + amount /\ B[acct].nonce = A[acct].nonce
        /\ \A a \in Accounts : a # acct => B[a] = A[a]
    BY <1>1, <2>2 DEF Accounting
  <2>4. B # A
    BY <1>2, <2>1, <2>3
  <2>5. \A a \in Accounts : A[a].balance \in Nat /\ A[a].nonce \in Nat
    BY DEF Accounting, Account
  <2> QED
    BY <1>2, <2>1, <2>3, <2>4, <2>5 DEF Precedes, B
<1>4. CASE r.kind # "deposit"
  <2>2. B = [A EXCEPT ![acct] = [balance |-> A[acct].balance - amount, nonce |-> A[acct].nonce + 1]]
    BY <1>4 DEF SettleOp, Debit
  <2> HIDE DEF acct, amount, B
  <2>3. /\ B[acct].nonce = A[acct].nonce + 1
        /\ \A a \in Accounts : a # acct => B[a] = A[a]
    BY <1>1, <2>2 DEF Accounting
  <2>4. B # A
    BY <1>2, <2>3
  <2>5. \A a \in Accounts : A[a].balance \in Nat /\ A[a].nonce \in Nat
    BY DEF Accounting, Account
  <2> QED
    BY <1>2, <2>3, <2>4, <2>5 DEF Precedes, B
<1> QED
  BY <1>3, <1>4

\* A root of accounts that come before.
Below(root, B) == \E A \in Accounting : IsRoot(root, A) /\ Precedes(A, B)

\* Such a root stays below, and is not the root of the accounts it is below.
LEMMA BelowOrder ==
    ASSUME NEW root, NEW B \in Accounting
    PROVE  /\ \A C \in Accounting : Precedes(B, C) => /\ Below(root, B) => Below(root, C)
                                                      /\ IsRoot(root, B) => Below(root, C)
           /\ Below(root, B) => ~IsRoot(root, B)
<1>1. ASSUME Below(root, B), NEW C \in Accounting, Precedes(B, C) PROVE Below(root, C)
  <2>1. PICK A \in Accounting : IsRoot(root, A) /\ Precedes(A, B)
    BY <1>1 DEF Below
  <2> QED
    BY <1>1, <2>1, PrecedesTransitive DEF Below
<1>2. ASSUME Below(root, B), IsRoot(root, B) PROVE FALSE
  <2>1. PICK A \in Accounting : IsRoot(root, A) /\ Precedes(A, B)
    BY <1>2 DEF Below
  <2>2. A = B
    BY <1>2, <2>1, RootInjective
  <2> QED
    BY <2>1, <2>2 DEF Precedes
<1> QED
  BY <1>1, <1>2 DEF Below

\* The root after the first k rows.
RootAt(r, k) == IF k = 0 THEN GenesisRoot ELSE r[k].rootAfter

\* Each row starts where the one recorded before it ended, and no two at one root.
RowsChain(r) ==
    /\ \A i \in 1..Len(r) : r[i].rootBefore = RootAt(r, i - 1)
    /\ \A i, j \in 1..Len(r) : r[i].rootBefore = r[j].rootBefore => i = j

\* The next row extends the chain.
LEMMA RowsChainAppend ==
    ASSUME NEW r \in Seq(DbRow), NEW x \in DbRow, RowsChain(r), x.rootBefore = RootAt(r, Len(r)),
           \A i \in 1..Len(r) : r[i].rootBefore # x.rootBefore
    PROVE  /\ RowsChain(Append(r, x))
           /\ RootAt(Append(r, x), Len(Append(r, x))) = x.rootAfter
<1> DEFINE q == Append(r, x)
           n == Len(r)
<1>1. /\ n \in Nat /\ Len(q) = n + 1 /\ q[n + 1] = x
      /\ \A i \in 1..n : q[i] = r[i]
  OBVIOUS
<1> HIDE DEF q, n
<1>2. /\ RowsChain(r) <=> /\ \A i \in 1..n : r[i].rootBefore = RootAt(r, i - 1)
                          /\ \A i, j \in 1..n : r[i].rootBefore = r[j].rootBefore => i = j
      /\ x.rootBefore = RootAt(r, n) /\ \A i \in 1..n : r[i].rootBefore # x.rootBefore
  BY DEF RowsChain, n
<1>3. \A k \in 0..n : RootAt(q, k) = RootAt(r, k)
  BY <1>1 DEF RootAt
<1>4. \A i \in 1..Len(q) : q[i].rootBefore = RootAt(q, i - 1)
  <2> SUFFICES ASSUME NEW i \in 1..(n + 1) PROVE q[i].rootBefore = RootAt(q, i - 1)
    BY <1>1
  <2>1. CASE i = n + 1
    <3>1. i - 1 = n /\ n \in 0..n
      BY <1>1, <2>1
    <3> QED
      BY <1>1, <1>2, <1>3, <2>1, <3>1
  <2>2. CASE i # n + 1
    <3>1. i \in 1..n /\ i - 1 \in 0..n
      BY <1>1, <2>2
    <3> QED
      BY <1>1, <1>2, <1>3, <3>1
  <2> QED
    BY <2>1, <2>2
<1>5. \A i, j \in 1..Len(q) : q[i].rootBefore = q[j].rootBefore => i = j
  <2>1. \A i \in 1..Len(q) : i = n + 1 \/ i \in 1..n
    BY <1>1
  <2> QED
    BY <1>1, <1>2, <2>1
<1>6. RootAt(q, Len(q)) = x.rootAfter
  BY <1>1 DEF RootAt
<1> QED
  BY <1>4, <1>5, <1>6 DEF RowsChain, q

\* A change of status leaves the chain alone.
LEMMA RowsChainKept ==
    ASSUME NEW r \in Seq(DbRow), NEW q \in Seq(DbRow), SameRows(r, q), RowsChain(r)
    PROVE  RowsChain(q) /\ \A k \in 0..Len(r) : RootAt(q, k) = RootAt(r, k)
<1>1. /\ Len(q) = Len(r) /\ Len(r) \in Nat
      /\ \A i \in 1..Len(r) : /\ q[i].rootBefore = r[i].rootBefore
                              /\ q[i].rootAfter = r[i].rootAfter
  BY DEF SameRows, SameRow
<1>2. \A k \in 0..Len(r) : RootAt(q, k) = RootAt(r, k)
  BY <1>1 DEF RootAt
<1>3. \A i \in 1..Len(r) : i - 1 \in 0..Len(r)
  BY <1>1
<1> QED
  BY <1>1, <1>2, <1>3 DEF RowsChain

\* With one handler the rows are the manager's history: they chain from the genesis root
\* to the manager's, or to the operation that is about to be recorded.
Chained ==
    /\ RowsChain(rows)
    /\ Unsaved = {} => ls.root = RootAt(rows, Len(rows))
    /\ \A h \in Unsaved : /\ handler[h].row.rootBefore = RootAt(rows, Len(rows))
                          /\ handler[h].row.rootAfter = ls.root
                          /\ \A i \in 1..Len(rows) : rows[i].rootBefore # handler[h].row.rootBefore
    /\ \A i \in 1..Len(rows) : Below(rows[i].rootBefore, ls.accounts)
    /\ \A h \in Unsaved : Below(handler[h].row.rootBefore, ls.accounts)

\* The manager moves on by the operation it applies.
LEMMA ApplyPrecedes ==
    ASSUME Types, Exact, NEW h \in Handlers, ApplyOperation(h)
    PROVE  /\ Precedes(ls.accounts, ls'.accounts)
           /\ handler[h].row.rootBefore = ls.root /\ IsRoot(ls.root, ls.accounts)
<1> DEFINE r == handler[h].row
           A == ls.accounts
<1>1. handler[h].pc = "apply" /\ CanApply(r)
  BY DEF ApplyOperation
<1>2. r \in DbRow /\ ls \in State
  BY <1>1 DEF Types, HandlerState, IdleHandler
<1>3. /\ r.rootBefore = ls.root /\ (r.kind = "deposit" => AsDeposited(r))
      /\ IsRoot(ls.root, A)
  BY <1>1 DEF Exact, Rooted
<1>4. ls'.accounts = SettleOp(A, r)
  <2>1. CASE r.kind = "deposit"
    <3>1. r.id \in Deposits /\ ls' = ApplyDeposit(ls, r.id)
      BY <1>2, <2>1 DEF DbRow, ApplyOperation
    <3>2. SettleOp(A, r) = Credit(A, DepositRecord[r.id].acct, DepositRecord[r.id].amount)
      BY <1>3, <2>1 DEF SettleOp, AsDeposited
    <3> QED
      BY <1>2, <3>1, <3>2, ApplyDepositType
  <2>2. CASE r.kind # "deposit"
    <3>1. CanApplyWithdrawal(ls, r, r.nullifier) /\ ls' = ApplyWithdrawal(ls, r, r.nullifier)
      BY <1>1, <2>2 DEF CanApply, ApplyOperation
    <3>2. SettleOp(A, r) = Debit(A, r.acct, r.amount)
      BY <2>2 DEF SettleOp
    <3> QED
      BY <1>2, <3>1, <3>2, ApplyWithdrawalType
  <2> QED
    BY <2>1, <2>2
<1>5. A \in Accounting
  BY <1>2 DEF State, Accounting
<1> QED
  BY <1>2, <1>3, <1>4, <1>5, SettlePrecedes

\* Every operation is recorded at the end of the chain before the next one is applied.
LEMMA ChainedStep ==
    ASSUME Types, Types', Named, Once, Exact, Chained, Orderly, [Next]_vars
    PROVE  Chained'
<1>0. /\ \A g, h \in Handlers : g = h
      /\ ~Restart /\ ~RestartBlind
      /\ rows \in Seq(DbRow) /\ rows' \in Seq(DbRow)
      /\ ls.accounts \in Accounting /\ ls'.accounts \in Accounting
  BY OrderlyStep DEF Orderly, Types, State, Accounting
<1>1. ASSUME NEW h \in Handlers, ApplyOperation(h) PROVE Chained'
  <2> DEFINE x == handler'[h].row
  <2>1. UNCHANGED rows
    BY <1>1 DEF ApplyOperation, database
  <2>2. x = [handler[h].row EXCEPT !.rootAfter = ls'.root]
    BY <1>1, SnapshotEffect
  <2>3. handler[h].row \in DbRow /\ handler[h].pc = "apply"
    BY <1>1 DEF ApplyOperation, Types, HandlerState, IdleHandler
  <2>4. x.rootBefore = ls.root /\ x.rootAfter = ls'.root
    BY <1>1, <2>2, <2>3, ApplyPrecedes DEF DbRow, Row
  <2>5. Unsaved = {}
    BY <1>0, <2>3 DEF Unsaved
  <2>6. h \in Unsaved' /\ \A g \in Unsaved' : g = h
    BY <1>0, <1>1, SnapshotEffect DEF Unsaved
  <2>7. Precedes(ls.accounts, ls'.accounts) /\ IsRoot(ls.root, ls.accounts)
    BY <1>1, ApplyPrecedes
  <2>8. ASSUME NEW i \in 1..Len(rows)
        PROVE  Below(rows[i].rootBefore, ls'.accounts) /\ rows[i].rootBefore # ls.root
    <3>1. Below(rows[i].rootBefore, ls.accounts)
      BY DEF Chained
    <3> QED
      BY <1>0, <2>7, <3>1, BelowOrder
  <2>9. Below(x.rootBefore, ls'.accounts)
    BY <1>0, <2>4, <2>7, BelowOrder
  <2>10. RowsChain(rows) /\ ls.root = RootAt(rows, Len(rows))
    BY <2>5 DEF Chained
  <2> QED
    BY <2>1, <2>4, <2>6, <2>8, <2>9, <2>10 DEF Chained
<1>2. ASSUME NEW h \in Handlers, SaveOperation(h) PROVE Chained'
  <2> DEFINE x == handler[h].row
  <2>1. UNCHANGED ls /\ rows' = Append(rows, x)
    BY <1>2, SaveAppends DEF SaveOperation
  <2>2. h \in Unsaved /\ handler[h].pc = "save"
    BY <1>2 DEF SaveOperation, Unsaved
  <2>3. x \in DbRow
    BY <2>2 DEF Types, HandlerState, IdleHandler
  <2>4. Unsaved' = {}
    <3>1. handler'[h].pc = "readCursor"
      BY <1>2, <2>2, GotoHandlerEffect DEF SaveOperation
    <3> QED
      BY <1>0, <3>1 DEF Unsaved
  <2>5. /\ x.rootBefore = RootAt(rows, Len(rows)) /\ x.rootAfter = ls.root
        /\ \A i \in 1..Len(rows) : rows[i].rootBefore # x.rootBefore
        /\ RowsChain(rows) /\ Below(x.rootBefore, ls.accounts)
        /\ \A i \in 1..Len(rows) : Below(rows[i].rootBefore, ls.accounts)
    BY <2>2 DEF Chained
  <2> HIDE DEF x
  <2>6. RowsChain(rows') /\ RootAt(rows', Len(rows')) = x.rootAfter
    BY <1>0, <2>1, <2>3, <2>5, RowsChainAppend
  <2>7. \A i \in 1..Len(rows') : rows'[i] = x \/ (i \in 1..Len(rows) /\ rows'[i] = rows[i])
    BY <1>0, <2>1, <2>3
  <2>8. \A i \in 1..Len(rows') : Below(rows'[i].rootBefore, ls.accounts)
    BY <2>5, <2>7
  <2> QED
    BY <2>1, <2>4, <2>5, <2>6, <2>8 DEF Chained
<1>3. ASSUME ~\E h \in Handlers : ApplyOperation(h) \/ SaveOperation(h) PROVE Chained'
  <2>1. UNCHANGED ls /\ SameRows(rows, rows')
    BY <1>0, <1>3, ManagerStep, RowsStep
  <2>2. ASSUME NEW h \in Unsaved PROVE h \in Unsaved'
    <3>1. h \in Handlers /\ handler[h].pc \in {"snapshot", "save"}
      BY DEF Unsaved
    <3>2. handler'[h].pc # "idle"
      BY <3>1, HandlerEnds DEF RefuseOperation, WritePendingRoot, SaveWithdrawRequest
    <3>3. handler'[h].pc \in {"snapshot", "save"}
      BY <1>3, <3>1, <3>2, HandlerMove DEF HandlerInitCursor, ReadCursor, WritePendingRoot
    <3> QED
      BY <3>1, <3>3 DEF Unsaved
  <2>3. ASSUME NEW h \in Unsaved' PROVE h \in Unsaved /\ SameRow(handler[h].row, handler'[h].row)
    <3>1. h \in Handlers /\ handler'[h].pc \in {"snapshot", "save"}
      BY DEF Unsaved
    <3>2. CASE handler'[h] = handler[h]
      BY <3>1, <3>2 DEF Unsaved, SameRow, SameOp
    <3>3. CASE SnapshotAfter(h)
      BY <3>1, <3>3, SnapshotEffect DEF Unsaved, SnapshotAfter
    <3> QED
      BY <1>3, <3>1, <3>2, <3>3, HandlerMove
  <2>4. /\ RowsChain(rows') /\ Len(rows') = Len(rows)
        /\ RootAt(rows', Len(rows')) = RootAt(rows, Len(rows))
    BY <1>0, <2>1, RowsChainKept DEF Chained, SameRows
  <2>5. \A i \in 1..Len(rows) : rows'[i].rootBefore = rows[i].rootBefore
    BY <2>1 DEF SameRows, SameRow
  <2>6. \A h \in Unsaved' : /\ handler'[h].row.rootBefore = handler[h].row.rootBefore
                            /\ handler'[h].row.rootAfter = handler[h].row.rootAfter
    BY <2>3 DEF SameRow
  <2>7. Unsaved' = {} => Unsaved = {}
    BY <2>2
  <2> QED
    BY <2>1, <2>3, <2>4, <2>5, <2>6, <2>7 DEF Chained
<1> QED
  BY <1>1, <1>2, <1>3

\* The end of the chain is not the start of a row.
LEMMA ChainOpen ==
    ASSUME Types, Exact, Chained
    PROVE  \A i \in 1..Len(rows) : rows[i].rootBefore # RootAt(rows, Len(rows))
<1> SUFFICES ASSUME NEW i \in 1..Len(rows) PROVE rows[i].rootBefore # RootAt(rows, Len(rows))
  OBVIOUS
<1>1. CASE Unsaved = {}
  <2>1. ls.accounts \in Accounting /\ IsRoot(ls.root, ls.accounts)
    BY DEF Exact, Rooted, State, Accounting
  <2>2. Below(rows[i].rootBefore, ls.accounts) /\ ls.root = RootAt(rows, Len(rows))
    BY <1>1 DEF Chained
  <2> QED
    BY <2>1, <2>2, BelowOrder
<1>2. CASE Unsaved # {}
  BY <1>2 DEF Chained
<1> QED
  BY <1>1, <1>2

\* The operations are those of rows, with their roots.
CopiedIn(r, ops) == \A k \in 1..Len(ops) : \E i \in 1..Len(r) : SameRow(r[i], ops[k])

Copied ==
    /\ \A d \in Drivers : CopiedIn(rows, driver[d].pending) /\ CopiedIn(rows, driver[d].batch.ops)
    /\ \A i \in DOMAIN txs : CopiedIn(rows, txs[i].batch.ops)

\* A row is never replaced.
LEMMA RowStays ==
    ASSUME Types, Types', Named, Once, [Next]_vars
    PROVE  /\ Len(rows) <= Len(rows')
           /\ \A i \in 1..Len(rows) : i \in 1..Len(rows') /\ SameRow(rows[i], rows'[i])
<1>1. rows \in Seq(DbRow) /\ rows' \in Seq(DbRow) /\ Len(rows) \in Nat
  BY DEF Types
<1>2. CASE SameRows(rows, rows')
  BY <1>1, <1>2 DEF SameRows
<1>3. ASSUME NEW h \in Handlers, SaveOperation(h)
      PROVE  /\ Len(rows) <= Len(rows')
             /\ \A i \in 1..Len(rows) : i \in 1..Len(rows') /\ SameRow(rows[i], rows'[i])
  <2> DEFINE x == handler[h].row
  <2>1. rows' = Append(rows, x)
    BY <1>3, SaveAppends
  <2> HIDE DEF x
  <2>2. Len(rows') = Len(rows) + 1 /\ \A i \in 1..Len(rows) : rows'[i] = rows[i]
    BY <1>1, <2>1
  <2> QED
    BY <1>1, <2>2 DEF SameRow, SameOp
<1> QED
  BY <1>2, <1>3, RowsStep

\* So a copy stays a copy.
LEMMA CopiedKept ==
    ASSUME Types, Types', Named, Once, [Next]_vars, NEW ops, CopiedIn(rows, ops)
    PROVE  CopiedIn(rows', ops)
<1> SUFFICES ASSUME NEW k \in 1..Len(ops)
             PROVE  \E i \in 1..Len(rows') : SameRow(rows'[i], ops[k])
  BY DEF CopiedIn
<1>1. PICK i \in 1..Len(rows) : SameRow(rows[i], ops[k])
  BY DEF CopiedIn
<1>2. i \in 1..Len(rows') /\ SameRow(rows[i], rows'[i])
  BY RowStays
<1>3. SameRow(rows'[i], ops[k])
  BY <1>1, <1>2 DEF SameRow, SameOp
<1> QED
  BY <1>2, <1>3

\* What a driver lists, builds and submits are rows.
LEMMA CopiedStep ==
    ASSUME Types, Types', Named, Once, Copied, [Next]_vars
    PROVE  Copied'
<1>1. rows \in Seq(DbRow) /\ \A x : SameRow(x, x)
  BY DEF Types, SameRow, SameOp
<1>2. ASSUME NEW d \in Drivers
      PROVE  CopiedIn(rows', driver'[d].pending) /\ CopiedIn(rows', driver'[d].batch.ops)
  <2>1. /\ CopiedIn(rows, driver[d].pending) /\ CopiedIn(rows, driver[d].batch.ops)
        /\ CopiedIn(rows, <<>>)
    <3>1. CopiedIn(rows, <<>>)
      BY DEF CopiedIn
    <3> QED
      BY <3>1 DEF Copied
  <2>2. CASE driver'[d].pending = driver[d].pending /\ driver'[d].batch = driver[d].batch
    BY <2>1, <2>2, CopiedKept
  <2>3. CASE driver'[d].pending = <<>> /\ driver'[d].batch.ops = <<>>
    BY <2>1, <2>3, CopiedKept
  <2>4. CASE driver'[d].pending = ListPending(rows, "deposit") /\ driver'[d].batch = driver[d].batch
    <3> DEFINE q == ListPending(rows, "deposit")
    <3>1. \A k \in 1..Len(q) : \E i \in 1..Len(rows) : q[k] = rows[i]
      BY <1>1, ListPendingRows
    <3> HIDE DEF q
    <3>2. CopiedIn(rows, q)
      BY <1>1, <3>1 DEF CopiedIn
    <3> QED
      BY <2>1, <2>4, <3>2, CopiedKept DEF q
  <2>5. CASE BuildBatch(d) /\ driver'[d].pending = <<>> /\ driver'[d].batch = BatchOf(d)
    <3> DEFINE t == Transitions(d)
               p == driver[d].pending
    <3>1. driver[d].pc = "build" /\ CanBuild(d)
      BY <2>5 DEF BuildBatch
    <3>2. \A i \in 1..Len(t) : \/ \E k \in 1..Len(p) : t[i] = p[k]
                               \/ \E k \in 1..Len(rows) : t[i] = rows[k]
      BY <3>1, TransitionsFrom
    <3>3. CopiedIn(rows, p)
      BY <2>1
    <3>4. driver'[d].batch.ops = t
      BY <2>5 DEF BatchOf
    <3> HIDE DEF t, p
    <3>5. CopiedIn(rows, t)
      BY <1>1, <3>2, <3>3 DEF CopiedIn
    <3> QED
      BY <2>1, <2>5, <3>4, <3>5, CopiedKept
  <2> QED
    BY <2>2, <2>3, <2>4, <2>5, DriverStep
<1>3. ASSUME NEW i \in DOMAIN txs' PROVE CopiedIn(rows', txs'[i].batch.ops)
  <2>1. CASE UNCHANGED <<txs, chain>>
    BY <1>3, <2>1, CopiedKept DEF Copied
  <2>2. ASSUME NEW d \in Drivers,
               txs' = Append(txs, [batch |-> driver[d].batch, status |-> "mempool"])
        PROVE  CopiedIn(rows', txs'[i].batch.ops)
    <3> DEFINE tx == [batch |-> driver[d].batch, status |-> "mempool"]
    <3>1. tx.batch = driver[d].batch
      OBVIOUS
    <3> HIDE DEF tx
    <3>2. txs'[i] = tx \/ (i \in DOMAIN txs /\ txs'[i] = txs[i])
      BY <1>3, <2>2 DEF Types, tx
    <3> QED
      BY <3>1, <3>2, CopiedKept DEF Copied
  <2>3. ASSUME NEW k \in DOMAIN txs, Deliver(k) PROVE CopiedIn(rows', txs'[i].batch.ops)
    <3>1. i \in DOMAIN txs /\ txs'[i].batch = txs[i].batch
      BY <1>3, <2>3, DeliverEffect
    <3> QED
      BY <3>1, CopiedKept DEF Copied
  <2> QED
    BY <2>1, <2>2, <2>3, TxsStep
<1> QED
  BY <1>2, <1>3 DEF Copied

\* The stretch of n rows that follows row c, as the operations of a batch.
Stretch(r, c, ops) ==
    /\ c + Len(ops) <= Len(r)
    /\ \A k \in 1..Len(ops) : SameRow(r[c + k], ops[k])

\* A batch that starts at the root after c rows settles a stretch of the rows after them:
\* no row is left out and none comes before its turn.
LEMMA BatchStretch ==
    ASSUME NEW r \in Seq(DbRow), RowsChain(r),
           \A i \in 1..Len(r) : r[i].rootBefore # RootAt(r, Len(r)),
           NEW ops \in Seq(DbRow), NEW c \in 0..Len(r),
           ChainsFrom(ops, RootAt(r, c)), CopiedIn(r, ops)
    PROVE  Stretch(r, c, ops)
<1> DEFINE n == Len(ops)
           N == Len(r)
           S == {k \in 0..n : /\ c + k <= N
                              /\ \A j \in 1..k : SameRow(r[c + j], ops[j])}
<1>1. n \in Nat /\ N \in Nat
  OBVIOUS
<1>2. 0 \in S
  BY <1>1
<1>3. ASSUME NEW k \in 0..n, k < n, k \in S PROVE k + 1 \in S
  <2>1. k + 1 \in 1..n
    BY <1>1, <1>3
  <2>2. c + k \in 0..N
    BY <1>1, <1>3
  <2>3. ops[k + 1].rootBefore = RootAt(r, c + k)
    <3>1. CASE k = 0
      <4>1. ops[1].rootBefore = RootAt(r, c)
        BY <2>1, <3>1 DEF ChainsFrom
      <4> QED
        BY <3>1, <4>1
    <3>2. CASE k # 0
      <4>1. k \in 1..k /\ c + k # 0
        BY <3>2
      <4>2. ops[k + 1].rootBefore = ops[k].rootAfter
        BY <1>1, <2>1, <3>2 DEF ChainsFrom
      <4>3. ops[k].rootAfter = r[c + k].rootAfter
        BY <1>3, <4>1 DEF SameRow
      <4> QED
        BY <4>1, <4>2, <4>3 DEF RootAt
    <3> QED
      BY <3>1, <3>2
  <2>4. PICK i \in 1..N : SameRow(r[i], ops[k + 1])
    BY <2>1 DEF CopiedIn
  <2>5. r[i].rootBefore = RootAt(r, c + k)
    BY <2>3, <2>4 DEF SameRow
  <2>6. c + k # N
    BY <2>5
  <2>7. c + (k + 1) \in 1..N /\ (c + (k + 1)) - 1 = c + k
    BY <1>1, <2>2, <2>6
  <2>8. r[c + (k + 1)].rootBefore = RootAt(r, c + k)
    BY <2>7 DEF RowsChain
  <2>9. i = c + (k + 1)
    BY <2>5, <2>7, <2>8 DEF RowsChain
  <2>10. \A j \in 1..(k + 1) : j \in 1..k \/ j = k + 1
    BY <1>1
  <2>11. k + 1 \in 0..n /\ c + (k + 1) <= N
    BY <2>1, <2>7
  <2>12. \A j \in 1..(k + 1) : SameRow(r[c + j], ops[j])
    BY <1>3, <2>4, <2>9, <2>10
  <2> QED
    BY <2>11, <2>12
<1> HIDE DEF S, n, N
<1>4. \A k \in 0..n : k < n /\ k \in S => k + 1 \in S
  BY <1>3
<1>5. \A k \in 0..n : k \in S
  BY <1>1, <1>2, <1>4, SetInduction
<1>6. n \in S
  BY <1>1, <1>5
<1> QED
  BY <1>6 DEF S, Stretch, n, N

\* The chain has settled the first c rows and holds the root after them.
SettledUpTo(c) ==
    /\ c \in 0..Len(rows)
    /\ \A i \in 1..Len(rows) : SettledIn(chain, rows[i]) <=> i <= c
    /\ ChainRoot = RootAt(rows, c)

SettledPrefix == \E c \in 0..Len(rows) : SettledUpTo(c)

\* An operation is settled or not, whatever the status of its row.
LEMMA SameSettled ==
    ASSUME NEW x, NEW y, SameRow(x, y), NEW c
    PROVE  SettledIn(c, x) <=> SettledIn(c, y)
BY DEF SameRow, SameOp, SettledIn

\* The tx that is delivered, when its batch is accepted: the batch is the stretch of rows
\* after the settled ones, and its rows are what the chain settles.
LEMMA DeliverStretch ==
    ASSUME Types, HeldProvable, Exact, Chained, Copied, NEW c, SettledUpTo(c),
           NEW k \in DOMAIN txs, Deliver(k), txs'[k].status = "accepted"
    PROVE  /\ Stretch(rows, c, txs[k].batch.ops)
           /\ txs[k].batch.ops \in Seq(DbRow) /\ Len(txs[k].batch.ops) >= 1
           /\ OneWithdrawal(txs[k].batch.ops)
           /\ Last(chain'.roots) = Last(txs[k].batch.ops).rootAfter
<1> DEFINE b == txs[k].batch
           ops == txs[k].batch.ops
<1>1. ChainAccepts(b) /\ chain'.roots = Append(chain.roots, b.new)
  BY DeliverEffect
<1>2. /\ ops \in Seq(DbRow) /\ Len(ops) >= 1 /\ ChainsFrom(ops, b.old)
      /\ OneWithdrawal(ops) /\ b.new = Last(ops).rootAfter
  BY DEF HeldProvable, Provable
<1>3. b.old = RootAt(rows, c) /\ c \in 0..Len(rows)
  BY <1>1 DEF ChainAccepts, SettledUpTo
<1>4. CopiedIn(rows, ops) /\ RowsChain(rows) /\ rows \in Seq(DbRow)
  BY DEF Copied, Chained, Types
<1>5. Last(chain'.roots) = b.new
  <2> DEFINE new == b.new
             roots == chain.roots
  <2>1. roots \in Seq(Root) /\ new \in Root
    <3>1. txs[k] \in Tx
      BY DeliverEffect
    <3> QED
      BY <3>1 DEF Types, Tx, Batch
  <2> HIDE DEF new, roots
  <2>2. Last(Append(roots, new)) = new
    BY <2>1 DEF Last
  <2> QED
    BY <1>1, <2>2 DEF new, roots
<1> HIDE DEF b, ops
<1>6. Stretch(rows, c, ops)
  BY <1>2, <1>3, <1>4, ChainOpen, BatchStretch
<1> QED
  BY <1>2, <1>5, <1>6 DEF b, ops

\* An accepted batch settles exactly the stretch.
LEMMA SettledStretch ==
    ASSUME Types, Types', HeldProvable, Once, Exact, Chained, Copied, NEW c, SettledUpTo(c),
           [Next]_vars, NEW k \in DOMAIN txs, Deliver(k), txs'[k].status = "accepted"
    PROVE  \E e \in 0..Len(rows) : e = c + Len(txs[k].batch.ops) /\ SettledUpTo(e)'
<1> DEFINE ops == txs[k].batch.ops
           m == Len(ops)
           N == Len(rows)
<1>1. /\ Stretch(rows, c, ops) /\ ops \in Seq(DbRow) /\ Len(ops) >= 1
      /\ Last(chain'.roots) = Last(ops).rootAfter
  BY DeliverStretch
<1>2. UNCHANGED rows /\ rows \in Seq(DbRow) /\ DOMAIN rows = 1..Len(rows)
  BY DeliverEffect DEF database, Types
<1>3. c \in 0..N /\ N \in Nat /\ m \in Nat /\ m >= 1 /\ c + m <= N
  BY <1>1, <1>2 DEF SettledUpTo, Stretch
<1>4. ASSUME NEW i \in 1..N, i <= c + m PROVE SettledIn(chain', rows[i])
  <2>1. CASE i <= c
    BY <1>4, <2>1, SettledKept DEF SettledUpTo
  <2>2. CASE i > c
    <3>1. i - c \in 1..m /\ c + (i - c) = i
      BY <1>3, <1>4, <2>2
    <3>2. SameRow(rows[i], ops[i - c])
      BY <1>1, <3>1 DEF Stretch
    <3>3. i - c \in DOMAIN ops
      BY <1>1, <3>1
    <3>4. SettledIn(chain', ops[i - c])
      BY <3>3, DeliverSettles
    <3> QED
      BY <3>2, <3>4, SameSettled
  <2> QED
    BY <1>3, <2>1, <2>2
<1>5. ASSUME NEW i \in 1..N, SettledIn(chain', rows[i]), ~(i <= c + m) PROVE FALSE
  <2>1. ~SettledIn(chain, rows[i]) /\ rows[i] \in DbRow
    BY <1>2, <1>3, <1>5 DEF SettledUpTo
  <2>2. PICK l \in DOMAIN txs : /\ Deliver(l) /\ txs'[l].status = "accepted"
                                /\ \E j \in DOMAIN txs[l].batch.ops : SameMark(txs[l].batch.ops[j], rows[i])
    BY <1>5, <2>1, NewlySettled
  <2>3. l = k
    <3>1. txs[l].status = "mempool" /\ (l # k => txs'[l] = txs[l])
      BY <2>2, DeliverEffect
    <3> QED
      BY <2>2, <3>1
  <2>4. PICK j \in DOMAIN ops : SameMark(ops[j], rows[i])
    BY <2>2, <2>3
  <2>5. j \in 1..m
    BY <1>1
  <2>6. SameRow(rows[c + j], ops[j]) /\ c + j \in 1..N
    BY <1>1, <1>3, <2>5 DEF Stretch
  <2>7. SameMark(rows[c + j], rows[i])
    BY <2>4, <2>6 DEF SameMark, SameRow, SameOp
  <2>8. c + j = i
    BY <1>2, <2>6, <2>7 DEF Once
  <2> QED
    BY <1>3, <1>5, <2>5, <2>8
<1>6. Last(chain'.roots) = RootAt(rows, c + m)
  <2>1. m \in 1..Len(ops) /\ c + m # 0
    BY <1>3
  <2>2. SameRow(rows[c + m], ops[m])
    BY <1>1, <2>1 DEF Stretch
  <2>3. Last(ops) = ops[m]
    BY DEF Last
  <2> QED
    BY <1>1, <2>1, <2>2, <2>3 DEF RootAt, SameRow
<1>7. c + m \in 0..N
  BY <1>3
<1>8. PICK e \in 0..N : e = c + m
  BY <1>7
<1>9. /\ \A i \in 1..N : SettledIn(chain', rows[i]) <=> i <= e
      /\ Last(chain'.roots) = RootAt(rows, e)
  BY <1>4, <1>5, <1>6, <1>8
<1>10. SettledUpTo(e)'
  BY <1>2, <1>8, <1>9 DEF SettledUpTo, ChainRoot
<1> QED
  BY <1>8, <1>10

\* Any other step leaves what is settled, and a row is unsettled when it is recorded.
LEMMA SettledSame ==
    ASSUME Types, Types', Named, Once, SettledRecorded, NEW c, SettledUpTo(c), [Next]_vars,
           chain' = chain
    PROVE  SettledUpTo(c)'
<1>1. /\ rows \in Seq(DbRow) /\ rows' \in Seq(DbRow) /\ Len(rows) \in Nat /\ Len(rows') \in Nat
      /\ DOMAIN rows = 1..Len(rows) /\ DOMAIN rows' = 1..Len(rows')
  BY DEF Types
<1>2. /\ Len(rows) <= Len(rows')
      /\ \A i \in 1..Len(rows) : SameRow(rows[i], rows'[i])
  BY RowStays
<1>3. c \in 0..Len(rows) /\ c \in 0..Len(rows')
  BY <1>1, <1>2 DEF SettledUpTo
<1>4. ASSUME NEW i \in 1..Len(rows') PROVE SettledIn(chain', rows'[i]) <=> i <= c
  <2>1. CASE i \in 1..Len(rows)
    <3>1. SettledIn(chain, rows[i]) <=> SettledIn(chain, rows'[i])
      BY <1>2, <2>1, SameSettled
    <3> QED
      BY <2>1, <3>1 DEF SettledUpTo
  <2>2. CASE i \notin 1..Len(rows)
    <3>1. PICK h \in Handlers : SaveOperation(h) /\ rows'[i] = handler[h].row
      BY <1>1, <2>2, NewRowStep
    <3>2. h \in Unsaved /\ rows'[i] \in DbRow
      BY <1>1, <3>1 DEF SaveOperation, Unsaved
    <3>3. \A j \in DOMAIN rows : ~SameMark(rows[j], rows'[i])
      BY <3>1, <3>2 DEF Once
    <3>4. ~SettledIn(chain, rows'[i])
      BY <3>2, <3>3 DEF SettledRecorded
    <3> QED
      BY <1>1, <1>3, <2>2, <3>4
  <2> QED
    BY <2>1, <2>2
<1>5. RootAt(rows', c) = RootAt(rows, c)
  <2>1. c # 0 => rows'[c].rootAfter = rows[c].rootAfter
    BY <1>1, <1>2, <1>3 DEF SameRow
  <2> QED
    BY <2>1 DEF RootAt
<1> QED
  BY <1>3, <1>4, <1>5 DEF SettledUpTo, ChainRoot

\* The chain changes when it accepts a batch.
LEMMA ChainStep ==
    ASSUME Types, [Next]_vars
    PROVE  \/ chain' = chain
           \/ \E k \in DOMAIN txs : Deliver(k) /\ txs'[k].status = "accepted"
<1>1. ASSUME NEW k \in DOMAIN txs, Deliver(k) PROVE chain' = chain \/ txs'[k].status = "accepted"
  BY <1>1, DeliverEffect
<1> QED
  BY <1>1, TxsStep

\* The chain settles rows in the order in which they were recorded, whichever driver
\* submits them.
LEMMA SettledPrefixStep ==
    ASSUME Types, Types', HeldProvable, Named, Once, Exact, Chained, Copied, SettledRecorded,
           SettledPrefix, [Next]_vars
    PROVE  SettledPrefix'
<1>1. PICK c \in 0..Len(rows) : SettledUpTo(c)
  BY DEF SettledPrefix
<1>2. CASE chain' = chain
  <2>1. SettledUpTo(c)'
    BY <1>1, <1>2, SettledSame
  <2> QED
    BY <2>1 DEF SettledPrefix, SettledUpTo
<1>3. ASSUME NEW k \in DOMAIN txs, Deliver(k), txs'[k].status = "accepted" PROVE SettledPrefix'
  <2>1. PICK e \in 0..Len(rows) : SettledUpTo(e)'
    BY <1>1, <1>3, SettledStretch
  <2> QED
    BY <2>1 DEF SettledPrefix, SettledUpTo
<1> QED
  BY <1>2, <1>3, ChainStep

-----------------------------------------------------------------------------
(* The refinement *)

\* The log, the settled operations and the acknowledged ones are Ledger's variables.
Log == [i \in DOMAIN rows |-> Key(rows[i])]

Settled == {Key(rows[i]) : i \in {j \in DOMAIN rows : SettledOn(rows[j])}}

\* The hypotheses of the refinement, and the invariant it needs.
Ordered ==
    /\ Types /\ Submitted /\ Named /\ Recorded /\ Fresh /\ Numbered /\ Once
    /\ CommittedAccepted /\ Uncommitted /\ SettledRecorded /\ BatchHeld /\ SettledHeld
    /\ Undisturbed /\ Orderly /\ HeldProvable /\ Exact /\ Chained /\ Copied /\ SettledPrefix

\* It holds at the start.
LEMMA InitOrdered ==
    ASSUME Init, \A g, h \in Handlers : g = h, \A d, e \in Drivers : d = e,
           MaxFaults = 0, MaxRestarts = 0, ~OperatorCancels
    PROVE  Ordered
<1>1. rows = <<>> /\ txs = <<>> /\ chain.deposits = {} /\ chain.nullifiers = {}
  BY DEF Init
<1>2. Uncommitted /\ SettledHeld /\ BatchHeld
  BY <1>1 DEF Uncommitted, SettledHeld, BatchHeld
<1>3. SettledRecorded
  BY <1>1 DEF SettledRecorded, SettledIn
<1>4. Undisturbed /\ Orderly
  BY DEF Init, Undisturbed, Orderly
<1>5. HeldProvable
  BY DEF Init, HeldProvable, IdleDriver, Holding
<1>6. /\ \A h \in Handlers : handler[h].pc = "idle"
      /\ \A d \in Drivers : driver[d].pending = <<>> /\ driver[d].batch.ops = <<>>
  BY DEF Init, IdleHandler, IdleDriver, NoBatchBuilt
<1>7. Exact
  BY <1>6, NewLocalStateRooted DEF Init, Exact, AllExact
<1>8. Len(rows) = 0 /\ ls.root = GenesisRoot
  BY <1>1 DEF Init, NewLocalState
<1>9. Chained
  BY <1>6, <1>8 DEF Chained, RowsChain, RootAt, Unsaved
<1>10. Copied
  <2>1. CopiedIn(rows, <<>>)
    BY DEF CopiedIn
  <2> QED
    BY <1>1, <1>6, <2>1 DEF Copied
<1>11. SettledPrefix
  <2>1. ChainRoot = GenesisRoot
    BY DEF Init, ChainRoot, Last
  <2> QED
    BY <1>8, <2>1 DEF SettledPrefix, SettledUpTo, RootAt
<1> QED
  BY <1>2, <1>3, <1>4, <1>5, <1>7, <1>9, <1>10, <1>11, InitTypes, InitRoots, InitRecorded, InitOnce
     DEF Ordered

\* And every step keeps it.
LEMMA OrderedStep ==
    ASSUME Ordered, [Next]_vars
    PROVE  Ordered'
<1> USE DEF Ordered
<1>1. Undisturbed' /\ restarts' = restarts /\ restarts \in Nat
  BY UndisturbedStep
<1>2. Orderly' /\ \A g, h \in Handlers : g = h
  BY OrderlyStep DEF Orderly
<1>3. Types' /\ Submitted' /\ Named' /\ HeldProvable'
  BY NextTypes, SubmittedKept, NamedKept, HeldProvableStep
<1>4. Recorded' /\ Fresh' /\ Numbered' /\ Once' /\ Copied'
  BY <1>1, <1>3, RecordedStep, FreshStep, NumberedStep, OnceStep, CopiedStep
<1>5. Uncommitted' /\ CommittedAccepted'
  BY <1>3, UncommittedStep, CommittedStep DEF Undisturbed
<1>6. SettledRecorded' /\ BatchHeld' /\ SettledHeld'
  BY <1>3, SettledRecordedStep, BatchHeldStep, SettledHeldStep
<1>7. Exact' /\ Chained' /\ SettledPrefix'
  BY <1>2, <1>3, ExactStep, ChainedStep, SettledPrefixStep
<1> QED
  BY <1>1, <1>2, <1>3, <1>4, <1>5, <1>6, <1>7

\* The log grows by the row that is saved, which is new.
LEMMA LogStep ==
    ASSUME Ordered, [Next]_vars
    PROVE  \/ Log' = Log
           \/ \E h \in Handlers : /\ SaveOperation(h)
                                  /\ Log' = Append(Log, Key(handler[h].row))
                                  /\ \A i \in 1..Len(Log) : Log[i] # Key(handler[h].row)
<1>1. /\ rows \in Seq(DbRow) /\ Len(rows) \in Nat /\ DOMAIN rows = 1..Len(rows)
      /\ Types /\ Types' /\ Named /\ Once
  BY OrderedStep DEF Ordered, Types
<1>2. CASE SameRows(rows, rows')
  <2>1. DOMAIN rows' = DOMAIN rows
    BY <1>1, <1>2 DEF SameRows, Types
  <2>2. \A i \in DOMAIN rows : Key(rows'[i]) = Key(rows[i])
    BY <1>1, <1>2 DEF SameRows, SameRow, SameOp, Key
  <2> QED
    BY <2>1, <2>2 DEF Log
<1>3. ASSUME NEW h \in Handlers, SaveOperation(h)
      PROVE  /\ Log' = Append(Log, Key(handler[h].row))
             /\ \A i \in 1..Len(Log) : Log[i] # Key(handler[h].row)
  <2> DEFINE x == handler[h].row
             key == Key(x)
             n == Len(rows)
  <2>1. rows' = Append(rows, x) /\ key \notin Keys(rows)
    BY <1>1, <1>3, SaveAppends
  <2>2. x \in DbRow
    BY <1>1, <1>3 DEF SaveOperation, Types, HandlerState, IdleHandler
  <2> HIDE DEF x
  <2>3. /\ DOMAIN rows' = 1..(n + 1) /\ rows'[n + 1] = x
        /\ \A i \in 1..n : rows'[i] = rows[i]
    BY <1>1, <2>1, <2>2
  <2> DEFINE K == {Key(rows[i]) : i \in 1..n}
  <2>4. Log \in Seq(K) /\ Len(Log) = n /\ \A i \in 1..n : Log[i] = Key(rows[i])
    BY <1>1 DEF Log
  <2>5. Log' = [i \in 1..(n + 1) |-> Key(rows'[i])]
    BY <2>3 DEF Log
  <2>6. \A i \in 1..n : Log[i] # key
    BY <1>1, <2>1, <2>4 DEF Keys
  <2> HIDE DEF n, key, K
  <2>7. \A i \in 1..(n + 1) : Key(rows'[i]) = IF i = n + 1 THEN key ELSE Log[i]
    <3>1. n \in Nat /\ \A i \in 1..(n + 1) : i = n + 1 \/ i \in 1..n
      BY <1>1 DEF n
    <3> QED
      BY <2>3, <2>4, <3>1 DEF key
  <2>8. n \in Nat
    BY <1>1 DEF n
  <2>9. Log' = Append(Log, key)
    <3> DEFINE T == K \cup {key}
               s == Append(Log, key)
               t == Log'
    <3>1. Log \in Seq(T) /\ key \in T
      BY <2>4
    <3>2. \A i \in 1..(n + 1) : (IF i = n + 1 THEN key ELSE Log[i]) \in T
      BY <2>4, <2>8, <3>1
    <3> HIDE DEF T
    <3>3. s \in Seq(T) /\ Len(s) = n + 1 /\ \A i \in 1..(n + 1) : s[i] = IF i = n + 1 THEN key ELSE Log[i]
      BY <2>4, <2>8, <3>1
    <3>4. t \in Seq(T) /\ Len(t) = n + 1 /\ \A i \in 1..(n + 1) : t[i] = IF i = n + 1 THEN key ELSE Log[i]
      <4>1. t = [i \in 1..(n + 1) |-> IF i = n + 1 THEN key ELSE Log[i]]
        BY <2>5, <2>7
      <4> HIDE DEF t
      <4> QED
        BY <2>8, <3>2, <4>1
    <3> HIDE DEF s, t
    <3>5. s = t
      BY <3>3, <3>4
    <3> QED
      BY <3>5 DEF s, t
  <2> QED
    BY <2>4, <2>6, <2>9 DEF key, x
<1> QED
  BY <1>1, <1>2, <1>3, RowsStep

\* What is settled is the log up to the row the chain has reached.
LEMMA SettledRows ==
    ASSUME NEW r \in Seq(DbRow), NEW ch, NEW c \in 0..Len(r),
           \A i \in 1..Len(r) : SettledIn(ch, r[i]) <=> i <= c
    PROVE  {Key(r[i]) : i \in {j \in DOMAIN r : SettledIn(ch, r[j])}} = {Key(r[i]) : i \in 1..c}
<1>1. DOMAIN r = 1..Len(r) /\ Len(r) \in Nat
  OBVIOUS
<1>2. \A i \in 1..c : i \in DOMAIN r /\ i <= c
  BY <1>1
<1>3. \A i \in DOMAIN r : i <= c => i \in 1..c
  BY <1>1
<1> QED
  BY <1>1, <1>2, <1>3

\* So what the chain has settled are the first operations of the log.
LEMMA SettledIsPrefix ==
    ASSUME Types, NEW c, SettledUpTo(c)
    PROVE  /\ Settled = {Log[i] : i \in 1..c} /\ c \in 0..Len(Log) /\ Len(Log) = Len(rows)
           /\ \A i \in 1..c : Log[i] = Key(rows[i])
<1>1. rows \in Seq(DbRow) /\ DOMAIN rows = 1..Len(rows) /\ Len(rows) \in Nat /\ c \in 0..Len(rows)
  BY DEF Types, SettledUpTo
<1>2. Settled = {Key(rows[i]) : i \in {j \in DOMAIN rows : SettledIn(chain, rows[j])}}
  BY DEF Settled, SettledOn, SettledIn
<1>3. Settled = {Key(rows[i]) : i \in 1..c}
  BY <1>1, <1>2, SettledRows DEF SettledUpTo
<1>4. Len(Log) = Len(rows) /\ \A i \in 1..c : Log[i] = Key(rows[i])
  BY <1>1 DEF Log
<1> QED
  BY <1>1, <1>3, <1>4

\* The same after a step.
LEMMA SettledIsPrefixNext ==
    ASSUME Types', NEW c, SettledUpTo(c)'
    PROVE  Settled' = {Log'[i] : i \in 1..c} /\ c \in 0..Len(Log')
<1>1. /\ rows' \in Seq(DbRow) /\ DOMAIN rows' = 1..Len(rows') /\ Len(rows') \in Nat
      /\ c \in 0..Len(rows')
  BY DEF Types, SettledUpTo
<1>2. Settled' = {Key(rows'[i]) : i \in {j \in DOMAIN rows' : SettledIn(chain', rows'[j])}}
  BY DEF Settled, SettledOn, SettledIn
<1>3. Settled' = {Key(rows'[i]) : i \in 1..c}
  <2> DEFINE r == rows'
             ch == chain'
  <2>1. r \in Seq(DbRow) /\ c \in 0..Len(r) /\ \A i \in 1..Len(r) : SettledIn(ch, r[i]) <=> i <= c
    BY <1>1 DEF SettledUpTo
  <2> HIDE DEF r, ch
  <2>2. {Key(r[i]) : i \in {j \in DOMAIN r : SettledIn(ch, r[j])}} = {Key(r[i]) : i \in 1..c}
    BY <2>1, SettledRows
  <2> QED
    BY <1>2, <2>2 DEF r, ch
<1>4. Len(Log') = Len(rows') /\ \A i \in 1..c : Log'[i] = Key(rows'[i])
  BY <1>1 DEF Log
<1> QED
  BY <1>1, <1>3, <1>4

\* While a batch is in the mempool everything that is settled is acknowledged.
LEMMA AcknowledgedBefore ==
    ASSUME Ordered, NEW k \in DOMAIN txs, txs[k].status = "mempool"
    PROVE  CommittedKeys = Settled
<1>1. PICK d \in Drivers : driver[d].pc = "wait" /\ driver[d].tx = k
  BY DEF Ordered, BatchHeld
<1>2. \A e \in Drivers : e = d
  BY DEF Ordered, Undisturbed
<1>3. ASSUME NEW i \in DOMAIN rows PROVE rows[i].status = "committed" <=> SettledOn(rows[i])
  <2>1. SettledOn(rows[i]) <=> SettledIn(chain, rows[i])
    BY DEF SettledOn, SettledIn
  <2>2. rows[i].status = "committed" => SettledOn(rows[i])
    BY DEF Ordered, CommittedAccepted, RowsWith
  <2>3. SettledIn(chain, rows[i]) => rows[i].status = "committed"
    BY <1>1, <1>2 DEF Ordered, SettledHeld
  <2> QED
    BY <2>1, <2>2, <2>3
<1>4. CommittedKeys = {Key(rows[i]) : i \in {j \in DOMAIN rows : rows[j].status = "committed"}}
  BY DEF CommittedKeys, RowsWith
<1> QED
  BY <1>3, <1>4 DEF Settled

\* So it is again once the rows of the accepted batch are committed.
LEMMA AcknowledgedAfter ==
    ASSUME Ordered, Ordered', [Next]_vars, NEW d \in Drivers, CommitRows(d)
    PROVE  CommittedKeys' = Settled'
<1>1. \A e \in Drivers : e = d
  BY DEF Ordered, Undisturbed
<1>2. driver'[d].pc = "commitCursor"
  BY GotoDriverEffect DEF CommitRows, Ordered
<1>3. ASSUME NEW i \in DOMAIN rows'
      PROVE  rows'[i].status = "committed" <=> SettledOn(rows[i])'
  <2>1. SettledOn(rows[i])' <=> SettledIn(chain', rows'[i])
    BY DEF SettledOn, SettledIn
  <2>2. rows'[i].status = "committed" => SettledOn(rows[i])'
    BY DEF Ordered, CommittedAccepted, RowsWith
  <2>3. SettledIn(chain', rows'[i]) => rows'[i].status = "committed"
    BY <1>1, <1>2 DEF Ordered, SettledHeld
  <2> QED
    BY <2>1, <2>2, <2>3
<1>4. CommittedKeys' = {Key(rows'[i]) : i \in {j \in DOMAIN rows' : rows'[j].status = "committed"}}
  BY DEF CommittedKeys, RowsWith
<1>5. Settled' = {Key(rows'[i]) : i \in {j \in DOMAIN rows' : SettledOn(rows[j])'}}
  BY DEF Settled
<1> QED
  BY <1>3, <1>4, <1>5

\* Only CommitRows acknowledges, and nothing takes an acknowledgement back.
LEMMA AcknowledgedStep ==
    ASSUME Ordered, [Next]_vars, ~\E d \in Drivers : CommitRows(d)
    PROVE  CommittedKeys' = CommittedKeys
<1>1. Types /\ Types' /\ Named /\ Once /\ Uncommitted /\ Fresh
  BY OrderedStep DEF Ordered
<1>2. /\ CommittedKeys = {Key(rows[i]) : i \in {j \in DOMAIN rows : rows[j].status = "committed"}}
      /\ CommittedKeys' = {Key(rows'[i]) : i \in {j \in DOMAIN rows' : rows'[j].status = "committed"}}
  BY DEF CommittedKeys, RowsWith
<1>3. \A i \in DOMAIN rows : rows[i].status = "committed"
        => i \in DOMAIN rows' /\ Key(rows'[i]) = Key(rows[i]) /\ rows'[i].status = "committed"
  BY <1>1, CommittedRow
<1>4. \A i \in DOMAIN rows' : rows'[i].status = "committed"
        => i \in DOMAIN rows /\ Key(rows'[i]) = Key(rows[i]) /\ rows[i].status = "committed"
  BY <1>1, NewlyCommitted
<1> QED
  BY <1>2, <1>3, <1>4

\* A saved row is accepted, an accepted batch settles a stretch of the log, CommitRows
\* acknowledges it, and every other step is invisible.
LEMMA LedgerStep ==
    ASSUME Ordered, [Next]_vars
    PROVE  [Ledger!Next]_(Ledger!vars)
<1> DEFINE Ops == {"deposit"} \X Deposits \cup {"withdrawal"} \X (1..MaxWithdrawals)
<1>0. Ordered' /\ Types /\ Types'
  BY OrderedStep DEF Ordered
<1>1. PICK c \in 0..Len(rows) : SettledUpTo(c)
  BY DEF Ordered, SettledPrefix
<1>2. /\ Settled = {Log[i] : i \in 1..c} /\ c \in 0..Len(Log) /\ Len(Log) = Len(rows)
      /\ Len(rows) \in Nat /\ rows \in Seq(DbRow)
  <2>1. Types /\ SettledUpTo(c)
    BY <1>0, <1>1
  <2>2. Settled = {Log[i] : i \in 1..c} /\ c \in 0..Len(Log) /\ Len(Log) = Len(rows)
    BY <2>1, SettledIsPrefix
  <2>3. Len(rows) \in Nat /\ rows \in Seq(DbRow)
    BY <2>1 DEF Types
  <2> QED
    BY <2>2, <2>3
<1>3. ASSUME chain' = chain PROVE Settled' = Settled
  <2>1. SettledUpTo(c)'
    BY <1>0, <1>1, <1>3, SettledSame DEF Ordered
  <2>2. Settled' = {Log'[i] : i \in 1..c}
    BY <1>0, <2>1, SettledIsPrefixNext
  <2>3. \A i \in 1..c : Log'[i] = Log[i]
    <3>1. \A i \in 1..c : i \in 1..Len(rows) /\ Log[i] = Key(rows[i])
      BY <1>0, <1>1, <1>2, SettledIsPrefix
    <3>2. \A i \in 1..Len(rows) : i \in 1..Len(rows') /\ Key(rows'[i]) = Key(rows[i])
      BY <1>0, RowStays DEF Ordered, SameRow, SameOp, Key
    <3>3. \A i \in 1..Len(rows') : Log'[i] = Key(rows'[i])
      BY <1>0 DEF Types, Log
    <3> QED
      BY <3>1, <3>2, <3>3
  <2> QED
    BY <1>2, <2>2, <2>3
<1>4. Ledger!vars = <<Log, Settled, CommittedKeys>>
  BY DEF Ledger!vars, Log, Settled
<1>5. ASSUME Log' = Log, Settled' = Settled, CommittedKeys' = CommittedKeys
      PROVE  UNCHANGED Ledger!vars
  BY <1>4, <1>5 DEF Ledger!vars, Log, Settled
<1>6. ASSUME NEW h \in Handlers, SaveOperation(h) PROVE Ledger!Next
  <2> DEFINE x == handler[h].row
             key == Key(x)
  <2>1. chain' = chain /\ UNCHANGED driver /\ handler[h].pc = "save"
    BY <1>6 DEF SaveOperation
  <2>2. ~\E d \in Drivers : CommitRows(d)
    BY <1>0, <2>1, GotoDriverEffect DEF CommitRows
  <2>3. Settled' = Settled /\ CommittedKeys' = CommittedKeys
    BY <1>3, <2>1, <2>2, AcknowledgedStep
  <2>4. Log' = Append(Log, key) /\ \A i \in 1..Len(Log) : Log[i] # key
    <3>1. Log' # Log
      <4>1. rows' = Append(rows, x)
        BY <1>0, <1>6, SaveAppends DEF Ordered
      <4>2. x \in DbRow
        BY <1>0, <2>1 DEF Types, HandlerState, IdleHandler
      <4> HIDE DEF x
      <4>3. DOMAIN rows' # DOMAIN rows
        BY <1>2, <4>1, <4>2
      <4> QED
        BY <4>3 DEF Log
    <3>2. \A g \in Handlers : g = h
      BY DEF Ordered, Orderly
    <3> QED
      BY <3>1, <3>2, LogStep
  <2>5. key \in Ops
    <3>1. x \in DbRow /\ x \in Known
      BY <1>0, <2>1 DEF Types, HandlerState, IdleHandler, Known
    <3>2. x.kind = "withdrawal" => x.id \in 1..wdSeq
      BY <3>1 DEF Ordered, Named
    <3>3. x.kind = "withdrawal" => x.id \in 1..MaxWithdrawals
      BY <1>0, <3>2, SettlementAssumption DEF Types
    <3>4. x.kind \in {"deposit", "withdrawal"} /\ (x.kind = "deposit" => x.id \in Deposits)
      BY <3>1 DEF DbRow, Row
    <3> HIDE DEF x
    <3> QED
      BY <3>3, <3>4 DEF Key
  <2> HIDE DEF key
  <2>6. Ledger!Accept(key)
    BY <2>3, <2>4 DEF Ledger!Accept, Ledger!Prefix, Log, Settled
  <2> QED
    BY <2>5, <2>6 DEF Ledger!Next
<1>7. ASSUME NEW k \in DOMAIN txs, Deliver(k), txs'[k].status = "accepted" PROVE Ledger!Next
  <2> DEFINE ops == txs[k].batch.ops
             m == Len(ops)
  <2>1. UNCHANGED rows /\ txs[k].status = "mempool"
    BY <1>0, <1>7, DeliverEffect DEF database
  <2>2. Log' = Log /\ CommittedKeys' = CommittedKeys
    BY <2>1 DEF Log, CommittedKeys, RowsWith
  <2>3. CommittedKeys = Settled
    BY <1>7, <2>1, AcknowledgedBefore
  <2>4. Stretch(rows, c, ops) /\ ops \in Seq(DbRow) /\ Len(ops) >= 1 /\ OneWithdrawal(ops)
    BY <1>1, <1>7, DeliverStretch DEF Ordered
  <2>5. PICK n \in 0..Len(rows) : n = c + m /\ SettledUpTo(n)'
    BY <1>0, <1>1, <1>7, SettledStretch DEF Ordered
  <2>6. m \in Nat /\ m >= 1 /\ c \in Nat /\ n \in 1..Len(Log)
    BY <1>2, <2>4, <2>5
  <2>7. Settled' = {Log[i] : i \in 1..n}
    BY <1>0, <2>2, <2>5, SettledIsPrefixNext
  <2>8. Settled \subseteq {Log[i] : i \in 1..n}
    <3>1. \A i \in 1..c : i \in 1..n
      BY <2>5, <2>6
    <3> QED
      BY <1>2, <3>1
  <2>9. \A i \in 1..Len(rows) : Log[i] = Key(rows[i]) /\ i \in DOMAIN rows
    BY <1>2 DEF Log
  <2>10. Settled # {Log[i] : i \in 1..n}
    <3>1. c + 1 \in 1..n /\ c + 1 \in 1..Len(rows)
      BY <1>2, <2>5, <2>6
    <3>2. ASSUME NEW i \in 1..c, Log[i] = Log[c + 1] PROVE FALSE
      <4>1. i \in 1..Len(rows) /\ i # c + 1
        BY <1>2, <2>6
      <4>2. Key(rows[i]) = Key(rows[c + 1])
        BY <2>9, <3>1, <3>2, <4>1
      <4> QED
        BY <1>0, <2>9, <3>1, <4>1, <4>2, OneRow DEF Ordered
    <3> QED
      BY <1>2, <3>1, <3>2
  <2>11. ASSUME NEW i \in 1..(n - 1), Log[i][1] = "withdrawal" PROVE Log[i] \in Settled
    <3>1. i \in 1..Len(rows)
      BY <1>2, <2>6
    <3>2. CASE i <= c
      <4>1. i \in 1..c
        BY <2>6, <3>1, <3>2
      <4> QED
        BY <1>2, <4>1
    <3>3. CASE ~(i <= c)
      <4>1. i - c \in 1..m /\ i - c # m /\ c + (i - c) = i
        BY <2>5, <2>6, <3>3
      <4>2. SameRow(rows[i], ops[i - c])
        BY <2>4, <4>1 DEF Stretch
      <4>3. rows[i].kind = "withdrawal"
        BY <2>9, <2>11, <3>1 DEF Key
      <4>4. ops[i - c].kind = "withdrawal"
        BY <4>2, <4>3 DEF SameRow, SameOp
      <4> QED
        BY <2>4, <4>1, <4>4 DEF OneWithdrawal
    <3> QED
      BY <3>2, <3>3
  <2> HIDE DEF m, ops
  <2>12. Ledger!Settle(n)
    BY <2>2, <2>3, <2>7, <2>8, <2>10, <2>11
       DEF Ledger!Settle, Ledger!Prefix, Ledger!IsWithdrawal, Log, Settled
  <2> QED
    BY <2>6, <2>12 DEF Ledger!Next, Log
<1>8. ASSUME NEW d \in Drivers, CommitRows(d) PROVE [Ledger!Next]_(Ledger!vars)
  <2>1. chain' = chain /\ UNCHANGED handler /\ driver[d].pc = "commit"
    BY <1>8 DEF CommitRows
  <2>2. Settled' = Settled /\ CommittedKeys' = Settled
    BY <1>0, <1>3, <1>8, <2>1, AcknowledgedAfter
  <2>3. ~\E h \in Handlers : SaveOperation(h)
    BY <1>0, <2>1, GotoHandlerEffect DEF SaveOperation
  <2>4. Log' = Log
    BY <2>3, LogStep
  <2>5. CASE CommittedKeys = Settled
    BY <1>5, <2>2, <2>4, <2>5
  <2>6. CASE CommittedKeys # Settled
    <3>1. Ledger!Acknowledge
      BY <2>2, <2>4, <2>6 DEF Ledger!Acknowledge, Log, Settled
    <3> QED
      BY <3>1 DEF Ledger!Next
  <2> QED
    BY <2>5, <2>6
<1>9. CASE /\ chain' = chain
           /\ ~\E h \in Handlers : SaveOperation(h)
           /\ ~\E d \in Drivers : CommitRows(d)
  BY <1>3, <1>5, <1>9, LogStep, AcknowledgedStep
<1> QED
  BY <1>0, <1>6, <1>7, <1>8, <1>9, ChainStep

\* The initial state is the empty ledger.
LEMMA LedgerInit ==
    ASSUME Init
    PROVE  Ledger!Init
<1>1. rows = <<>>
  BY DEF Init
<1>2. DOMAIN rows = {}
  BY <1>1
<1>3. Log = <<>>
  BY <1>2 DEF Log
<1>4. Settled = {} /\ CommittedKeys = {}
  BY <1>2 DEF Settled, CommittedKeys, RowsWith
<1> QED
  BY <1>3, <1>4 DEF Ledger!Init, Log, Settled

\* With one handler, one driver and no failure, cancel or restart, settlement implements
\* the ledger it promises: operations are settled in the order in which they were
\* recorded, each once, at most one withdrawal at a time and at its end, and what was
\* settled is acknowledged before the next stretch is.
THEOREM LedgerTheorem ==
    ASSUME \A g, h \in Handlers : g = h, \A d, e \in Drivers : d = e,
           MaxFaults = 0, MaxRestarts = 0, ~OperatorCancels
    PROVE  Spec => ImplementsLedger
<1>1. Init => Ordered
  BY InitOrdered
<1>2. Ordered /\ [Next]_vars => Ordered'
  BY OrderedStep
<1>3. Init => Ledger!Init
  BY LedgerInit
<1>4. Ordered /\ [Next]_vars => [Ledger!Next]_(Ledger!vars)
  BY LedgerStep
<1> QED
  BY <1>1, <1>2, <1>3, <1>4, PTL DEF Spec, ImplementsLedger, Ledger!Spec

-----------------------------------------------------------------------------
(* What the witness builder adds up *)

\* The amounts of the operations at some positions, and what they add up to.
Weights(t, X) == [i \in X |-> t[i].amount]

AmountIn(t, X) == MapThenSumSet(LAMBDA i : t[i].amount, X)

\* It is a sum, in the order MapThenSumSet happens to take.
LEMMA AmountSum ==
    ASSUME NEW n \in Nat, NEW t, \A i \in 1..n : t[i].amount \in Nat, NEW X \in SUBSET (1..n)
    PROVE  /\ IsFiniteSet(X)
           /\ \E g : Sums(g, Weights(t, X), X) /\ AmountIn(t, X) = g[X]
<1> DEFINE w == Weights(t, X)
           Pick(s) == CHOOSE y \in s : TRUE
           Def(g) == [s \in SUBSET X |-> IF s = {} THEN 0
                                         ELSE t[Pick(s)].amount + g[s \ {Pick(s)}]]
           iter == CHOOSE g : g = Def(g)
<1>1. AmountIn(t, X) = iter[X]
  BY DEF AmountIn, MapThenSumSet, MapThenFoldSet
<1>2. IsFiniteSet(X)
  <2>1. IsFiniteSet(1..n)
    BY FS_Interval
  <2> QED
    BY <2>1, FS_Subset
<1>3. w \in [X -> Nat] /\ \A x \in X : w[x] = t[x].amount
  BY DEF Weights
<1> HIDE DEF w
<1>4. PICK f : Sums(f, w, X)
  BY <1>2, <1>3, SumExists
<1>5. ASSUME NEW s \in SUBSET X, s # {} PROVE Pick(s) \in X
  BY <1>5
<1>6. f = Def(f)
  <2>1. f \in [SUBSET X -> Nat] /\ f[{}] = 0
    BY <1>4 DEF Sums
  <2>2. ASSUME NEW s \in SUBSET X, s # {}
        PROVE  f[s] = t[Pick(s)].amount + f[s \ {Pick(s)}]
    <3>1. f[s] = w[Pick(s)] + f[s \ {Pick(s)}]
      BY <1>4, <2>2 DEF Sums
    <3> HIDE DEF Pick
    <3> QED
      BY <3>1, <1>3, <1>5, <2>2
  <2> HIDE DEF Pick
  <2> QED
    BY <2>1, <2>2
<1>7. iter = Def(iter)
  <2> HIDE DEF Def
  <2> QED
    BY <1>6
<1> HIDE DEF iter
<1>8. Iterates(iter, w, X)
  <2>1. \A s \in SUBSET X : s # {} => w[Pick(s)] = t[Pick(s)].amount
    BY <1>3
  <2>2. iter = [s \in SUBSET X |-> IF s = {} THEN 0 ELSE w[Pick(s)] + iter[s \ {Pick(s)}]]
    <3> HIDE DEF Pick
    <3> QED
      BY <1>7, <2>1
  <2> QED
    BY <2>2 DEF Iterates
<1>9. iter = f
  BY <1>2, <1>3, <1>4, <1>8, SumIterates
<1> QED
  BY <1>1, <1>2, <1>4, <1>9 DEF w

\* Nothing adds up to nothing, and one more operation adds its amount.
LEMMA AmountGrows ==
    ASSUME NEW n \in Nat, NEW t, \A i \in 1..n : t[i].amount \in Nat, NEW X \in SUBSET (1..n)
    PROVE  /\ AmountIn(t, X) \in Nat
           /\ X = {} => AmountIn(t, X) = 0
           /\ \A x \in 1..n : x \notin X => AmountIn(t, X \cup {x}) = AmountIn(t, X) + t[x].amount
<1>1. PICK g : Sums(g, Weights(t, X), X) /\ AmountIn(t, X) = g[X]
  BY AmountSum
<1>2. X \in SUBSET X /\ IsFiniteSet(X)
  BY AmountSum
<1>3. g \in [SUBSET X -> Nat] /\ g[{}] = 0
  BY <1>1 DEF Sums
<1>4. ASSUME NEW x \in 1..n, x \notin X
      PROVE  AmountIn(t, X \cup {x}) = AmountIn(t, X) + t[x].amount
  <2>1. PICK T \in SUBSET (1..n) : T = X \cup {x}
    OBVIOUS
  <2>2. PICK h : Sums(h, Weights(t, T), T) /\ AmountIn(t, T) = h[T]
    BY AmountSum
  <2> DEFINE w == Weights(t, T)
             v == Weights(t, X)
  <2>3. w \in [T -> Nat] /\ w[x] = t[x].amount
    BY <2>1 DEF Weights
  <2>4. v = [y \in X |-> w[y]]
    BY <2>1 DEF Weights
  <2>5. Sums(h, w, T) /\ Sums(g, v, X)
    BY <1>1, <2>2
  <2> HIDE DEF w, v
  <2>6. h[T] = g[X] + w[x]
    BY <1>2, <1>4, <2>1, <2>3, <2>4, <2>5, SumAdd
  <2> QED
    BY <1>1, <2>1, <2>2, <2>3, <2>6
<1>5. AmountIn(t, X) \in Nat /\ (X = {} => AmountIn(t, X) = 0)
  BY <1>1, <1>2, <1>3
<1> QED
  BY <1>4, <1>5, Zenon

-----------------------------------------------------------------------------
(* What ListPendingSettlement lists *)

\* f lists the pending rows of a kind among the first n: element k is row at[k], none
\* is listed twice and none is left out.
Lists(f, r, kind, n, at) ==
    /\ at \in [1..Len(f) -> 1..n]
    /\ \A k \in 1..Len(f) : /\ f[k] = r[at[k]]
                            /\ r[at[k]].kind = kind /\ r[at[k]].status = "pending"
    /\ \A j, k \in 1..Len(f) : at[j] = at[k] => j = k
    /\ \A i \in 1..n : r[i].kind = kind /\ r[i].status = "pending"
                         => \E k \in 1..Len(f) : at[k] = i

Listed(f, r, kind, n) == \E at : Lists(f, r, kind, n, at)

\* One more row is listed or passed over.
LEMMA ListedNext ==
    ASSUME NEW S, NEW r \in Seq(S), NEW kind, NEW n \in Nat, n + 1 \in 1..Len(r),
           NEW f \in Seq(S), Listed(f, r, kind, n)
    PROVE  /\ r[n + 1].kind = kind /\ r[n + 1].status = "pending"
                => Listed(Append(f, r[n + 1]), r, kind, n + 1)
           /\ ~(r[n + 1].kind = kind /\ r[n + 1].status = "pending") => Listed(f, r, kind, n + 1)
<1>1. PICK at : Lists(f, r, kind, n, at)
  BY DEF Listed
<1>2. PICK L \in Nat : L = Len(f)
  OBVIOUS
<1>3. /\ at \in [1..L -> 1..n]
      /\ \A k \in 1..L : f[k] = r[at[k]] /\ r[at[k]].kind = kind /\ r[at[k]].status = "pending"
  BY <1>1, <1>2 DEF Lists
<1>4. \A j, k \in 1..L : at[j] = at[k] => j = k
  BY <1>1, <1>2 DEF Lists
<1>5. \A i \in 1..n : r[i].kind = kind /\ r[i].status = "pending" => \E k \in 1..L : at[k] = i
  BY <1>1, <1>2 DEF Lists
<1>6. \A i \in 1..(n + 1) : i = n + 1 \/ i \in 1..n
  OBVIOUS
<1>7. ASSUME ~(r[n + 1].kind = kind /\ r[n + 1].status = "pending") PROVE Listed(f, r, kind, n + 1)
  <2>1. Lists(f, r, kind, n + 1, at)
    <3>1. at \in [1..L -> 1..(n + 1)]
      BY <1>3
    <3>2. \A i \in 1..(n + 1) : r[i].kind = kind /\ r[i].status = "pending" => \E k \in 1..L : at[k] = i
      BY <1>5, <1>6, <1>7
    <3> QED
      BY <1>2, <1>3, <1>4, <3>1, <3>2 DEF Lists
  <2> QED
    BY <2>1 DEF Listed
<1>8. ASSUME r[n + 1].kind = kind, r[n + 1].status = "pending"
      PROVE  Listed(Append(f, r[n + 1]), r, kind, n + 1)
  <2>1. PICK x \in S : x = r[n + 1]
    OBVIOUS
  <2> DEFINE g == Append(f, x)
             at2 == [k \in 1..(L + 1) |-> IF k = L + 1 THEN n + 1 ELSE at[k]]
  <2>2. Len(g) = L + 1 /\ g[L + 1] = x /\ \A k \in 1..L : g[k] = f[k]
    BY <1>2
  <2> HIDE DEF g
  <2>3. at2 \in [1..(L + 1) -> 1..(n + 1)]
    BY <1>3
  <2>4. at2[L + 1] = n + 1 /\ \A k \in 1..L : at2[k] = at[k]
    OBVIOUS
  <2> HIDE DEF at2
  <2>5. \A k \in 1..(L + 1) : k = L + 1 \/ k \in 1..L
    OBVIOUS
  <2>6. ASSUME NEW k \in 1..(L + 1)
        PROVE  g[k] = r[at2[k]] /\ r[at2[k]].kind = kind /\ r[at2[k]].status = "pending"
    BY <1>3, <1>8, <2>1, <2>2, <2>4, <2>5
  <2>7. ASSUME NEW j \in 1..(L + 1), NEW k \in 1..(L + 1), at2[j] = at2[k] PROVE j = k
    <3>1. \A m \in 1..L : at[m] # n + 1
      BY <1>3
    <3> QED
      BY <1>4, <2>4, <2>5, <2>7, <3>1
  <2>8. ASSUME NEW i \in 1..(n + 1), r[i].kind = kind, r[i].status = "pending"
        PROVE  \E k \in 1..(L + 1) : at2[k] = i
    <3>1. CASE i = n + 1
      BY <2>4, <3>1
    <3>2. CASE i \in 1..n
      <4>1. PICK k \in 1..L : at[k] = i
        BY <1>5, <2>8, <3>2
      <4>2. k \in 1..(L + 1) /\ at2[k] = i
        BY <2>4, <4>1
      <4> QED
        BY <4>2
    <3> QED
      BY <1>6, <3>1, <3>2
  <2>9. Lists(g, r, kind, n + 1, at2)
    <3>1. PICK M \in Nat : M = L + 1
      OBVIOUS
    <3>2. Len(g) = M
      BY <2>2, <3>1
    <3>3. at2 \in [1..M -> 1..(n + 1)]
      BY <2>3, <3>1
    <3>4. \A k \in 1..M : g[k] = r[at2[k]] /\ r[at2[k]].kind = kind /\ r[at2[k]].status = "pending"
      BY <2>6, <3>1
    <3>5. \A j, k \in 1..M : at2[j] = at2[k] => j = k
      BY <2>7, <3>1
    <3>6. \A i \in 1..(n + 1) : r[i].kind = kind /\ r[i].status = "pending"
                                  => \E k \in 1..M : at2[k] = i
      BY <2>8, <3>1
    <3> QED
      BY <3>2, <3>3, <3>4, <3>5, <3>6 DEF Lists
  <2> QED
    BY <2>1, <2>9 DEF Listed, g
<1> QED
  BY <1>7, <1>8

\* ListPendingSettlement lists every pending row of the kind, once.
LEMMA ListPendingListed ==
    ASSUME NEW S, NEW r \in Seq(S), NEW kind
    PROVE  /\ ListPending(r, kind) \in Seq(S)
           /\ Listed(ListPending(r, kind), r, kind, Len(r))
<1> DEFINE N == Len(r)
<1>1. PICK f : ListPending(r, kind) = f[N] /\ ListsUpTo(f, S, r, kind)
  BY ListPendingRecurs
<1>2. N \in Nat
  OBVIOUS
<1>3. \A n \in 0..N : f[n] \in Seq(S)
  <2> DEFINE W == {x \in S : x.kind = kind /\ x.status = "pending"}
  <2>1. \A n \in 0..N : f[n] \in Seq(W)
    BY <1>1 DEF ListsUpTo
  <2>2. W \subseteq S
    OBVIOUS
  <2> HIDE DEF W, N
  <2> QED
    BY <2>1, <2>2
<1> DEFINE T == {n \in 0..N : Listed(f[n], r, kind, n)}
<1>4. 0 \in T
  <2>1. f[0] = <<>>
    BY <1>1 DEF ListsUpTo
  <2>2. Lists(<<>>, r, kind, 0, [k \in {} |-> 0])
    BY DEF Lists
  <2> QED
    BY <1>2, <2>1, <2>2 DEF Listed
<1>5. ASSUME NEW n \in 0..N, n < N, n \in T PROVE n + 1 \in T
  <2>1. n \in Nat /\ n + 1 \in 1..Len(r) /\ n + 1 \in 0..N
    BY <1>2, <1>5
  <2>2. PICK g \in Seq(S) : g = f[n]
    BY <1>3
  <2>3. Listed(g, r, kind, n)
    BY <1>5, <2>2
  <2>4. /\ r[n + 1].kind = kind /\ r[n + 1].status = "pending"
             => Listed(Append(g, r[n + 1]), r, kind, n + 1)
        /\ ~(r[n + 1].kind = kind /\ r[n + 1].status = "pending") => Listed(g, r, kind, n + 1)
    BY <2>1, <2>3, ListedNext
  <2>5. PICK m \in 0..N : m = n + 1 /\ m # 0 /\ m - 1 = n
    BY <2>1
  <2>6. f[m] = IF r[m].kind = kind /\ r[m].status = "pending" THEN Append(g, r[m]) ELSE g
    BY <1>1, <2>2, <2>5 DEF ListsUpTo
  <2>7. Listed(f[m], r, kind, m)
    BY <2>4, <2>5, <2>6
  <2> QED
    BY <2>1, <2>5, <2>7
<1> HIDE DEF T, N
<1>6. \A n \in 0..N : n \in T
  BY <1>2, <1>4, <1>5, SetInduction
<1>7. Listed(f[N], r, kind, N) /\ f[N] \in Seq(S)
  BY <1>2, <1>3, <1>6 DEF T
<1> QED
  BY <1>1, <1>7 DEF N

\* Every pending row is listed once, and nothing else is.
AllListed(p, r, at) ==
    /\ at \in [1..Len(p) -> 1..Len(r)]
    /\ \A k \in 1..Len(p) : p[k] = r[at[k]] /\ r[at[k]].status = "pending"
    /\ \A j, k \in 1..Len(p) : at[j] = at[k] => j = k
    /\ \A i \in 1..Len(r) : r[i].status = "pending" => \E k \in 1..Len(p) : at[k] = i

\* The deposits and then the withdrawals are all there is.
LEMMA BothListed ==
    ASSUME NEW r \in Seq(DbRow)
    PROVE  LET p == ListPending(r, "deposit") \o ListPending(r, "withdrawal")
           IN  p \in Seq(DbRow) /\ \E at : AllListed(p, r, at)
<1> DEFINE D == ListPending(r, "deposit")
           W == ListPending(r, "withdrawal")
           N == Len(r)
<1>1. /\ D \in Seq(DbRow) /\ Listed(D, r, "deposit", N)
      /\ W \in Seq(DbRow) /\ Listed(W, r, "withdrawal", N)
  BY ListPendingListed
<1> HIDE DEF D, W
<1>2. PICK da : Lists(D, r, "deposit", N, da)
  BY <1>1 DEF Listed
<1>3. PICK wa : Lists(W, r, "withdrawal", N, wa)
  BY <1>1 DEF Listed
<1>4. PICK a \in Nat : a = Len(D)
  BY <1>1
<1>5. PICK b \in Nat : b = Len(W)
  BY <1>1
<1> DEFINE p == D \o W
           at == [k \in 1..(a + b) |-> IF k <= a THEN da[k] ELSE wa[k - a]]
<1>6. /\ p \in Seq(DbRow) /\ Len(p) = a + b
      /\ \A k \in 1..(a + b) : p[k] = IF k <= a THEN D[k] ELSE W[k - a]
  BY <1>1, <1>4, <1>5
<1> HIDE DEF p
<1>7. /\ da \in [1..a -> 1..N]
      /\ \A k \in 1..a : D[k] = r[da[k]] /\ r[da[k]].kind = "deposit" /\ r[da[k]].status = "pending"
  BY <1>2, <1>4 DEF Lists
<1>8. /\ wa \in [1..b -> 1..N]
      /\ \A k \in 1..b : /\ W[k] = r[wa[k]]
                         /\ r[wa[k]].kind = "withdrawal" /\ r[wa[k]].status = "pending"
  BY <1>3, <1>5 DEF Lists
<1>9. /\ \A j, k \in 1..a : da[j] = da[k] => j = k
      /\ \A i \in 1..N : r[i].kind = "deposit" /\ r[i].status = "pending" => \E k \in 1..a : da[k] = i
  BY <1>2, <1>4 DEF Lists
<1>10. /\ \A j, k \in 1..b : wa[j] = wa[k] => j = k
       /\ \A i \in 1..N : r[i].kind = "withdrawal" /\ r[i].status = "pending"
                            => \E k \in 1..b : wa[k] = i
  BY <1>3, <1>5 DEF Lists
<1>11. \A k \in 1..(a + b) : k \in 1..a \/ (~(k <= a) /\ k - a \in 1..b)
  BY <1>4, <1>5
<1>12. \A k \in 1..(a + b) : at[k] = IF k <= a THEN da[k] ELSE wa[k - a]
  OBVIOUS
<1>13. at \in [1..(a + b) -> 1..N]
  BY <1>7, <1>8, <1>11
<1> HIDE DEF at
<1>14. ASSUME NEW k \in 1..(a + b)
       PROVE  /\ p[k] = r[at[k]] /\ r[at[k]].status = "pending"
              /\ k <= a => r[at[k]].kind = "deposit"
              /\ ~(k <= a) => r[at[k]].kind = "withdrawal"
  <2>1. CASE k <= a
    BY <1>6, <1>7, <1>11, <1>12, <2>1
  <2>2. CASE ~(k <= a)
    <3>1. PICK m \in 1..b : m = k - a
      BY <1>11, <2>2
    <3>2. p[k] = W[m] /\ at[k] = wa[m]
      BY <1>6, <1>12, <2>2, <3>1
    <3> QED
      BY <1>8, <2>2, <3>2
  <2> QED
    BY <2>1, <2>2
<1>15. ASSUME NEW j \in 1..(a + b), NEW k \in 1..(a + b), at[j] = at[k] PROVE j = k
  <2>1. j <= a <=> k <= a
    BY <1>14, <1>15
  <2>2. CASE j <= a
    BY <1>9, <1>11, <1>12, <1>15, <2>1, <2>2
  <2>3. CASE ~(j <= a)
    <3>1. wa[j - a] = wa[k - a] /\ j - a \in 1..b /\ k - a \in 1..b
      BY <1>11, <1>12, <1>15, <2>1, <2>3
    <3>2. j - a = k - a
      BY <1>10, <3>1
    <3> QED
      BY <3>2
  <2> QED
    BY <2>2, <2>3
<1>16. ASSUME NEW i \in 1..N, r[i].status = "pending" PROVE \E k \in 1..(a + b) : at[k] = i
  <2>1. r[i].kind \in {"deposit", "withdrawal"}
    <3>1. r[i] \in DbRow
      OBVIOUS
    <3> QED
      BY <3>1 DEF DbRow, Row
  <2>2. CASE r[i].kind = "deposit"
    <3>1. PICK k \in 1..a : da[k] = i
      BY <1>9, <1>16, <2>2
    <3>2. k \in 1..(a + b) /\ k <= a
      OBVIOUS
    <3> QED
      BY <1>12, <3>1, <3>2
  <2>3. CASE r[i].kind = "withdrawal"
    <3>1. PICK m \in 1..b : wa[m] = i
      BY <1>10, <1>16, <2>3
    <3>2. PICK k \in 1..(a + b) : k = a + m /\ ~(k <= a) /\ k - a = m
      OBVIOUS
    <3> QED
      BY <1>12, <3>1, <3>2
  <2> QED
    BY <2>1, <2>2, <2>3
<1>17. AllListed(p, r, at)
  <2>1. PICK L \in Nat : L = a + b
    OBVIOUS
  <2>2. Len(p) = L
    BY <1>6, <2>1
  <2>3. at \in [1..L -> 1..N] /\ \A k \in 1..L : p[k] = r[at[k]] /\ r[at[k]].status = "pending"
    BY <1>13, <1>14, <2>1
  <2>4. /\ \A j, k \in 1..L : at[j] = at[k] => j = k
        /\ \A i \in 1..N : r[i].status = "pending" => \E k \in 1..L : at[k] = i
    BY <1>15, <1>16, <2>1
  <2> QED
    BY <2>2, <2>3, <2>4 DEF AllListed
<1> QED
  BY <1>6, <1>17 DEF p, D, W

-----------------------------------------------------------------------------
(* The walk takes every pending row, in the order in which they were recorded *)

\* The rows after the first c are those pending; they are listed, whatever the order.
LEMMA WalkTakesAll ==
    ASSUME NEW r \in Seq(DbRow), RowsChain(r),
           \A i \in 1..Len(r) : r[i].rootBefore # RootAt(r, Len(r)),
           NEW c \in 0..Len(r), \A i \in 1..Len(r) : r[i].status = "pending" <=> c < i,
           NEW p \in Seq(DbRow), NEW at, AllListed(p, r, at)
    PROVE  LET o == OrderPending(RootAt(r, c), p)
           IN  /\ DistinctRootBefore(p)
               /\ o \in Seq(DbRow) /\ Len(o) = Len(p) /\ c + Len(o) <= Len(r)
               /\ \A k \in 1..Len(o) : o[k] = r[c + k]
               /\ ChainsFrom(o, RootAt(r, c))
<1> DEFINE N == Len(r)
           L == Len(p)
           E == {p[i] : i \in DOMAIN p}
           root == RootAt(r, c)
           o == OrderPending(root, p)
<1>1. N \in Nat /\ L \in Nat /\ DOMAIN p = 1..L /\ DOMAIN r = 1..N /\ c \in Nat
  OBVIOUS
<1>2. o \in Seq(E) /\ ChainsFrom(o, root) /\ WalkDone(o, L, p, root)
  BY OrderPendingChains
<1> HIDE DEF o
<1>3. /\ at \in [1..L -> 1..N]
      /\ \A k \in 1..L : p[k] = r[at[k]] /\ r[at[k]].status = "pending"
  BY DEF AllListed
<1>4. /\ \A j, k \in 1..L : at[j] = at[k] => j = k
      /\ \A i \in 1..N : r[i].status = "pending" => \E k \in 1..L : at[k] = i
  BY DEF AllListed
<1>5. DistinctRootBefore(p)
  <2> SUFFICES ASSUME NEW j \in 1..L, NEW k \in 1..L, p[j].rootBefore = p[k].rootBefore
               PROVE  j = k
    BY <1>1 DEF DistinctRootBefore
  <2>1. /\ at[j] \in 1..N /\ at[k] \in 1..N
        /\ r[at[j]].rootBefore = r[at[k]].rootBefore
    BY <1>3
  <2>2. at[j] = at[k]
    BY <2>1 DEF RowsChain
  <2> QED
    BY <1>4, <2>2
<1>6. E \subseteq DbRow /\ \A e \in E : \E i \in 1..N : e = r[i]
  BY <1>1, <1>3
<1> HIDE DEF E
<1>7. o \in Seq(DbRow) /\ Len(o) \in Nat
  BY <1>2, <1>6
<1>8. \A k \in 1..Len(o) : \E i \in 1..N : o[k] = r[i]
  BY <1>2, <1>6
<1>9. CopiedIn(r, o)
  <2>1. \A x : SameRow(x, x)
    BY DEF SameRow, SameOp
  <2> QED
    BY <1>8, <2>1 DEF CopiedIn
<1>10. Stretch(r, c, o)
  <2>1. ChainsFrom(o, RootAt(r, c))
    BY <1>2
  <2> HIDE DEF root
  <2> QED
    BY <1>7, <1>9, <2>1, BatchStretch
<1>11. c + Len(o) <= N
  BY <1>10 DEF Stretch
<1>12. ASSUME NEW k \in 1..Len(o) PROVE o[k] = r[c + k]
  <2>1. PICK i \in 1..N : o[k] = r[i]
    BY <1>8
  <2>2. o[k].rootBefore = r[c + k].rootBefore /\ c + k \in 1..N
    BY <1>1, <1>7, <1>10, <1>11 DEF Stretch, SameRow
  <2>3. i = c + k
    BY <2>1, <2>2 DEF RowsChain
  <2> QED
    BY <2>1, <2>3
<1>13. L <= N - c
  <2> DEFINE T == (c + 1)..N
  <2>1. at \in [1..L -> T]
    <3>1. \A k \in 1..L : at[k] \in 1..N /\ c < at[k]
      BY <1>3
    <3>2. \A k \in 1..L : at[k] \in T
      BY <1>1, <3>1
    <3> QED
      BY <1>3, <3>2
  <2>2. at \in Injection(1..L, T)
    BY <1>4, <2>1 DEF Injection, IsInjective
  <2>3. IsFiniteSet(T) /\ Cardinality(T) = N - c
    <3>1. PICK a \in Nat : a = c + 1
      BY <1>1
    <3> HIDE DEF N
    <3>2. IsFiniteSet(a..N) /\ Cardinality(a..N) = IF a > N THEN 0 ELSE N - a + 1
      <4>1. a \in Int /\ N \in Int
        BY <1>1
      <4> QED
        BY <4>1, FS_Interval, Zenon
    <3>3. T = a..N
      BY <3>1
    <3> QED
      BY <1>1, <3>1, <3>2, <3>3
  <2>4. IsFiniteSet(1..L) /\ Cardinality(1..L) = L
    <3> HIDE DEF L
    <3>1. 1 \in Int /\ L \in Int
      BY <1>1
    <3>2. IsFiniteSet(1..L) /\ Cardinality(1..L) = IF 1 > L THEN 0 ELSE L - 1 + 1
      BY <3>1, FS_Interval, Zenon
    <3> QED
      BY <1>1, <3>2
  <2> HIDE DEF T
  <2>5. Cardinality(1..L) <= Cardinality(T)
    BY <2>2, <2>3, FS_Injection
  <2> QED
    BY <2>3, <2>4, <2>5
<1>14. Len(o) = L
  <2>1. Len(o) <= L /\ (Len(o) = L \/ Follows(p, WalkEnd(o, root)) = {})
    BY <1>2 DEF WalkDone
  <2>2. ASSUME Len(o) < L PROVE FALSE
    <3>1. PICK n \in 1..N : n = c + Len(o) + 1
      BY <1>1, <1>7, <1>13, <2>2
    <3>2. r[n].rootBefore = RootAt(r, n - 1) /\ n - 1 = c + Len(o) /\ r[n].status = "pending"
      BY <1>1, <1>7, <3>1 DEF RowsChain
    <3>3. WalkEnd(o, root) = RootAt(r, n - 1)
      <4>1. CASE Len(o) = 0
        <5>1. o = <<>> /\ n - 1 = c
          BY <1>1, <1>7, <3>1, <4>1
        <5> QED
          BY <5>1 DEF WalkEnd
      <4>2. CASE Len(o) # 0
        <5>1. o # <<>> /\ Len(o) \in 1..Len(o) /\ n - 1 # 0
          BY <1>1, <1>7, <3>2, <4>2
        <5>2. o[Len(o)] = r[n - 1]
          BY <1>12, <3>2, <5>1
        <5> QED
          BY <5>1, <5>2 DEF WalkEnd, RootAt
      <4> QED
        BY <4>1, <4>2
    <3>4. PICK k \in 1..L : at[k] = n
      BY <1>4, <3>2
    <3>5. k \in Follows(p, WalkEnd(o, root))
      BY <1>1, <1>3, <3>2, <3>3, <3>4 DEF Follows
    <3> QED
      BY <1>7, <2>1, <2>2, <3>5
  <2> QED
    BY <1>1, <1>7, <2>1, <2>2
<1> QED
  BY <1>2, <1>5, <1>7, <1>11, <1>12, <1>14 DEF o, L, N, root

\* A batch of rows that follow each other changes the root.
LEMMA StretchMoves ==
    ASSUME NEW r \in Seq(DbRow), RowsChain(r),
           \A i \in 1..Len(r) : r[i].rootBefore # RootAt(r, Len(r)),
           NEW c \in 0..Len(r), NEW m \in Nat, m # 0, c + m <= Len(r)
    PROVE  RootAt(r, c) # r[c + m].rootAfter
<1> DEFINE N == Len(r)
<1>1. N \in Nat /\ c \in Nat /\ c + 1 \in 1..N /\ (c + 1) - 1 = c /\ c + m # 0
  OBVIOUS
<1>2. r[c + 1].rootBefore = RootAt(r, c) /\ r[c + m].rootAfter = RootAt(r, c + m)
  BY <1>1 DEF RowsChain, RootAt
<1>3. CASE c + m = N
  BY <1>1, <1>2, <1>3
<1>4. CASE c + m # N
  <2>1. PICK n \in 1..N : n = c + m + 1 /\ n - 1 = c + m /\ n # c + 1
    BY <1>1, <1>4
  <2>2. r[n].rootBefore = RootAt(r, c + m)
    BY <2>1 DEF RowsChain
  <2> QED
    BY <1>1, <1>2, <2>1, <2>2 DEF RowsChain
<1> QED
  BY <1>3, <1>4

-----------------------------------------------------------------------------
(* The balances of a chain of transitions add up *)

\* bal[k] is the balance of an account after k transitions, of which those at X are its own.
Moves(bal, t, m, X) ==
    /\ bal \in [0..m -> Nat]
    /\ \A k \in 1..m :
          /\ k \notin X => bal[k] = bal[k - 1]
          /\ k \in X /\ t[k].kind = "deposit" => bal[k] = bal[k - 1] + t[k].amount
          /\ k \in X /\ t[k].kind = "withdrawal" => bal[k] + t[k].amount = bal[k - 1]

\* Those of a kind among the first k.
UpTo(t, X, kind, k) == {i \in X : i <= k /\ t[i].kind = kind}

\* The balance is what it was, with the deposits and without the withdrawals.
AddsUp(bal, t, X, k) ==
    bal[k] + AmountIn(t, UpTo(t, X, "withdrawal", k)) = bal[0] + AmountIn(t, UpTo(t, X, "deposit", k))

\* One more transition of the kind, or one of another, or not of this account.
LEMMA UpToNext ==
    ASSUME NEW m \in Nat, NEW t, \A i \in 1..m : t[i].amount \in Nat, NEW X \in SUBSET (1..m),
           NEW kind, NEW k \in 1..m
    PROVE  /\ AmountIn(t, UpTo(t, X, kind, k)) \in Nat /\ AmountIn(t, UpTo(t, X, kind, k - 1)) \in Nat
           /\ k \in X /\ t[k].kind = kind
                => AmountIn(t, UpTo(t, X, kind, k)) = AmountIn(t, UpTo(t, X, kind, k - 1)) + t[k].amount
           /\ ~(k \in X /\ t[k].kind = kind) => UpTo(t, X, kind, k) = UpTo(t, X, kind, k - 1)
<1>1. PICK Y \in SUBSET (1..m) : Y = UpTo(t, X, kind, k - 1)
  BY DEF UpTo
<1>2. PICK Z \in SUBSET (1..m) : Z = UpTo(t, X, kind, k)
  BY DEF UpTo
<1>3. k \notin Y
  BY <1>1 DEF UpTo
<1>4. \A i \in 1..m : i <= k <=> (i <= k - 1 \/ i = k)
  OBVIOUS
<1>5. k \in X /\ t[k].kind = kind => Z = Y \cup {k}
  BY <1>1, <1>2, <1>4 DEF UpTo
<1>6. ~(k \in X /\ t[k].kind = kind) => Z = Y
  BY <1>1, <1>2, <1>4 DEF UpTo
<1>7. AmountIn(t, Y) \in Nat /\ AmountIn(t, Z) \in Nat
  BY AmountGrows
<1>8. AmountIn(t, Y \cup {k}) = AmountIn(t, Y) + t[k].amount
  BY <1>3, AmountGrows
<1> QED
  BY <1>1, <1>2, <1>5, <1>6, <1>7, <1>8, Zenon

\* So after any number of transitions.
LEMMA MovesAddUp ==
    ASSUME NEW m \in Nat, NEW t,
           \A i \in 1..m : t[i].amount \in Nat /\ t[i].kind \in {"deposit", "withdrawal"},
           NEW X \in SUBSET (1..m), NEW bal, Moves(bal, t, m, X)
    PROVE  \A k \in 0..m : AddsUp(bal, t, X, k)
<1> DEFINE T == {k \in 0..m : AddsUp(bal, t, X, k)}
           W(k) == AmountIn(t, UpTo(t, X, "withdrawal", k))
           D(k) == AmountIn(t, UpTo(t, X, "deposit", k))
<1>1. 0 \in T
  <2>1. PICK Y \in SUBSET (1..m) : Y = {}
    OBVIOUS
  <2>2. UpTo(t, X, "withdrawal", 0) = Y /\ UpTo(t, X, "deposit", 0) = Y
    <3>1. \A i \in X : ~(i <= 0)
      OBVIOUS
    <3> QED
      BY <2>1, <3>1 DEF UpTo
  <2> QED
    BY <2>2 DEF AddsUp
<1>4. \A i \in 1..m : t[i].amount \in Nat
  OBVIOUS
<1>2. ASSUME NEW n \in 0..m, n < m, n \in T PROVE n + 1 \in T
  <2>1. PICK k \in 1..m : k = n + 1 /\ k - 1 = n
    BY <1>2
  <2>2. bal[k] \in Nat /\ bal[n] \in Nat /\ bal[0] \in Nat /\ t[k].amount \in Nat
    BY <2>1 DEF Moves
  <2>3. /\ W(k) \in Nat /\ W(n) \in Nat
        /\ k \in X /\ t[k].kind = "withdrawal" => W(k) = W(n) + t[k].amount
        /\ ~(k \in X /\ t[k].kind = "withdrawal") => W(k) = W(n)
    <3>1. /\ W(k) \in Nat /\ W(k - 1) \in Nat
          /\ k \in X /\ t[k].kind = "withdrawal" => W(k) = W(k - 1) + t[k].amount
          /\ ~(k \in X /\ t[k].kind = "withdrawal")
               => UpTo(t, X, "withdrawal", k) = UpTo(t, X, "withdrawal", k - 1)
      BY <1>4, UpToNext, Zenon
    <3> QED
      BY <2>1, <3>1, Zenon
  <2>4. /\ D(k) \in Nat /\ D(n) \in Nat
        /\ k \in X /\ t[k].kind = "deposit" => D(k) = D(n) + t[k].amount
        /\ ~(k \in X /\ t[k].kind = "deposit") => D(k) = D(n)
    <3>1. /\ D(k) \in Nat /\ D(k - 1) \in Nat
          /\ k \in X /\ t[k].kind = "deposit" => D(k) = D(k - 1) + t[k].amount
          /\ ~(k \in X /\ t[k].kind = "deposit")
               => UpTo(t, X, "deposit", k) = UpTo(t, X, "deposit", k - 1)
      BY <1>4, UpToNext, Zenon
    <3> QED
      BY <2>1, <3>1, Zenon
  <2>5. bal[n] + W(n) = bal[0] + D(n)
    BY <1>2 DEF AddsUp
  <2>6. /\ k \notin X => bal[k] = bal[n]
        /\ k \in X /\ t[k].kind = "deposit" => bal[k] = bal[n] + t[k].amount
        /\ k \in X /\ t[k].kind = "withdrawal" => bal[k] + t[k].amount = bal[n]
    BY <2>1 DEF Moves
  <2>7. t[k].kind \in {"deposit", "withdrawal"} /\ "deposit" # "withdrawal"
    OBVIOUS
  <2> HIDE DEF W, D
  <2>8. bal[k] + W(k) = bal[0] + D(k)
    <3>1. PICK w0 \in Nat : w0 = W(n)
      BY <2>3
    <3>2. PICK w1 \in Nat : w1 = W(k)
      BY <2>3
    <3>3. PICK d0 \in Nat : d0 = D(n)
      BY <2>4
    <3>4. PICK d1 \in Nat : d1 = D(k)
      BY <2>4
    <3>5. PICK b0 \in Nat : b0 = bal[n]
      BY <2>2
    <3>6. PICK b1 \in Nat : b1 = bal[k]
      BY <2>2
    <3>7. PICK b \in Nat : b = bal[0]
      BY <2>2
    <3>8. PICK x \in Nat : x = t[k].amount
      BY <2>2
    <3>9. b0 + w0 = b + d0
      BY <2>5, <3>1, <3>3, <3>5, <3>7
    <3>10. CASE k \notin X
      <4>1. b1 = b0 /\ w1 = w0 /\ d1 = d0
        BY <2>3, <2>4, <2>6, <3>1, <3>2, <3>3, <3>4, <3>5, <3>6, <3>10
      <4> QED
        BY <3>2, <3>4, <3>6, <3>7, <3>9, <4>1
    <3>11. CASE k \in X /\ t[k].kind = "deposit"
      <4>1. b1 = b0 + x /\ w1 = w0 /\ d1 = d0 + x
        BY <2>3, <2>4, <2>6, <3>1, <3>2, <3>3, <3>4, <3>5, <3>6, <3>8, <3>11
      <4>2. b1 + w1 = b + d1
        BY <3>9, <4>1
      <4> QED
        BY <3>2, <3>4, <3>6, <3>7, <4>2
    <3>12. CASE k \in X /\ t[k].kind = "withdrawal"
      <4>1. b1 + x = b0 /\ w1 = w0 + x /\ d1 = d0
        BY <2>3, <2>4, <2>6, <3>1, <3>2, <3>3, <3>4, <3>5, <3>6, <3>8, <3>12
      <4>2. b1 + w1 = b + d1
        BY <3>9, <4>1
      <4> QED
        BY <3>2, <3>4, <3>6, <3>7, <4>2
    <3> QED
      BY <2>7, <3>10, <3>11, <3>12
  <2>9. AddsUp(bal, t, X, k)
    BY <2>8 DEF AddsUp, W, D
  <2>10. k \in 0..m
    OBVIOUS
  <2> QED
    BY <2>1, <2>9, <2>10
<1> HIDE DEF T
<1>3. \A k \in 0..m : k \in T
  BY <1>1, <1>2, SetInduction
<1> QED
  BY <1>3 DEF T

\* A row's balances are those of its account, at the root before it and at the one after.
BalanceAt(root, a, n) == \A A \in Accounting : IsRoot(root, A) => A[a].balance = n

\* What an operation does to the balance of an account.
LEMMA SettleBalance ==
    ASSUME NEW A \in Accounting, NEW r \in DbRow, SettleOp(A, r) \in Accounting, NEW a \in Accounts
    PROVE  /\ A[a].balance \in Nat /\ SettleOp(A, r)[a].balance \in Nat
           /\ r.acct # a => SettleOp(A, r)[a].balance = A[a].balance
           /\ r.acct = a /\ r.kind = "deposit"
                => SettleOp(A, r)[a].balance = A[a].balance + r.amount
           /\ r.acct = a /\ r.kind = "withdrawal"
                => SettleOp(A, r)[a].balance + r.amount = A[a].balance
<1> DEFINE B == SettleOp(A, r)
<1>1. r.amount \in Nat /\ r.kind \in {"deposit", "withdrawal"} /\ r.acct \in Accounts
  BY DEF DbRow, Row
<1>2. A[a].balance \in Nat /\ B[a].balance \in Nat
  BY DEF Accounting, Account
<1>3. CASE r.kind = "deposit"
  <2>1. B = Credit(A, r.acct, r.amount)
    BY <1>3 DEF SettleOp
  <2> QED
    BY <1>1, <1>2, <1>3, <2>1 DEF Credit, Accounting
<1>4. CASE r.kind = "withdrawal"
  <2>1. B = Debit(A, r.acct, r.amount)
    BY <1>4 DEF SettleOp
  <2>2. r.acct # a => B[a].balance = A[a].balance
    BY <1>1, <2>1 DEF Debit, Accounting
  <2>3. r.acct = a => B[a].balance = A[a].balance - r.amount
    BY <1>1, <2>1 DEF Debit, Accounting
  <2> HIDE DEF B
  <2>4. r.acct = a => B[a].balance + r.amount = A[a].balance
    BY <1>1, <1>2, <2>3
  <2> QED
    BY <1>2, <1>4, <2>2, <2>4 DEF B
<1> QED
  BY <1>1, <1>3, <1>4

\* The balances of one account along a chain of exact transitions.
Along(bal, t, a) ==
    /\ Moves(bal, t, Len(t), {i \in 1..Len(t) : t[i].acct = a})
    /\ \A k \in 1..Len(t) : \A n :
          /\ BalanceAt(t[k].rootBefore, a, n) => bal[k - 1] = n
          /\ BalanceAt(t[k].rootAfter, a, n) => bal[k] = n

\* Exact transitions that chain from a root determine them.
LEMMA ChainBalances ==
    ASSUME NEW t \in Seq(DbRow), Len(t) >= 1, NEW root, ChainsFrom(t, root), AllExact(t),
           NEW a \in Accounts
    PROVE  \E bal : Along(bal, t, a)
<1> DEFINE m == Len(t)
           R(k) == IF k = 0 THEN root ELSE t[k].rootAfter
           acc(k) == CHOOSE A \in Accounting : IsRoot(R(k), A)
           bal == [k \in 0..m |-> acc(k)[a].balance]
           X == {i \in 1..m : t[i].acct = a}
<1>1. m \in Nat /\ 1 \in 1..m /\ DOMAIN t = 1..m
  OBVIOUS
<1>2. ASSUME NEW k \in 1..m PROVE t[k].rootBefore = R(k - 1) /\ t[k].rootAfter = R(k)
  <2>1. t[k].rootBefore = IF k = 1 THEN root ELSE t[k - 1].rootAfter
    BY DEF ChainsFrom
  <2>2. k = 1 <=> k - 1 = 0
    OBVIOUS
  <2> QED
    BY <2>1, <2>2
<1> HIDE DEF R
<1>3. ASSUME NEW k \in 1..m
      PROVE  \E A \in Accounting : /\ IsRoot(R(k - 1), A) /\ SettleOp(A, t[k]) \in Accounting
                                   /\ IsRoot(R(k), SettleOp(A, t[k]))
  <2>1. RowExact(t[k])
    BY <1>1 DEF AllExact
  <2> QED
    BY <1>2, <2>1 DEF RowExact, IsRoot
<1>4. ASSUME NEW k \in 0..m PROVE acc(k) \in Accounting /\ IsRoot(R(k), acc(k))
  <2>1. \E A \in Accounting : IsRoot(R(k), A)
    <3>1. CASE k = 0
      <4>1. PICK j \in 1..m : j - 1 = 0
        BY <1>1
      <4> QED
        BY <1>3, <3>1, <4>1
    <3>2. CASE k # 0
      BY <1>3, <3>2
    <3> QED
      BY <3>1, <3>2
  <2> QED
    BY <2>1
<1> HIDE DEF acc
<1>5. ASSUME NEW k \in 1..m PROVE acc(k) = SettleOp(acc(k - 1), t[k]) /\ k - 1 \in 0..m /\ k \in 0..m
  <2>1. k - 1 \in 0..m /\ k \in 0..m
    OBVIOUS
  <2>2. PICK A \in Accounting : /\ IsRoot(R(k - 1), A) /\ SettleOp(A, t[k]) \in Accounting
                                /\ IsRoot(R(k), SettleOp(A, t[k]))
    BY <1>3
  <2>3. A = acc(k - 1)
    BY <1>4, <2>1, <2>2, RootInjective
  <2>4. SettleOp(A, t[k]) = acc(k)
    BY <1>4, <2>1, <2>2, RootInjective
  <2> QED
    BY <2>1, <2>3, <2>4
<1>6. \A k \in 0..m : bal[k] = acc(k)[a].balance /\ bal[k] \in Nat
  BY <1>4 DEF Accounting, Account
<1>7. bal \in [0..m -> Nat]
  BY <1>6
<1> HIDE DEF bal
<1>8. ASSUME NEW k \in 1..m
      PROVE  /\ k \notin X => bal[k] = bal[k - 1]
             /\ k \in X /\ t[k].kind = "deposit" => bal[k] = bal[k - 1] + t[k].amount
             /\ k \in X /\ t[k].kind = "withdrawal" => bal[k] + t[k].amount = bal[k - 1]
  <2>1. PICK A \in Accounting : A = acc(k - 1)
    BY <1>4, <1>5
  <2>2. SettleOp(A, t[k]) = acc(k) /\ SettleOp(A, t[k]) \in Accounting /\ t[k] \in DbRow
    BY <1>4, <1>5, <2>1
  <2>3. bal[k - 1] = A[a].balance /\ bal[k] = SettleOp(A, t[k])[a].balance
    BY <1>5, <1>6, <2>1, <2>2
  <2>4. k \in X <=> t[k].acct = a
    OBVIOUS
  <2> HIDE DEF X
  <2> QED
    BY <2>2, <2>3, <2>4, SettleBalance
<1>9. Moves(bal, t, m, X)
  BY <1>7, <1>8 DEF Moves
<1>10. ASSUME NEW k \in 1..m, NEW n
       PROVE  /\ BalanceAt(t[k].rootBefore, a, n) => bal[k - 1] = n
              /\ BalanceAt(t[k].rootAfter, a, n) => bal[k] = n
  <2>1. k - 1 \in 0..m /\ k \in 0..m
    OBVIOUS
  <2> QED
    BY <1>2, <1>4, <1>6, <2>1 DEF BalanceAt
<1>11. Along(bal, t, a)
  BY <1>9, <1>10 DEF Along
<1> QED
  BY <1>11

\* What the columns say: the balance before and, once it is filled in, the one after;
\* and the nullifier is that of the default secret and the nonce.
Opened(r) ==
    /\ BalanceAt(r.rootBefore, r.acct, r.balanceBefore)
    /\ r.nullifier = NullifierFor(DefaultSecret, r.nonce)

Balanced(r) == Opened(r) /\ BalanceAt(r.rootAfter, r.acct, r.balanceAfter)

\* A batch of balanced, exact and chained transitions, where an owner has one account,
\* passes the witness builder.
LEMMA BatchWitness ==
    ASSUME NEW t \in Seq(DbRow), Len(t) >= 1, NEW root, ChainsFrom(t, root), AllExact(t),
           \A k \in 1..Len(t) : Balanced(t[k]),
           \A a, b \in Accounts : a[1] = b[1] => a = b
    PROVE  CanWitness(t, DefaultSecret)
<1> DEFINE m == Len(t)
<1>1. m \in Nat /\ DOMAIN t = 1..m
  OBVIOUS
<1>2. NullifiersRederive(t, DefaultSecret)
  BY <1>1 DEF NullifiersRederive, Balanced, Opened
<1>3. ASSUME NEW j \in 1..m PROVE BalanceTransitionHolds(t, t[j].acct[1])
  <2>1. \A k \in 1..m : /\ t[k].acct \in Accounts /\ t[k].amount \in Nat
                        /\ t[k].kind \in {"deposit", "withdrawal"}
    <3>1. \A k \in 1..m : t[k] \in DbRow
      OBVIOUS
    <3> QED
      BY <3>1 DEF DbRow, Row
  <2>2. PICK a \in Accounts : a = t[j].acct
    BY <2>1
  <2>3. PICK bal : Along(bal, t, a)
    BY ChainBalances
  <2>4. PICK X \in SUBSET (1..m) : X = {i \in 1..m : t[i].acct = a}
    OBVIOUS
  <2>5. OfOwner(t, t[j].acct[1]) = X
    BY <1>1, <2>1, <2>2, <2>4 DEF OfOwner
  <2>6. Moves(bal, t, m, X)
    BY <2>3, <2>4 DEF Along
  <2>7. X # {}
    BY <2>2, <2>4
  <2>8. PICK p \in X : p = Max(X) /\ \A i \in X : i <= p
    BY <1>1, <2>7, MaxOf
  <2>9. PICK q \in X : q = Min(X) /\ \A i \in X : q <= i
    <3>1. X \in SUBSET Nat
      OBVIOUS
    <3>2. \E n \in X : \A k \in X : n <= k
      BY <2>7, <3>1, LeastElement
    <3> QED
      BY <3>2 DEF Min
  <2>10. t[p].acct = a /\ t[q].acct = a /\ p \in 1..m /\ q \in 1..m
    BY <2>4
  <2>11. bal[p] = t[p].balanceAfter /\ bal[q - 1] = t[q].balanceBefore
    BY <2>3, <2>10 DEF Along, Balanced, Opened
  <2>12. PICK z \in 0..m : z = q - 1
    BY <2>10
  <2>13. AddsUp(bal, t, X, p) /\ AddsUp(bal, t, X, z)
    <3>1. p \in 0..m
      BY <2>10
    <3> QED
      BY <1>1, <2>1, <2>6, <3>1, MovesAddUp
  <2>14. \A kind : UpTo(t, X, kind, p) = {i \in X : t[i].kind = kind}
    BY <2>8 DEF UpTo
  <2>15. \A kind : UpTo(t, X, kind, z) = {}
    <3>1. \A i \in X : ~(i <= z)
      BY <2>9, <2>12
    <3> QED
      BY <3>1 DEF UpTo
  <2>16. AmountIn(t, {}) = 0
    BY <1>1, <2>1, AmountGrows
  <2>17. bal[z] = bal[0] /\ bal[0] \in Nat /\ bal[z] \in Nat
    <3>1. bal[0] \in Nat /\ bal[z] \in Nat
      BY <1>1, <2>6 DEF Moves
    <3>2. bal[z] + 0 = bal[0] + 0
      BY <2>13, <2>15, <2>16 DEF AddsUp
    <3> QED
      BY <3>1, <3>2
  <2>18. \A kind : AmountOf(t, X, kind) = AmountIn(t, {i \in X : t[i].kind = kind})
    BY DEF AmountOf, AmountIn
  <2>19. bal[p] + AmountOf(t, X, "withdrawal") = bal[z] + AmountOf(t, X, "deposit")
    BY <2>13, <2>14, <2>17, <2>18 DEF AddsUp
  <2>20. t[Max(X)].balanceAfter + AmountOf(t, X, "withdrawal")
           = t[Min(X)].balanceBefore + AmountOf(t, X, "deposit")
    BY <2>8, <2>9, <2>11, <2>12, <2>19
  <2> QED
    BY <2>5, <2>20 DEF BalanceTransitionHolds
<1> QED
  BY <1>1, <1>2, <1>3 DEF CanWitness

-----------------------------------------------------------------------------
(* The columns of rows are what the manager held *)

AllBalanced ==
    /\ \A h \in Handlers :
          /\ handler[h].pc # "idle" => Opened(handler[h].row)
          /\ handler[h].pc \notin {"idle", "initCursor", "apply", "snapshot"} => Balanced(handler[h].row)
    /\ \A i \in 1..Len(rows) : Balanced(rows[i])

\* The manager's balances are those at its root.
LEMMA ManagerBalance ==
    ASSUME ls \in Rooted, NEW a \in Accounts
    PROVE  BalanceAt(ls.root, a, ls.accounts[a].balance)
<1>1. ls.accounts \in Accounting /\ IsRoot(ls.root, ls.accounts)
  BY DEF Rooted, State, Accounting
<1> QED
  BY <1>1, RootInjective DEF BalanceAt

\* What a request starts with.
LEMMA ReceiveOpens ==
    ASSUME Types, ls \in Rooted, NEW h \in Handlers,
           \/ \E d \in Deposits : ReceiveDeposit(h, d)
           \/ \E a \in Accounts, amount \in WithdrawAmounts : ReceiveWithdraw(h, a, amount)
    PROVE  handler'[h] = handler[h] \/ Opened(handler'[h].row)
<1>1. ASSUME NEW kind, NEW id, NEW a \in Accounts, NEW amount, NEW nonce,
             StartOperation(h, NewRow(kind, id, a, amount, nonce))
      PROVE  Opened(handler'[h].row)
  <2> DEFINE x == NewRow(kind, id, a, amount, nonce)
  <2>1. /\ x.rootBefore = ls.root /\ x.acct = a /\ x.balanceBefore = ls.accounts[a].balance
        /\ x.nullifier = NullifierFor(DefaultSecret, nonce) /\ x.nonce = nonce
    BY DEF NewRow
  <2> HIDE DEF x
  <2>2. handler'[h].row = x
    BY <1>1, StartOperationEffect DEF x
  <2> QED
    BY <2>1, <2>2, ManagerBalance DEF Opened
<1>2. ASSUME NEW d \in Deposits, ReceiveDeposit(h, d) PROVE Opened(handler'[h].row)
  <2>1. DepositRecord[d].acct \in Accounts
    BY DepositRecordAssumption
  <2> QED
    BY <1>1, <1>2, <2>1 DEF ReceiveDeposit
<1>3. ASSUME NEW a \in Accounts, NEW amount \in WithdrawAmounts, ReceiveWithdraw(h, a, amount)
      PROVE  handler'[h] = handler[h] \/ Opened(handler'[h].row)
  <2>1. CASE CanBuildWithdrawRequest(ls, a, amount)
    <3>1. StartOperation(h, NewRow("withdrawal", wdSeq + 1, a, amount, ls.accounts[a].nonce + 1))
      BY <1>3, <2>1 DEF ReceiveWithdraw, BuildWithdrawRequest
    <3> QED
      BY <1>1, <3>1
  <2>2. CASE ~CanBuildWithdrawRequest(ls, a, amount)
    BY <1>3, <2>2 DEF ReceiveWithdraw
  <2> QED
    BY <2>1, <2>2
<1> QED
  BY <1>2, <1>3

\* An idle handler is started by a request.
LEMMA HandlerBegins ==
    ASSUME Types, [Next]_vars, NEW h \in Handlers, \A g \in Handlers : g = h,
           handler[h].pc = "idle", handler'[h].pc # "idle"
    PROVE  \/ \E d \in Deposits : ReceiveDeposit(h, d)
           \/ \E a \in Accounts, amount \in WithdrawAmounts : ReceiveWithdraw(h, a, amount)
<1>1. ~(HandlerStep(h) \/ HandlerFault(h))
  BY DEF HandlerStep, HandlerFault, HandlerInitCursor, ApplyOperation, RefuseOperation,
     SnapshotAfter, SaveOperation, CollideOnSave, ReadCursor, WritePendingRoot, SaveWithdrawRequest
<1>2. handler' # handler
  OBVIOUS
<1>3. ~(Restart \/ RestartBlind)
  BY DEF Restart, RestartBlind, IdleHandler
<1>4. ASSUME NEW d \in Drivers,
             PassStep(d) \/ BuildStep(d) \/ ConfirmTimeout(d) \/ DriverFault(d)
      PROVE  UNCHANGED handler
  BY <1>4 DEF PassStep, BuildStep, StartPass, DriverInitCursor, ListDeposits, Prove, ProverFails,
     GuardRefuses, VerifierRefuses, SubmitFails, Broadcast, Confirm, RecordResult, CommitCursor,
     BuildNothing, RefuseWitness, BuildBatch, ConfirmTimeout, DriverFault, MarkBatchIncluded,
     Decline, CommitRows, Reopen
<1>5. ASSUME \/ \E b \in 1..MaxBatches : CancelBatch(b)
             \/ \E i \in DOMAIN txs : Deliver(i)
             \/ UNCHANGED vars
      PROVE  UNCHANGED handler
  BY <1>5 DEF CancelBatch, Deliver, vars, memory
<1> QED
  BY <1>1, <1>2, <1>3, <1>4, <1>5 DEF Next

\* What a handler's row says stays true.
LEMMA HandlerBalanced ==
    ASSUME Types, Exact, Chained, AllBalanced, [Next]_vars, NEW h \in Handlers,
           \A g \in Handlers : g = h
    PROVE  /\ handler'[h].pc # "idle" => Opened(handler'[h].row)
           /\ handler'[h].pc \notin {"idle", "initCursor", "apply", "snapshot"}
                => Balanced(handler'[h].row)
<1> DEFINE Goal(hs) == /\ hs.pc # "idle" => Opened(hs.row)
                       /\ hs.pc \notin {"idle", "initCursor", "apply", "snapshot"} => Balanced(hs.row)
<1> SUFFICES Goal(handler'[h])
  OBVIOUS
<1>1. Goal(handler[h])
  BY DEF AllBalanced
<1>2. CASE handler'[h] = handler[h]
  BY <1>1, <1>2
<1>3. CASE handler'[h].pc = "idle"
  BY <1>3
<1>4. CASE handler[h].pc = "idle" /\ handler'[h].pc \in {"initCursor", "apply"}
  <2>1. \/ \E d \in Deposits : ReceiveDeposit(h, d)
        \/ \E a \in Accounts, amount \in WithdrawAmounts : ReceiveWithdraw(h, a, amount)
    BY <1>4, HandlerBegins
  <2>2. ls \in Rooted /\ handler'[h] # handler[h]
    BY <1>4 DEF Exact
  <2>3. Opened(handler'[h].row)
    BY <2>1, <2>2, ReceiveOpens
  <2> QED
    BY <1>4, <2>3
<1>5. CASE ApplyOperation(h) /\ handler'[h].pc = "snapshot"
  <2>1. handler'[h].row = [handler[h].row EXCEPT !.rootAfter = ls'.root]
    BY <1>5, SnapshotEffect
  <2>2. handler[h].pc = "apply" /\ handler[h].row \in DbRow
    BY <1>5 DEF ApplyOperation, Types, HandlerState, IdleHandler
  <2> DEFINE x == handler[h].row
             y == handler'[h].row
  <2>3. Opened(x)
    BY <1>1, <2>2
  <2>4. /\ y.rootBefore = x.rootBefore /\ y.acct = x.acct /\ y.balanceBefore = x.balanceBefore
        /\ y.nullifier = x.nullifier /\ y.nonce = x.nonce
    <3> HIDE DEF x, y
    <3>1. x \in DbRow /\ y = [x EXCEPT !.rootAfter = ls'.root]
      BY <2>1, <2>2 DEF x, y
    <3> QED
      BY <3>1 DEF DbRow, Row
  <2> HIDE DEF x, y
  <2>5. Opened(y)
    BY <2>3, <2>4 DEF Opened
  <2> QED
    BY <1>5, <2>5 DEF y
<1>6. CASE SnapshotAfter(h)
  <2>1. handler[h].pc = "snapshot" /\ handler[h].row \in DbRow
    BY <1>6 DEF SnapshotAfter, Types, HandlerState, IdleHandler
  <2> DEFINE x == handler[h].row
             y == handler'[h].row
  <2>2. /\ handler'[h].pc = "save"
        /\ y = [x EXCEPT !.balanceAfter = ls.accounts[x.acct].balance]
    BY <1>6, SnapshotAfterEffect
  <2>3. Opened(x) /\ x.rootAfter = ls.root /\ x \in DbRow
    BY <1>1, <2>1 DEF Chained, Unsaved
  <2> HIDE DEF x, y
  <2>4. /\ y.rootBefore = x.rootBefore /\ y.acct = x.acct /\ y.balanceBefore = x.balanceBefore
        /\ y.nullifier = x.nullifier /\ y.nonce = x.nonce /\ y.rootAfter = x.rootAfter
        /\ y.balanceAfter = ls.accounts[x.acct].balance /\ x.acct \in Accounts
    BY <2>2, <2>3 DEF DbRow, Row
  <2>5. BalanceAt(ls.root, x.acct, ls.accounts[x.acct].balance)
    BY <2>4, ManagerBalance DEF Exact
  <2>6. Balanced(y)
    BY <2>3, <2>4, <2>5 DEF Opened, Balanced
  <2> QED
    BY <2>2, <2>6 DEF y, Balanced
<1>7. CASE \/ HandlerInitCursor(h) /\ handler'[h].pc = "apply"
           \/ SaveOperation(h) /\ handler'[h].pc = "readCursor"
           \/ ReadCursor(h) /\ handler'[h].pc = "writeCursor"
           \/ WritePendingRoot(h) /\ handler'[h].pc = "request"
  <2>1. handler'[h].row = handler[h].row
    <3>1. CASE ReadCursor(h)
      BY <3>1 DEF ReadCursor, Types, HandlerState, IdleHandler
    <3>2. CASE HandlerInitCursor(h) \/ SaveOperation(h)
      BY <3>2, GotoHandlerEffect DEF HandlerInitCursor, SaveOperation
    <3>3. CASE WritePendingRoot(h) /\ handler'[h].pc = "request"
      <4>1. EndHandler(h) => handler'[h].pc = "idle"
        BY EndHandlerEffect
      <4>2. GotoHandler(h, "request")
        BY <3>3, <4>1 DEF WritePendingRoot
      <4>3. handler[h].pc # "idle"
        BY <3>3 DEF WritePendingRoot
      <4> QED
        BY <4>2, <4>3, GotoHandlerEffect
    <3> QED
      BY <1>7, <3>1, <3>2, <3>3
  <2>2. /\ handler[h].pc # "idle"
        /\ handler'[h].pc # "apply" => handler[h].pc \in {"save", "readCursor", "writeCursor"}
    BY <1>7 DEF HandlerInitCursor, SaveOperation, ReadCursor, WritePendingRoot
  <2> QED
    BY <1>1, <1>7, <2>1, <2>2
<1> HIDE DEF Goal
<1> QED
  BY <1>2, <1>3, <1>4, <1>5, <1>6, <1>7, HandlerMove

\* So does what a recorded row says.
LEMMA BalancedStep ==
    ASSUME Types, Types', Named, Once, Exact, Chained, Orderly, AllBalanced, [Next]_vars
    PROVE  AllBalanced'
<1>1. rows \in Seq(DbRow) /\ rows' \in Seq(DbRow) /\ \A i \in 1..Len(rows) : Balanced(rows[i])
  BY DEF Types, AllBalanced
<1>2. ASSUME NEW i \in 1..Len(rows') PROVE Balanced(rows'[i])
  <2>1. CASE SameRows(rows, rows')
    <3>1. i \in 1..Len(rows) /\ SameRow(rows[i], rows'[i]) /\ SameWitness(rows[i], rows'[i])
      BY <1>1, <2>1 DEF SameRows
    <3> QED
      BY <1>1, <3>1 DEF SameRow, SameOp, SameWitness, Balanced, Opened
  <2>2. ASSUME NEW h \in Handlers, SaveOperation(h) PROVE Balanced(rows'[i])
    <3> DEFINE x == handler[h].row
    <3>1. rows' = Append(rows, x)
      BY <2>2, SaveAppends
    <3>2. handler[h].pc = "save"
      BY <2>2 DEF SaveOperation
    <3>3. Balanced(x)
      BY <3>2 DEF AllBalanced
    <3> HIDE DEF x
    <3>4. rows'[i] = x \/ (i \in 1..Len(rows) /\ rows'[i] = rows[i])
      BY <1>1, <3>1
    <3> QED
      BY <1>1, <3>3, <3>4
  <2> QED
    BY <2>1, <2>2, RowsStep
<1>3. ASSUME NEW h \in Handlers
      PROVE  /\ handler'[h].pc # "idle" => Opened(handler'[h].row)
             /\ handler'[h].pc \notin {"idle", "initCursor", "apply", "snapshot"}
                  => Balanced(handler'[h].row)
  BY HandlerBalanced DEF Orderly
<1> QED
  BY <1>2, <1>3 DEF AllBalanced

\* When nothing is in flight and no row is failed or included, the rows after the settled
\* ones are those pending.
LEMMA PendingAfterSettled ==
    ASSUME Ordered, AtRest, RowsWith("failed") \cup RowsWith("included") = {},
           NEW c, SettledUpTo(c)
    PROVE  \A i \in 1..Len(rows) : rows[i].status = "pending" <=> c < i
<1> SUFFICES ASSUME NEW i \in 1..Len(rows) PROVE rows[i].status = "pending" <=> c < i
  OBVIOUS
<1>1. rows[i] \in DbRow /\ i \in DOMAIN rows /\ c \in Nat /\ i \in Nat
  BY DEF Ordered, Types, SettledUpTo
<1>2. rows[i].status \in {"pending", "included", "committed", "failed"}
  BY <1>1 DEF DbRow, Row, Status
<1>3. rows[i].status # "failed" /\ rows[i].status # "included"
  BY <1>1 DEF RowsWith
<1>4. SettledIn(chain, rows[i]) <=> i <= c
  BY DEF SettledUpTo
<1>5. rows[i].status = "committed" => SettledIn(chain, rows[i])
  BY <1>1 DEF Ordered, CommittedAccepted, RowsWith, SettledOn, SettledIn
<1>6. SettledIn(chain, rows[i]) => rows[i].status = "committed"
  BY <1>1 DEF Ordered, SettledHeld, AtRest
<1> QED
  BY <1>1, <1>2, <1>3, <1>4, <1>5, <1>6

\* Then the next pass builds a batch of the first of them.
LEMMA PendingBuilds ==
    ASSUME Ordered, AllBalanced, \A x, y \in Denoms : x = y
    PROVE  PendingBuildable
<1> SUFFICES ASSUME AtRest, RowsWith("failed") \cup RowsWith("included") = {}, PendingRows # <<>>
             PROVE  /\ CanOrder(ChainRoot, PendingRows)
                    /\ CanSettle(ChainRoot, NextTransitions)
                    /\ CanWitness(NextTransitions, DefaultSecret)
  BY DEF PendingBuildable
<1> DEFINE N == Len(rows)
           p == PendingRows
<1>1. PICK c \in 0..N : SettledUpTo(c)
  BY DEF Ordered, SettledPrefix
<1>2. /\ rows \in Seq(DbRow) /\ RowsChain(rows) /\ N \in Nat
      /\ \A i \in 1..N : rows[i].rootBefore # RootAt(rows, N)
  BY ChainOpen DEF Ordered, Types, Chained
<1>3. \A i \in 1..N : rows[i].status = "pending" <=> c < i
  BY <1>1, PendingAfterSettled
<1>4. p \in Seq(DbRow) /\ \E at : AllListed(p, rows, at)
  BY <1>2, BothListed DEF PendingRows
<1>5. PICK at : AllListed(p, rows, at)
  BY <1>4
<1>6. ChainRoot = RootAt(rows, c)
  BY <1>1 DEF SettledUpTo
<1> DEFINE root == RootAt(rows, c)
           o == OrderPending(root, p)
           t == BoundSingleWithdrawalPrefix(o)
<1> HIDE DEF N, p
<1>7. /\ DistinctRootBefore(p)
      /\ o \in Seq(DbRow) /\ Len(o) = Len(p) /\ c + Len(o) <= N
      /\ \A k \in 1..Len(o) : o[k] = rows[c + k]
      /\ ChainsFrom(o, root)
  <2>1. c \in 0..Len(rows) /\ \A i \in 1..Len(rows) : rows[i].status = "pending" <=> c < i
    BY <1>1, <1>3 DEF N
  <2>2. \A i \in 1..Len(rows) : rows[i].rootBefore # RootAt(rows, Len(rows))
    BY <1>2 DEF N
  <2> QED
    BY <1>2, <1>4, <1>5, <2>1, <2>2, WalkTakesAll DEF N
<1>8. CanOrder(root, p)
  BY <1>7 DEF CanOrder
<1> HIDE DEF o
<1>9. o # <<>>
  <2>1. p # <<>>
    BY DEF p
  <2> QED
    BY <1>4, <1>7, <2>1
<1>10. t \in Seq(DbRow) /\ Len(t) \in 1..Len(o) /\ \A i \in 1..Len(t) : t[i] = o[i]
  BY <1>7, <1>9, BoundIsPrefix
<1> HIDE DEF t
<1>11. PICK m \in Nat : m = Len(t) /\ m # 0 /\ m <= Len(o) /\ m >= 1
  BY <1>7, <1>10
<1>12. c + m <= N /\ \A k \in 1..m : t[k] = rows[c + k] /\ c + k \in 1..N
  <2>1. c + m <= N
    BY <1>1, <1>2, <1>7, <1>11
  <2>2. \A k \in 1..m : k \in 1..Len(o)
    BY <1>7, <1>11
  <2> QED
    BY <1>1, <1>2, <1>7, <1>10, <1>11, <2>1, <2>2
<1>13. ChainsFrom(t, root)
  <2> HIDE DEF root
  <2>1. ASSUME NEW k \in 1..Len(t) PROVE t[k].rootBefore = IF k = 1 THEN root ELSE t[k - 1].rootAfter
    <3>1. k \in 1..Len(o) /\ t[k] = o[k]
      BY <1>7, <1>10, <1>11
    <3>2. o[k].rootBefore = IF k = 1 THEN root ELSE o[k - 1].rootAfter
      BY <1>7, <3>1 DEF ChainsFrom
    <3>3. k # 1 => k - 1 \in 1..Len(t)
      BY <1>11
    <3>4. k # 1 => t[k - 1] = o[k - 1]
      BY <1>10, <3>3
    <3> QED
      BY <3>1, <3>2, <3>4
  <2> QED
    BY <2>1 DEF ChainsFrom
<1>14. \A a, b \in Accounts : a[1] = b[1] => a = b
  BY DEF Accounts
<1>15. CanSettle(root, t)
  <2>1. root # rows[c + m].rootAfter
    <3>1. c \in 0..Len(rows) /\ c + m <= Len(rows)
      BY <1>1, <1>12 DEF N
    <3>2. \A i \in 1..Len(rows) : rows[i].rootBefore # RootAt(rows, Len(rows))
      BY <1>2 DEF N
    <3> QED
      BY <1>2, <1>11, <3>1, <3>2, StretchMoves
  <2>2. t[Len(t)] = rows[c + m]
    BY <1>11, <1>12
  <2>3. ASSUME NEW i \in DOMAIN t, NEW j \in DOMAIN t PROVE t[i].acct[2] = t[j].acct[2]
    <3>1. t[i] \in DbRow /\ t[j] \in DbRow
      BY <1>10
    <3>2. t[i].acct \in Accounts /\ t[j].acct \in Accounts
      BY <3>1 DEF DbRow, Row
    <3> QED
      BY <3>2 DEF Accounts
  <2> QED
    BY <2>1, <2>2, <2>3 DEF CanSettle
<1>16. CanWitness(t, DefaultSecret)
  <2>1. AllExact(t)
    <3>1. \A k \in DOMAIN t : k \in 1..m
      BY <1>10, <1>11
    <3>2. \A k \in 1..N : RowExact(rows[k])
      BY <1>2 DEF Ordered, Exact, AllExact, N
    <3> QED
      BY <1>12, <3>1, <3>2 DEF AllExact
  <2>2. \A k \in 1..Len(t) : Balanced(t[k])
    BY <1>11, <1>12 DEF AllBalanced, N
  <2> QED
    BY <1>10, <1>11, <1>13, <1>14, <2>1, <2>2, BatchWitness
<1>17. NextTransitions = t
  BY <1>6 DEF NextTransitions, t, o, p
<1> QED
  BY <1>6, <1>8, <1>15, <1>16, <1>17 DEF p

\* "Remaining pending operations drain in subsequent sequencer passes": where requests are
\* handled one at a time, one sequencer settles, nothing fails or is cancelled and there is
\* one denom, the pending rows left when nothing is in flight and no declined batch has left
\* failed rows always form a chain from the chain's root, and the settlement and witness
\* builders accept the batch cut from it.
THEOREM PendingBuildableTheorem ==
    ASSUME \A g, h \in Handlers : g = h, \A d, e \in Drivers : d = e, \A x, y \in Denoms : x = y,
           MaxFaults = 0, MaxRestarts = 0, ~OperatorCancels
    PROVE  Spec => []PendingBuildable
<1> DEFINE I == Ordered /\ AllBalanced
<1>1. Init => I
  <2>1. Init => AllBalanced
    BY DEF Init, AllBalanced, IdleHandler
  <2> QED
    BY <2>1, InitOrdered
<1>2. I /\ [Next]_vars => I'
  <2> SUFFICES ASSUME I, [Next]_vars PROVE I'
    OBVIOUS
  <2>1. Ordered'
    BY OrderedStep
  <2>2. AllBalanced'
    BY <2>1, BalancedStep DEF Ordered
  <2> QED
    BY <2>1, <2>2
<1>3. I => PendingBuildable
  BY PendingBuilds
<1> QED
  BY <1>1, <1>2, <1>3, PTL DEF Spec
=============================================================================
