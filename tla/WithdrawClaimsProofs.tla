------------------------ MODULE WithdrawClaimsProofs ------------------------
(***************************************************************************)
(* The claim path's invariants, proved for every set of withdrawals and    *)
(* claim requests and for every number of faults and restarts.             *)
(*                                                                         *)
(* None of the checked properties is inductive.  That a claimed record     *)
(* stays claimed needs the order in which a withdrawal reaches the chain,  *)
(* the memory store and the database (SavedOnce); that a claimed record is *)
(* backed needs what a request in progress has already seen of the chain   *)
(* (RequestsBacked); the dashboard needs both.                             *)
(***************************************************************************)
EXTENDS WithdrawClaims, TLAPS

\* The program counters of a request that has a record.
Busy == {"broadcast", "check", "writeDatabase", "writeMemory"}

\* The type a step needs: TypeOK, and what TypeOK leaves to the shape of Init.
Types ==
    /\ memory \in [Withdrawals -> Record]
    /\ saving \in SUBSET Withdrawals
    /\ database \in [Withdrawals -> Record]
    /\ zkdex \in [Withdrawals -> Record]
    /\ credited \in [Withdrawals -> Nat]
    /\ answered \in [Withdrawals -> Nat]
    /\ mempool \in [Withdrawals -> Nat]
    /\ claim \in [Claimers -> {Idle} \cup [pc : Busy, id : Withdrawals]]
    /\ \A w \in saving : memory[w] # "none"

\* With a chain, a withdrawal is recorded once: whatever a store has of it the
\* chain has too, and a record on its way to the database is not there yet.
SavedOnce ==
    \A w \in Withdrawals :
        /\ memory[w] # "none" => zkdex[w] # "none"
        /\ database[w] # "none" => zkdex[w] # "none"
        /\ w \in saving => database[w] = "none"

\* The withdrawal is paid, about to be, or its claim was lost.
Backed(w) == zkdex[w] = "claimed" \/ mempool[w] > 0 \/ w \in lost

\* A request past the broadcast has its claim in the mempool, in a block, or lost;
\* one that writes the database has seen the row there.
RequestsBacked ==
    \A c \in Claimers :
        /\ claim[c].pc \in {"check", "writeDatabase", "writeMemory"} => Backed(claim[c].id)
        /\ claim[c].pc = "writeDatabase" => database[claim[c].id] # "none"

\* The inductive invariant.
Inv ==
    /\ Types
    /\ ChainRelayer => SavedOnce /\ RequestsBacked /\ DashboardAgrees /\ ClaimsBacked

-----------------------------------------------------------------------------
\* The initial state has no record, no request and no claim.
LEMMA InitInv == Init => Inv
<1> SUFFICES ASSUME Init PROVE Inv
  OBVIOUS
<1>1. Types
  BY DEF Init, Types, Record, Idle, Busy
<1>2. SavedOnce /\ DashboardAgrees /\ ClaimsBacked
  BY DEF Init, SavedOnce, DashboardAgrees, ClaimsBacked
<1>3. RequestsBacked
  BY DEF Init, RequestsBacked, Idle
<1> QED
  BY <1>1, <1>2, <1>3 DEF Inv

\* Every step of a handler, the chain or the process keeps the types.
LEMMA NextTypes == Types /\ [Next]_vars => Types'
<1> SUFFICES ASSUME Types, [Next]_vars PROVE Types'
  OBVIOUS
<1> USE DEF Types, Record, Busy, Idle, chainVars
<1>1. ASSUME NEW w \in Withdrawals, RecordWithdrawal(w) PROVE Types'
  BY <1>1 DEF RecordWithdrawal
<1>2. ASSUME NEW w \in Withdrawals, SaveRecord(w) PROVE Types'
  BY <1>2 DEF SaveRecord
<1>3. ASSUME NEW w \in Withdrawals, SaveFault(w) PROVE Types'
  BY <1>3 DEF SaveFault
<1>4. ASSUME NEW w \in Withdrawals, DeliverClaim(w) PROVE Types'
  BY <1>4 DEF DeliverClaim
<1>5. ASSUME NEW w \in Withdrawals, DropClaim(w) PROVE Types'
  BY <1>5 DEF DropClaim
<1>6. ASSUME NEW c \in Claimers, NEW w \in Withdrawals, StartClaim(c, w) PROVE Types'
  BY <1>6 DEF StartClaim
<1>7. ASSUME NEW c \in Claimers, BroadcastClaim(c) PROVE Types'
  BY <1>7 DEF BroadcastClaim, Goto
<1>8. ASSUME NEW c \in Claimers, RefuseClaim(c) PROVE Types'
  BY <1>8 DEF RefuseClaim, EndClaim
<1>9. ASSUME NEW c \in Claimers, CheckRecord(c) PROVE Types'
  BY <1>9 DEF CheckRecord, EndClaim, Goto
<1>10. ASSUME NEW c \in Claimers, WriteDatabase(c) PROVE Types'
  BY <1>10 DEF WriteDatabase, Goto
<1>11. ASSUME NEW c \in Claimers, WriteMemory(c) PROVE Types'
  BY <1>11 DEF WriteMemory, ClaimInMemory, EndClaim
<1>12. ASSUME NEW c \in Claimers, ClaimFault(c) PROVE Types'
  BY <1>12 DEF ClaimFault, EndClaim
<1>13. CASE Restart
  BY <1>13 DEF Restart
<1>14. CASE UNCHANGED vars
  BY <1>14 DEF vars
<1> QED
  BY <1>1, <1>2, <1>3, <1>4, <1>5, <1>6, <1>7, <1>8, <1>9, <1>10, <1>11, <1>12,
     <1>13, <1>14 DEF Next, ClaimStep

\* With a chain, every step keeps the four parts of the invariant together.
LEMMA NextInv == Inv /\ [Next]_vars => Inv'
<1> SUFFICES ASSUME Inv, [Next]_vars, ChainRelayer
             PROVE  (SavedOnce /\ RequestsBacked /\ DashboardAgrees /\ ClaimsBacked)'
  BY NextTypes DEF Inv
<1> DEFINE P == SavedOnce /\ RequestsBacked /\ DashboardAgrees /\ ClaimsBacked
<1> SUFFICES P'
  OBVIOUS
<1> USE DEF Inv, Types, Record, Busy, Idle, chainVars, SavedOnce, RequestsBacked,
            DashboardAgrees, ClaimsBacked, Backed
<1>1. ASSUME NEW w \in Withdrawals, RecordWithdrawal(w) PROVE P'
  BY <1>1 DEF RecordWithdrawal, AcceptsBatch
<1>2. ASSUME NEW w \in Withdrawals, SaveRecord(w) PROVE P'
  BY <1>2 DEF SaveRecord
<1>3. ASSUME NEW w \in Withdrawals, SaveFault(w) PROVE P'
  BY <1>3 DEF SaveFault
<1>4. ASSUME NEW w \in Withdrawals, DeliverClaim(w) PROVE P'
  BY <1>4 DEF DeliverClaim
<1>5. ASSUME NEW w \in Withdrawals, DropClaim(w) PROVE P'
  BY <1>5 DEF DropClaim
<1>6. ASSUME NEW c \in Claimers, NEW w \in Withdrawals, StartClaim(c, w) PROVE P'
  BY <1>6 DEF StartClaim
<1>7. ASSUME NEW c \in Claimers, BroadcastClaim(c) PROVE P'
  BY <1>7 DEF BroadcastClaim, Goto
<1>8. ASSUME NEW c \in Claimers, RefuseClaim(c) PROVE P'
  BY <1>8 DEF RefuseClaim, EndClaim
<1>9. ASSUME NEW c \in Claimers, CheckRecord(c) PROVE P'
  BY <1>9 DEF CheckRecord, EndClaim, Goto, GetWithdrawRecord, InDatabase
<1>10. ASSUME NEW c \in Claimers, WriteDatabase(c) PROVE P'
  BY <1>10 DEF WriteDatabase, Goto
<1>11. ASSUME NEW c \in Claimers, WriteMemory(c) PROVE P'
  BY <1>11 DEF WriteMemory, ClaimInMemory, EndClaim
<1>12. ASSUME NEW c \in Claimers, ClaimFault(c) PROVE P'
  BY <1>12 DEF ClaimFault, EndClaim
<1>13. CASE Restart
  BY <1>13 DEF Restart
<1>14. CASE UNCHANGED vars
  BY <1>14 DEF vars
<1> QED
  BY <1>1, <1>2, <1>3, <1>4, <1>5, <1>6, <1>7, <1>8, <1>9, <1>10, <1>11, <1>12,
     <1>13, <1>14 DEF Next, ClaimStep

-----------------------------------------------------------------------------
\* The inductive invariant holds in every state of every behaviour.
THEOREM Invariance == Spec => []Inv
BY InitInv, NextInv, PTL DEF Spec

\* Every variable of the claim path stays in its type, whichever relayer and
\* record store the process is configured with.
THEOREM TypeCorrect == Spec => []TypeOK
<1>1. Inv => TypeOK
  BY DEF Inv, Types, TypeOK, Busy, Idle
<1> QED
  BY <1>1, Invariance, PTL

\* With the chain relayer a withdrawal has been credited on the dashboard, once or
\* more, exactly when the memory store has it claimed, however many requests claim
\* it at once.
THEOREM DashboardAgreement == ASSUME ChainRelayer PROVE Spec => []DashboardAgrees
<1>1. Inv => DashboardAgrees
  BY DEF Inv
<1> QED
  BY <1>1, Invariance, PTL

\* No store has a claimed record that the chain neither paid nor was asked to pay.
THEOREM ClaimsAreBacked == Spec => []ClaimsBacked
<1>1. Inv => ClaimsBacked
  BY DEF Inv, ClaimsBacked
<1> QED
  BY <1>1, Invariance, PTL

\* With the chain relayer no step takes a record that the database has claimed
\* back: the only write of an unclaimed row comes before any other write of it.
THEOREM ClaimedIsFinal == ASSUME ChainRelayer PROVE Spec => ClaimedFinal
<1> DEFINE A == \A w \in Withdrawals : database[w] = "claimed" => database'[w] = "claimed"
<1>1. Inv /\ [Next]_vars => [A]_database
  <2> SUFFICES ASSUME Inv, [Next]_vars, database' # database PROVE A
    OBVIOUS
  <2> USE DEF Inv, Types, Record
  <2>1. ASSUME NEW w \in Withdrawals, SaveRecord(w) PROVE A
    BY <2>1 DEF SaveRecord, SavedOnce
  <2>2. ASSUME NEW c \in Claimers, WriteDatabase(c) PROVE A
    BY <2>2 DEF WriteDatabase
  <2> QED
    BY <2>1, <2>2 DEF Next, ClaimStep, vars, chainVars, RecordWithdrawal, SaveFault,
       DeliverClaim, DropClaim, StartClaim, BroadcastClaim, RefuseClaim, CheckRecord,
       WriteMemory, ClaimFault, Restart
<1> QED
  BY <1>1, Invariance, PTL DEF Spec, ClaimedFinal
=============================================================================
