-------------------- MODULE EntityStateRepositoryProofs --------------------
(***************************************************************************)
(* upsert_if_newer is atomic: for any number of concurrent calls, about    *)
(* any entities and with any event times, the statement-level model keeps  *)
(* the lock discipline, lets the newest committed event win and implements *)
(* EntityBelief.                                                           *)
(***************************************************************************)
EXTENDS EntityStateRepository, GatewayDataProofs

IInv == TypeOK /\ LockDiscipline /\ NewestCommittedWins

(***************************************************************************)
(* Each call is about a known entity and carries a belief of the right     *)
(* type, with a natural event time.                                        *)
(***************************************************************************)
LEMMA OfferFacts ==
  ASSUME NEW t \in Txns
  PROVE  /\ Offer[t] \in Belief
         /\ Offer[t] # None
         /\ Offer[t].webhook \in Webhooks
         /\ Offer[t].reading \in Readings
         /\ EntityOf(t) \in Entities
         /\ Offer[t].reading.time \in Nat
         /\ Offer[t] = BeliefOf(Offer[t].webhook, Offer[t].reading)
BY OfferAssumption, ReadingsAssumption, NoneAssumption
   DEF Belief, ReadingType, EntityOf, BeliefOf

(***************************************************************************)
(* The event time of a committed row is a natural number.                  *)
(***************************************************************************)
LEMMA RowTime ==
  ASSUME TypeOK, NEW e \in Entities, row[e] # None
  PROVE  row[e] \in Belief /\ row[e].reading.time \in Nat
BY ReadingsAssumption DEF TypeOK, Belief, ReadingType

(***************************************************************************)
(* The COMMIT of t moves the row of t's entity to a row that is t's event  *)
(* or the one it was, and that is at least as new as t's event.            *)
(***************************************************************************)
LEMMA CommittedFacts ==
  ASSUME IInv, NEW t \in Txns, pc[t] = "commit"
  PROVE  /\ Committed(t) \in Belief
         /\ Committed(t) # None
         /\ Committed(t) \in {Offer[t], row[EntityOf(t)]}
         /\ Committed(t).reading.time >= Offer[t].reading.time
         /\ row[EntityOf(t)] # None =>
              Committed(t).reading.time >= row[EntityOf(t)].reading.time
         /\ Committed(t) = UpsertIfNewer(row, Offer[t].webhook, Offer[t].reading)[EntityOf(t)]
<1> DEFINE e == EntityOf(t)
<1>1. Offer[t] \in Belief /\ Offer[t] # None /\ e \in Entities
        /\ Offer[t].reading.time \in Nat /\ Offer[t].reading.entity = e
        /\ Offer[t] = BeliefOf(Offer[t].webhook, Offer[t].reading)
  BY OfferFacts DEF EntityOf
<1>2. row[e] # None => row[e] \in Belief /\ row[e].reading.time \in Nat
  BY <1>1, RowTime DEF IInv
<1>3. DOMAIN row = Entities
  BY DEF IInv, TypeOK
<1>4. CASE inserter[e] = t
  <2>1. row[e] = None
    BY <1>1, <1>4, NoneIsNoTxn DEF IInv, LockDiscipline, LocksHeld
  <2>2. Committed(t) = Offer[t]
    BY <1>4 DEF Committed
  <2> QED
    BY <1>1, <1>3, <2>1, <2>2 DEF UpsertIfNewer
<1>5. CASE inserter[e] # t
  <2>1. holder[e] = t
    BY <1>5 DEF IInv, LockDiscipline, TxnsOwnTheirRow
  <2>2. row[e] # None
    BY <1>1, <2>1, NoneIsNoTxn DEF IInv, LockDiscipline, LocksHeld
  <2>3. CASE write[t] # None
    <3>1. Committed(t) = Offer[t] /\ Offer[t].reading.time > row[e].reading.time
      BY <1>5, <2>3 DEF IInv, LockDiscipline, ComparisonStands, Committed
    <3> QED
      BY <1>1, <1>2, <1>3, <2>2, <3>1 DEF UpsertIfNewer
  <2>4. CASE write[t] = None
    <3>1. Committed(t) = row[e] /\ row[e].reading.time >= Offer[t].reading.time
      BY <1>5, <2>1, <2>4 DEF IInv, LockDiscipline, ComparisonStands, Committed
    <3> QED
      BY <1>1, <1>2, <1>3, <2>2, <3>1 DEF UpsertIfNewer
  <2> QED
    BY <2>3, <2>4
<1> QED
  BY <1>4, <1>5

(***************************************************************************)
(* The inductive invariant is preserved by every statement.                *)
(***************************************************************************)
LEMMA IInvStep ==
  ASSUME IInv, [Next]_vars
  PROVE  IInv'
<1>1. ASSUME NEW t \in Txns, GetRow(t) PROVE IInv'
  <2>1. EntityOf(t) \in Entities
    BY OfferFacts
  <2>2. TypeOK'
    BY <1>1, <2>1 DEF GetRow, IInv, TypeOK, PCs
  <2>3. LocksHeld'
    BY <1>1, <2>1, NoneIsNoTxn DEF GetRow, IInv, TypeOK, LockDiscipline, LocksHeld, EntityOf
  <2>4. TxnsOwnTheirRow'
    BY <1>1, <2>1, NoneIsNoTxn DEF GetRow, IInv, TypeOK, LockDiscipline, TxnsOwnTheirRow, EntityOf
  <2>5. ComparisonStands'
    BY <1>1, <2>1, NoneIsNoTxn DEF GetRow, IInv, TypeOK, LockDiscipline, ComparisonStands, TxnsOwnTheirRow, EntityOf
  <2>6. NewestCommittedWins'
    BY <1>1, <2>1 DEF GetRow, IInv, TypeOK, NewestCommittedWins, EntityOf
  <2> QED
    BY <2>2, <2>3, <2>4, <2>5, <2>6 DEF IInv, LockDiscipline
<1>2. ASSUME NEW t \in Txns, GetNothing(t) PROVE IInv'
  <2>1. EntityOf(t) \in Entities
    BY OfferFacts
  <2>2. TypeOK'
    BY <1>2, <2>1 DEF GetNothing, IInv, TypeOK, PCs
  <2>3. LockDiscipline'
    BY <1>2, <2>1 DEF GetNothing, IInv, TypeOK, LockDiscipline, LocksHeld, TxnsOwnTheirRow, ComparisonStands, EntityOf
  <2>4. NewestCommittedWins'
    BY <1>2, <2>1 DEF GetNothing, IInv, TypeOK, NewestCommittedWins, EntityOf
  <2> QED
    BY <2>2, <2>3, <2>4 DEF IInv
<1>3. ASSUME NEW t \in Txns, Insert(t) PROVE IInv'
  <2>1. EntityOf(t) \in Entities
    BY OfferFacts
  <2>2. TypeOK'
    BY <1>3, <2>1 DEF Insert, IInv, TypeOK, PCs
  <2>3. LocksHeld'
    BY <1>3, <2>1, NoneIsNoTxn DEF Insert, IInv, TypeOK, LockDiscipline, LocksHeld, EntityOf
  <2>4. TxnsOwnTheirRow'
    BY <1>3, <2>1, NoneIsNoTxn DEF Insert, IInv, TypeOK, LockDiscipline, TxnsOwnTheirRow, EntityOf
  <2>5. ComparisonStands'
    BY <1>3, <2>1, NoneIsNoTxn DEF Insert, IInv, TypeOK, LockDiscipline, ComparisonStands, LocksHeld, EntityOf
  <2>6. NewestCommittedWins'
    BY <1>3, <2>1 DEF Insert, IInv, TypeOK, NewestCommittedWins, EntityOf
  <2> QED
    BY <2>2, <2>3, <2>4, <2>5, <2>6 DEF IInv, LockDiscipline
<1>4. ASSUME NEW t \in Txns, InsertConflict(t) PROVE IInv'
  <2>1. EntityOf(t) \in Entities
    BY OfferFacts
  <2>2. TypeOK'
    BY <1>4, <2>1 DEF InsertConflict, IInv, TypeOK, PCs
  <2>3. LockDiscipline'
    BY <1>4, <2>1 DEF InsertConflict, IInv, TypeOK, LockDiscipline, LocksHeld, TxnsOwnTheirRow, ComparisonStands, EntityOf
  <2>4. NewestCommittedWins'
    BY <1>4, <2>1 DEF InsertConflict, IInv, TypeOK, NewestCommittedWins, EntityOf
  <2> QED
    BY <2>2, <2>3, <2>4 DEF IInv
<1>5. ASSUME NEW t \in Txns, Compare(t) PROVE IInv'
  <2>1. EntityOf(t) \in Entities /\ Offer[t] \in Belief /\ Offer[t] # None
          /\ Offer[t].reading.time \in Nat
    BY OfferFacts
  <2>2. holder[EntityOf(t)] = t /\ row[EntityOf(t)] # None
    BY <1>5, <2>1, NoneIsNoTxn
       DEF Compare, IInv, LockDiscipline, TxnsOwnTheirRow, LocksHeld
  <2>3. row[EntityOf(t)].reading.time \in Nat
    BY <2>1, <2>2, RowTime DEF IInv
  <2>4. TypeOK'
    BY <1>5, <2>1 DEF Compare, IInv, TypeOK, PCs
  <2>5. LocksHeld'
    BY <1>5, <2>1 DEF Compare, IInv, TypeOK, LockDiscipline, LocksHeld, EntityOf
  <2>6. TxnsOwnTheirRow'
    BY <1>5, <2>1, <2>2 DEF Compare, IInv, TypeOK, LockDiscipline, TxnsOwnTheirRow, EntityOf
  <2>7. ComparisonStands'
    BY <1>5, <2>1, <2>2, <2>3 DEF Compare, IInv, TypeOK, LockDiscipline, ComparisonStands, EntityOf
  <2>8. NewestCommittedWins'
    BY <1>5, <2>1 DEF Compare, IInv, TypeOK, NewestCommittedWins, EntityOf
  <2> QED
    BY <2>4, <2>5, <2>6, <2>7, <2>8 DEF IInv, LockDiscipline
<1>6. ASSUME NEW t \in Txns, Commit(t) PROVE IInv'
  <2> DEFINE e == EntityOf(t)
  <2>1. pc[t] = "commit" /\ e \in Entities
    BY <1>6, OfferFacts DEF Commit
  <2>2. TypeOK'
    BY <1>6, <2>1, CommittedFacts DEF Commit, Released, IInv, TypeOK, PCs
  <2>3. LocksHeld'
    BY <1>6, <2>1, NoneIsNoTxn DEF Commit, Released, IInv, TypeOK, LockDiscipline, LocksHeld, TxnsOwnTheirRow, EntityOf
  <2>4. TxnsOwnTheirRow'
    BY <1>6, <2>1, NoneIsNoTxn, OfferFacts DEF Commit, Released, IInv, TypeOK, LockDiscipline, TxnsOwnTheirRow, EntityOf
  <2>5. ComparisonStands'
    <3> SUFFICES ASSUME NEW u \in Txns
                 PROVE  /\ write'[u] # None =>
                             /\ pc'[u] = "commit"
                             /\ holder'[EntityOf(u)] = u
                             /\ write'[u] = Offer[u]
                             /\ Offer[u].reading.time > row'[EntityOf(u)].reading.time
                        /\ (pc'[u] = "commit" /\ holder'[EntityOf(u)] = u /\ write'[u] = None) =>
                             row'[EntityOf(u)].reading.time >= Offer[u].reading.time
      BY DEF ComparisonStands, EntityOf
    <3>1. EntityOf(u) \in Entities
      BY OfferFacts
    <3>2. CASE u = t
      BY <1>6, <3>2, <2>1 DEF Commit, IInv, TypeOK
    <3>3. CASE u # t /\ EntityOf(u) # e
      <4>1. /\ row'[EntityOf(u)] = row[EntityOf(u)]
            /\ pc'[u] = pc[u] /\ write'[u] = write[u]
        BY <1>6, <3>1, <3>3, <2>1 DEF Commit, IInv, TypeOK
      <4>2. holder'[EntityOf(u)] = u <=> holder[EntityOf(u)] = u
        BY <1>6, <3>1, <3>3, <2>1, NoneIsNoTxn DEF Commit, Released
      <4> QED
        BY <4>1, <4>2 DEF IInv, LockDiscipline, ComparisonStands
    <3>4. CASE u # t /\ EntityOf(u) = e
      <4>1. holder[e] # u
        BY <2>1, <3>4, NoneIsNoTxn
           DEF IInv, LockDiscipline, TxnsOwnTheirRow, LocksHeld
      <4>2. write[u] = None /\ holder'[e] # u
        BY <1>6, <2>1, <3>4, <4>1, NoneIsNoTxn DEF Commit, Released, IInv, LockDiscipline, ComparisonStands
      <4> QED
        BY <1>6, <2>1, <3>4, <4>2 DEF Commit, IInv, TypeOK
    <3> QED
      BY <3>2, <3>3, <3>4
  <2>6. NewestCommittedWins'
    <3>1. /\ Committed(t) \in Belief
          /\ Committed(t) # None
          /\ Committed(t) \in {Offer[t], row[e]}
          /\ Committed(t).reading.time >= Offer[t].reading.time
          /\ row[e] # None => Committed(t).reading.time >= row[e].reading.time
      BY <2>1, CommittedFacts
    <3>2. row' = [row EXCEPT ![e] = Committed(t)] /\ DOMAIN row = Entities
            /\ pc' = [pc EXCEPT ![t] = "done"] /\ DOMAIN pc = Txns
      BY <1>6 DEF Commit, IInv, TypeOK
    <3>3. ASSUME NEW u \in Txns, pc'[u] = "done"
          PROVE  /\ row'[EntityOf(u)] # None
                 /\ row'[EntityOf(u)].reading.time >= Offer[u].reading.time
      <4>1. EntityOf(u) \in Entities /\ Offer[u].reading.time \in Nat
        BY OfferFacts
      <4>2. CASE u = t
        BY <2>1, <3>1, <3>2, <4>2
      <4>3. CASE u # t
        <5>1. row[EntityOf(u)] # None
                /\ row[EntityOf(u)].reading.time >= Offer[u].reading.time
          BY <3>2, <3>3, <4>3 DEF IInv, NewestCommittedWins
        <5>2. row[EntityOf(u)].reading.time \in Nat
          BY <4>1, <5>1, RowTime DEF IInv
        <5>3. Committed(t).reading.time \in Nat
          BY <3>1, ReadingsAssumption DEF Belief, ReadingType
        <5> QED
          BY <2>1, <3>1, <3>2, <4>1, <5>1, <5>2, <5>3
      <4> QED
        BY <4>2, <4>3
    <3>4. ASSUME NEW f \in Entities, row'[f] # None
          PROVE  \E u \in Txns : pc'[u] = "done" /\ row'[f] = Offer[u]
      <4>1. CASE row'[f] = Offer[t] /\ f = e
        BY <3>2, <4>1
      <4>2. CASE row'[f] = row[f]
        BY <3>2, <3>4, <4>2, <2>1 DEF IInv, NewestCommittedWins
      <4> QED
        BY <2>1, <3>1, <3>2, <4>1, <4>2
    <3> QED
      BY <3>3, <3>4 DEF NewestCommittedWins, EntityOf
  <2> QED
    BY <2>2, <2>3, <2>4, <2>5, <2>6 DEF IInv, LockDiscipline
<1>7. ASSUME NEW t \in Txns, Rollback(t) PROVE IInv'
  <2>1. EntityOf(t) \in Entities
    BY OfferFacts
  <2>2. TypeOK'
    BY <1>7, <2>1 DEF Rollback, Released, IInv, TypeOK, PCs
  <2>3. LocksHeld'
    BY <1>7, <2>1 DEF Rollback, Released, IInv, TypeOK, LockDiscipline, LocksHeld, EntityOf
  <2>4. TxnsOwnTheirRow'
    BY <1>7, <2>1, OfferFacts DEF Rollback, Released, IInv, TypeOK, LockDiscipline, TxnsOwnTheirRow, EntityOf
  <2>5. ComparisonStands'
    BY <1>7, <2>1, OfferFacts, NoneIsNoTxn DEF Rollback, Released, IInv, TypeOK, LockDiscipline, ComparisonStands, EntityOf
  <2>6. NewestCommittedWins'
    BY <1>7, <2>1 DEF Rollback, IInv, TypeOK, NewestCommittedWins, EntityOf
  <2> QED
    BY <2>2, <2>3, <2>4, <2>5, <2>6 DEF IInv, LockDiscipline
<1>8. CASE UNCHANGED vars
  BY <1>8 DEF vars, IInv, TypeOK, LockDiscipline, LocksHeld, TxnsOwnTheirRow,
     ComparisonStands, NewestCommittedWins, EntityOf
<1> QED
  BY <1>1, <1>2, <1>3, <1>4, <1>5, <1>6, <1>7, <1>8 DEF Next, Step

(***************************************************************************)
(* Every reachable state of concurrent upsert_if_newer calls satisfies the *)
(* inductive invariant.                                                    *)
(***************************************************************************)
THEOREM RepositoryInvariant == Spec => []IInv
<1>1. Init => IInv
  BY OfferFacts DEF Init, IInv, TypeOK, PCs, LockDiscipline, LocksHeld,
     TxnsOwnTheirRow, ComparisonStands, NewestCommittedWins
<1>2. IInv /\ [Next]_vars => IInv'
  BY IInvStep
<1> QED
  BY <1>1, <1>2, PTL DEF Spec

(***************************************************************************)
(* A call of upsert_if_newer is always at one of its statements, with what *)
(* that statement needs.                                                   *)
(***************************************************************************)
THEOREM RepositoryTypeCorrect == Spec => []TypeOK
BY RepositoryInvariant, PTL DEF IInv

(***************************************************************************)
(* The newest event whose upsert_if_newer call returned wins, for any      *)
(* number of concurrent calls.                                             *)
(***************************************************************************)
THEOREM NewestWins == Spec => []NewestCommittedWins
BY RepositoryInvariant, PTL DEF IInv

(***************************************************************************)
(* Nobody changes a row between another call's comparison and its COMMIT.  *)
(***************************************************************************)
THEOREM LocksAreKept == Spec => []LockDiscipline
BY RepositoryInvariant, PTL DEF IInv

(***************************************************************************)
(* Statement by statement, concurrent upsert_if_newer calls implement the  *)
(* one-step upsert of EntityBelief: a COMMIT is one Apply, every other     *)
(* statement changes nothing a reader can see.                             *)
(***************************************************************************)
THEOREM UpsertIsAtomic == Spec => ImplementsEntityBelief
<1>1. Init => Abstract!Init
  BY DEF Init, Abstract!Init
<1>2. IInv /\ [Next]_vars => [Abstract!Next]_row
  <2> SUFFICES ASSUME IInv, NEW t \in Txns, Commit(t)
               PROVE  Abstract!Next
    BY DEF Next, Step, GetRow, GetNothing, Insert, InsertConflict, Compare,
       Rollback, vars
  <2>1. pc[t] = "commit" /\ Offer[t].webhook \in Webhooks
          /\ Offer[t].reading \in Readings /\ EntityOf(t) \in Entities
    BY OfferFacts DEF Commit
  <2>2. Committed(t) = UpsertIfNewer(row, Offer[t].webhook, Offer[t].reading)[EntityOf(t)]
    BY <2>1, CommittedFacts
  <2>3. row' = UpsertIfNewer(row, Offer[t].webhook, Offer[t].reading)
    BY <2>1, <2>2 DEF Commit, UpsertIfNewer, EntityOf, IInv, TypeOK
  <2> QED
    BY <2>1, <2>3 DEF Abstract!Next, Abstract!Apply, UpsertIfNewer, BeliefOf,
       Abstract!UpsertIfNewer, Abstract!BeliefOf
<1> QED
  BY <1>1, <1>2, RepositoryInvariant, PTL DEF Spec, ImplementsEntityBelief, Abstract!Spec

(***************************************************************************)
(* Out-of-order protection, of the table that concurrent calls write: no   *)
(* COMMIT withdraws a belief or moves it back in event time.               *)
(***************************************************************************)
THEOREM RowsNeverRegress == Spec => Abstract!NeverRegresses
<1> DEFINE Forward == \A e \in Entities :
       row[e] # None =>
         /\ row'[e] # None
         /\ \/ row'[e] = row[e]
            \/ row'[e].reading.time > row[e].reading.time
<1>1. TypeOK /\ [Abstract!Next]_row => [Forward]_row
  <2> SUFFICES ASSUME TypeOK, NEW h \in Webhooks, NEW r \in Readings,
                      row' = UpsertIfNewer(row, h, r)
               PROVE  Forward
    BY DEF Abstract!Next, Abstract!Apply, UpsertIfNewer, BeliefOf,
       Abstract!UpsertIfNewer, Abstract!BeliefOf
  <2> QED
    BY UpsertFacts DEF TypeOK
<1> QED
  BY <1>1, UpsertIsAtomic, RepositoryTypeCorrect, PTL
     DEF ImplementsEntityBelief, Abstract!Spec, Abstract!NeverRegresses

(***************************************************************************)
(* A belief is always about its own entity.                                *)
(***************************************************************************)
THEOREM RowsAreOwn == Spec => []Abstract!OwnEntity
<1>1. Abstract!Init => Abstract!OwnEntity
  BY DEF Abstract!Init, Abstract!OwnEntity
<1>2. TypeOK /\ Abstract!OwnEntity /\ [Abstract!Next]_row => Abstract!OwnEntity'
  <2> SUFFICES ASSUME TypeOK, Abstract!OwnEntity, NEW h \in Webhooks, NEW r \in Readings,
                      row' = UpsertIfNewer(row, h, r)
               PROVE  Abstract!OwnEntity'
    BY DEF Abstract!Next, Abstract!Apply, Abstract!OwnEntity, UpsertIfNewer, BeliefOf,
       Abstract!UpsertIfNewer, Abstract!BeliefOf
  <2>1. BeliefOf(h, r).reading = r
    BY DEF BeliefOf
  <2> QED
    BY UpsertFacts, <2>1 DEF TypeOK, Abstract!OwnEntity
<1> QED
  BY <1>1, <1>2, UpsertIsAtomic, RepositoryTypeCorrect, PTL DEF ImplementsEntityBelief, Abstract!Spec

============================================================================
