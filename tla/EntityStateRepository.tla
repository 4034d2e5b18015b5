----------------------- MODULE EntityStateRepository -----------------------
(***************************************************************************)
(* upsert_if_newer statement by statement, on PostgreSQL at READ           *)
(* COMMITTED: concurrent transactions interleave between the SELECT ...    *)
(* FOR UPDATE of get_or_create, its INSERT, the retried SELECT after an    *)
(* IntegrityError, the comparison and the COMMIT.  Every element of Txns   *)
(* is one call, made once.                                                 *)
(***************************************************************************)
EXTENDS GatewayData

CONSTANTS
  Txns,      \* calls of upsert_if_newer
  Offer      \* txn -> the event it was called with

ASSUME OfferAssumption == Offer \in [Txns -> Belief]
ASSUME NoneIsNoTxn == None \notin Txns

VARIABLES
  row,       \* the committed EntityState row of every entity
  inserter,  \* the transaction whose INSERT of the row is not yet committed
  holder,    \* the transaction that holds the row lock
  pc,        \* the statement each transaction is at
  write      \* the UPDATE a transaction has made and not yet committed

vars == <<row, inserter, holder, pc, write>>

EntityOf(t) == Offer[t].reading.entity

PCs == {"get", "insert", "compare", "commit", "done", "aborted"}

Init ==
  /\ row = [e \in Entities |-> None]
  /\ inserter = [e \in Entities |-> None]
  /\ holder = [e \in Entities |-> None]
  /\ pc = [t \in Txns |-> "get"]
  /\ write = [t \in Txns |-> None]

----------------------------------------------------------------------------
\* Fault variant: the row is read without FOR UPDATE, so nobody is waited for.
GetUnlocked(t) ==
  /\ pc[t] = "get"
  /\ row[EntityOf(t)] # None
  /\ IF Offer[t].reading.time > row[EntityOf(t)].reading.time
       THEN /\ write' = [write EXCEPT ![t] = Offer[t]]
       ELSE /\ UNCHANGED write
  /\ pc' = [pc EXCEPT ![t] = "commit"]
  /\ UNCHANGED <<row, inserter, holder>>

(***************************************************************************)
(* SELECT ... FOR UPDATE.  It waits while another transaction holds the    *)
(* row, and then sees what that transaction committed.  An INSERT that is  *)
(* not committed is invisible to it.                                       *)
(***************************************************************************)
GetRow(t) ==
  /\ pc[t] = "get"
  /\ row[EntityOf(t)] # None
  /\ holder[EntityOf(t)] = None
  /\ holder' = [holder EXCEPT ![EntityOf(t)] = t]
  /\ pc' = [pc EXCEPT ![t] = "compare"]
  /\ UNCHANGED <<row, inserter, write>>

GetNothing(t) ==
  /\ pc[t] = "get"
  /\ row[EntityOf(t)] = None
  /\ pc' = [pc EXCEPT ![t] = "insert"]
  /\ UNCHANGED <<row, inserter, holder, write>>

(***************************************************************************)
(* The INSERT of get_or_create, in a savepoint.  It waits for another      *)
(* uncommitted INSERT of the same entity; if a row is committed by then    *)
(* the unique constraint rejects it, the savepoint is rolled back and      *)
(* get_or_create selects again.                                            *)
(***************************************************************************)
\* Fault variant: no unique constraint on (entity_type, entity_id).
InsertUnconstrained(t) ==
  /\ pc[t] = "insert"
  /\ inserter' = [inserter EXCEPT ![EntityOf(t)] = t]
  /\ pc' = [pc EXCEPT ![t] = "commit"]
  /\ UNCHANGED <<row, holder, write>>

Insert(t) ==
  /\ pc[t] = "insert"
  /\ inserter[EntityOf(t)] = None
  /\ row[EntityOf(t)] = None
  /\ inserter' = [inserter EXCEPT ![EntityOf(t)] = t]
  /\ pc' = [pc EXCEPT ![t] = "commit"]
  /\ UNCHANGED <<row, holder, write>>

\* Fault variant: the loser of the race gives up instead of selecting again,
\* and its caller believes the event was applied.
InsertGivesUp(t) ==
  /\ pc[t] = "insert"
  /\ row[EntityOf(t)] # None
  /\ pc' = [pc EXCEPT ![t] = "done"]
  /\ UNCHANGED <<row, inserter, holder, write>>

InsertConflict(t) ==
  /\ pc[t] = "insert"
  /\ row[EntityOf(t)] # None
  /\ pc' = [pc EXCEPT ![t] = "get"]
  /\ UNCHANGED <<row, inserter, holder, write>>

(***************************************************************************)
(* if event.event_time > state.latest_event_time: save.                    *)
(***************************************************************************)
\* Fault variant: the reading is saved where the row's columns belong.
CompareStoresReading(t) ==
  /\ pc[t] = "compare"
  /\ write' = [write EXCEPT ![t] = Offer[t].reading]
  /\ pc' = [pc EXCEPT ![t] = "commit"]
  /\ UNCHANGED <<row, inserter, holder>>

Compare(t) ==
  /\ pc[t] = "compare"
  /\ write' = IF Offer[t].reading.time > row[EntityOf(t)].reading.time
                THEN [write EXCEPT ![t] = Offer[t]]
                ELSE write
  /\ pc' = [pc EXCEPT ![t] = "commit"]
  /\ UNCHANGED <<row, inserter, holder>>

Released(lock, t) == [e \in Entities |-> IF lock[e] = t THEN None ELSE lock[e]]

\* What the entity's row is once t has committed.
Committed(t) ==
  IF inserter[EntityOf(t)] = t THEN Offer[t]
  ELSE IF write[t] # None THEN write[t]
  ELSE row[EntityOf(t)]

Commit(t) ==
  /\ pc[t] = "commit"
  /\ row' = [row EXCEPT ![EntityOf(t)] = Committed(t)]
  /\ inserter' = Released(inserter, t)
  /\ holder' = Released(holder, t)
  /\ pc' = [pc EXCEPT ![t] = "done"]
  /\ write' = [write EXCEPT ![t] = None]

(***************************************************************************)
(* The transaction fails before its COMMIT (an error in the surrounding    *)
(* atomic block, a lost connection, a killed worker).                      *)
(***************************************************************************)
Rollback(t) ==
  /\ pc[t] \in {"get", "insert", "compare", "commit"}
  /\ inserter' = Released(inserter, t)
  /\ holder' = Released(holder, t)
  /\ pc' = [pc EXCEPT ![t] = "aborted"]
  /\ write' = [write EXCEPT ![t] = None]
  /\ UNCHANGED row

----------------------------------------------------------------------------
\* A statement of t other than the ones a failure takes.
Step(t) ==
  \/ GetRow(t)
  \/ GetNothing(t)
  \/ Insert(t)
  \/ InsertConflict(t)
  \/ Compare(t)
  \/ Commit(t)

Terminated == \A t \in Txns : pc[t] \in {"done", "aborted"}

Next == \/ \E t \in Txns : Step(t) \/ Rollback(t)
        \/ Terminated /\ UNCHANGED vars

Spec == Init /\ [][Next]_vars

----------------------------------------------------------------------------
TypeOK ==
  /\ row \in [Entities -> Belief \cup {None}]
  /\ inserter \in [Entities -> Txns \cup {None}]
  /\ holder \in [Entities -> Txns \cup {None}]
  /\ pc \in [Txns -> PCs]
  /\ write \in [Txns -> Belief \cup {None}]

\* A lock or a pending INSERT belongs to a transaction at the right statement;
\* a row is locked only once it is committed, and inserted only before.
LocksHeld ==
  \A e \in Entities :
    /\ holder[e] # None =>
         /\ EntityOf(holder[e]) = e
         /\ pc[holder[e]] \in {"compare", "commit"}
         /\ row[e] # None
    /\ inserter[e] # None =>
         /\ EntityOf(inserter[e]) = e
         /\ pc[inserter[e]] = "commit"
         /\ row[e] = None

\* A transaction that has read or written the row has it locked or inserted.
TxnsOwnTheirRow ==
  \A t \in Txns :
    /\ pc[t] = "compare" => holder[EntityOf(t)] = t
    /\ pc[t] = "commit" => t \in {holder[EntityOf(t)], inserter[EntityOf(t)]}

\* What was compared is still true at COMMIT.
ComparisonStands ==
  \A t \in Txns :
    /\ write[t] # None =>
         /\ pc[t] = "commit"
         /\ holder[EntityOf(t)] = t
         /\ write[t] = Offer[t]
         /\ Offer[t].reading.time > row[EntityOf(t)].reading.time
    /\ (pc[t] = "commit" /\ holder[EntityOf(t)] = t /\ write[t] = None) =>
         row[EntityOf(t)].reading.time >= Offer[t].reading.time

(***************************************************************************)
(* SELECT ... FOR UPDATE does what upsert_if_newer needs it for: between   *)
(* the comparison of event times and the COMMIT nobody else changes the    *)
(* row, so the outcome of the comparison still holds when it is written.   *)
(***************************************************************************)
LockDiscipline == LocksHeld /\ TxnsOwnTheirRow /\ ComparisonStands

(***************************************************************************)
(* The newest event wins whatever the interleaving: the row of an entity   *)
(* is at least as new as every event whose call returned, and it is itself *)
(* the event of a call that returned.  In particular the loser of the race *)
(* to create the row (IntegrityError inside get_or_create) is not          *)
(* forgotten, and a rolled back call leaves no trace.                      *)
(***************************************************************************)
NewestCommittedWins ==
  /\ \A t \in Txns :
       pc[t] = "done" =>
         /\ row[EntityOf(t)] # None
         /\ row[EntityOf(t)].reading.time >= Offer[t].reading.time
  /\ \A e \in Entities :
       row[e] # None => \E t \in Txns : pc[t] = "done" /\ row[e] = Offer[t]

(***************************************************************************)
(* The interleaved statements implement the one-step upsert: every change  *)
(* of a committed row is one EntityBelief!Apply, so concurrent workers and *)
(* reviewers cannot overwrite a newer belief with an older one.            *)
(***************************************************************************)
Abstract == INSTANCE EntityBelief WITH belief <- row
ImplementsEntityBelief == Abstract!Spec

============================================================================
