-------------------------- MODULE IngestionProofs ---------------------------
(***************************************************************************)
(* However many deliveries race through get_or_create, with whatever keys, *)
(* event ids and signatures: one row per event, one task per row, and      *)
(* every answer names a row of the sender's own event.                     *)
(*                                                                         *)
(* IInv says, for every stage of a request, what the statements before it  *)
(* have established.  Rows are never deleted, so a conflict that was met   *)
(* once is still there when the handler looks for it.                      *)
(***************************************************************************)
EXTENDS Ingestion, TLAPS

Looking == {"insert", "again", "by_key", "by_external"}

(* What uq_vendor_idempotency_key and uq_vendor_external_event keep.       *)
RowsAreDistinct == \A x, y \in rows : SameEvent(x, y) => x = y

(* A row is there from its INSERT on, and its creator is answered with it. *)
CreatorsKnowTheirRow ==
  \A d \in Deliveries :
    /\ d \in rows => answer[d] = d /\ pc[d] \in {"dispatch", "accepted", "unsent"}
    /\ pc[d] \in {"dispatch", "unsent"} => d \in rows

(* Nothing is looked up for a request that was not admitted, and the row   *)
(* it is answered with is one of the same event.                           *)
AnswersAreOfTheEvent ==
  \A d \in Deliveries :
    /\ pc[d] \in Looking => Admitted(d)
    /\ pc[d] \in Looking \cup {"new", "refused"} => answer[d] = None
    /\ pc[d] = "accepted" => answer[d] # None
    /\ answer[d] # None => Admitted(d) /\ SameEvent(d, answer[d])

(* A conflict stands: what the constraint fired on can be looked up.       *)
ConflictsStand ==
  \A d \in Deliveries :
    /\ pc[d] \in {"again", "by_key"} => Conflict(d)
    /\ pc[d] = "by_external" => WithEventId(d) # {}
    /\ pc[d] # "error"

(* The creator publishes, once, and nobody else does.                      *)
CreatorsSend ==
  \A d \in Deliveries :
    sent[d] = IF d \in rows /\ pc[d] = "accepted" THEN 1 ELSE 0

IInv ==
  /\ TypeOK
  /\ RowsAreDistinct
  /\ CreatorsKnowTheirRow
  /\ AnswersAreOfTheEvent
  /\ ConflictsStand
  /\ CreatorsSend

----------------------------------------------------------------------------
(***************************************************************************)
(* Deliveries of the same event are of the same vendor, and being of the   *)
(* same event is reflexive and symmetric.                                  *)
(***************************************************************************)
LEMMA SameEventFacts ==
  ASSUME NEW d \in Deliveries, NEW x \in Deliveries
  PROVE  /\ SameEvent(d, d)
         /\ SameEvent(d, x) => SameEvent(x, d)
         /\ SameEvent(d, x) => Content[d].vendor = Content[x].vendor
BY DEF SameEvent, SameKey, SameEventId, KeyOf, BuildIdempotencyKey

(***************************************************************************)
(* A lookup of d in rows of its own event, which leads on to a stage whose *)
(* facts hold if it finds nothing, preserves the invariant.                *)
(***************************************************************************)
LEMMA LookupStep ==
  ASSUME IInv, NEW d \in Deliveries, NEW found \in SUBSET rows,
         NEW p \in Looking, Lookup(d, found, p),
         pc[d] \in Looking \cup {"new"}, Admitted(d),
         \A x \in found : SameEvent(d, x),
         found = {} /\ p \in {"again", "by_key"} => Conflict(d),
         found = {} /\ p = "by_external" => WithEventId(d) # {}
  PROVE  IInv'
<1>1. CASE \E x \in found : Accepted(d, x)
  <2>1. PICK x \in found : Accepted(d, x)
    BY <1>1
  <2>2. d \notin rows /\ x \in rows /\ x \in Deliveries
    BY DEF IInv, CreatorsKnowTheirRow, Looking, TypeOK
  <2>3. /\ pc' = [pc EXCEPT ![d] = "accepted"]
        /\ answer' = [answer EXCEPT ![d] = x]
        /\ rows' = rows /\ sent' = sent
    BY <2>1 DEF Accepted, Lookup
  <2>4. TypeOK'
    BY <2>2, <2>3 DEF IInv, TypeOK, PCs
  <2>5. RowsAreDistinct'
    BY <2>3 DEF IInv, RowsAreDistinct
  <2>6. CreatorsKnowTheirRow'
    BY <2>2, <2>3 DEF IInv, TypeOK, CreatorsKnowTheirRow
  <2>7. AnswersAreOfTheEvent'
    BY <2>2, <2>3, NoneIsNoDelivery DEF IInv, TypeOK, AnswersAreOfTheEvent, Looking
  <2>8. ConflictsStand'
    BY <2>3 DEF IInv, TypeOK, ConflictsStand, Conflict, WithKey, WithEventId
  <2>9. CreatorsSend'
    BY <2>2, <2>3 DEF IInv, TypeOK, CreatorsSend
  <2> QED
    BY <2>4, <2>5, <2>6, <2>7, <2>8, <2>9 DEF IInv
<1>2. CASE found = {} /\ Goto(d, p)
  <2>1. d \notin rows
    BY DEF IInv, CreatorsKnowTheirRow, Looking
  <2>2. /\ pc' = [pc EXCEPT ![d] = p]
        /\ answer' = answer /\ rows' = rows /\ sent' = sent
    BY <1>2 DEF Goto, Lookup
  <2>3. TypeOK'
    BY <2>2 DEF IInv, TypeOK, PCs, Looking
  <2>4. RowsAreDistinct'
    BY <2>2 DEF IInv, RowsAreDistinct
  <2>5. CreatorsKnowTheirRow'
    BY <2>1, <2>2 DEF IInv, TypeOK, CreatorsKnowTheirRow, Looking
  <2>6. AnswersAreOfTheEvent'
    BY <2>2 DEF IInv, TypeOK, AnswersAreOfTheEvent, Looking
  <2>7. ConflictsStand'
    BY <1>2, <2>2 DEF IInv, TypeOK, ConflictsStand, Conflict, WithKey, WithEventId, Looking
  <2>8. CreatorsSend'
    BY <2>1, <2>2 DEF IInv, TypeOK, CreatorsSend
  <2> QED
    BY <2>3, <2>4, <2>5, <2>6, <2>7, <2>8 DEF IInv
<1> QED
  BY <1>1, <1>2 DEF Lookup

(***************************************************************************)
(* The INSERT is the only step that adds a row, and it adds one that is of *)
(* no other row's event.                                                   *)
(***************************************************************************)
LEMMA InsertStep ==
  ASSUME IInv, NEW d \in Deliveries, Insert(d)
  PROVE  IInv'
<1>1. /\ d \notin rows /\ Admitted(d) /\ answer[d] = None
      /\ rows \subseteq Deliveries
      /\ \A x \in rows : ~SameEvent(d, x) /\ ~SameEvent(x, d)
  <2>1. \A x \in rows : ~SameEvent(d, x)
    BY DEF Insert, Conflict, WithKey, WithEventId, SameEvent
  <2> QED
    BY <2>1, SameEventFacts
       DEF Insert, IInv, TypeOK, CreatorsKnowTheirRow, AnswersAreOfTheEvent, Looking
<1>2. /\ pc' = [pc EXCEPT ![d] = "dispatch"]
      /\ answer' = [answer EXCEPT ![d] = d]
      /\ rows' = rows \cup {d} /\ sent' = sent
      /\ pc[d] = "insert"
  BY DEF Insert
<1>3. TypeOK'
  BY <1>2 DEF IInv, TypeOK, PCs
<1>4. RowsAreDistinct'
  BY <1>1, <1>2 DEF IInv, RowsAreDistinct
<1>5. CreatorsKnowTheirRow'
  BY <1>2 DEF IInv, TypeOK, CreatorsKnowTheirRow
<1>6. AnswersAreOfTheEvent'
  BY <1>1, <1>2, SameEventFacts, NoneIsNoDelivery
     DEF IInv, TypeOK, AnswersAreOfTheEvent, Looking
<1>7. ConflictsStand'
  BY <1>2 DEF IInv, TypeOK, ConflictsStand, Conflict, WithKey, WithEventId
<1>8. CreatorsSend'
  BY <1>1, <1>2 DEF IInv, TypeOK, CreatorsSend
<1> QED
  BY <1>3, <1>4, <1>5, <1>6, <1>7, <1>8 DEF IInv

(***************************************************************************)
(* A request that is refused, or whose INSERT is, goes on without a row.   *)
(***************************************************************************)
LEMMA GotoStep ==
  ASSUME IInv, NEW d \in Deliveries, Refuse(d) \/ InsertConflict(d)
  PROVE  IInv'
<1> DEFINE p == IF pc[d] = "new" THEN "refused" ELSE "again"
<1>1. /\ pc' = [pc EXCEPT ![d] = p]
      /\ answer' = answer /\ rows' = rows /\ sent' = sent
      /\ pc[d] \in {"new", "insert"}
      /\ p = "again" => pc[d] = "insert" /\ Conflict(d)
  BY DEF Refuse, InsertConflict, Goto
<1>2. d \notin rows
  BY <1>1 DEF IInv, CreatorsKnowTheirRow
<1>3. p \in {"refused", "again"}
  OBVIOUS
<1> HIDE DEF p
<1>4. TypeOK'
  BY <1>1, <1>3 DEF IInv, TypeOK, PCs
<1>5. RowsAreDistinct'
  BY <1>1 DEF IInv, RowsAreDistinct
<1>6. CreatorsKnowTheirRow'
  BY <1>1, <1>2, <1>3 DEF IInv, TypeOK, CreatorsKnowTheirRow
<1>7. AnswersAreOfTheEvent'
  BY <1>1, <1>3 DEF IInv, TypeOK, AnswersAreOfTheEvent, Looking
<1>8. ConflictsStand'
  BY <1>1, <1>3 DEF IInv, TypeOK, ConflictsStand, Conflict, WithKey, WithEventId
<1>9. CreatorsSend'
  BY <1>1, <1>2 DEF IInv, TypeOK, CreatorsSend
<1> QED
  BY <1>4, <1>5, <1>6, <1>7, <1>8, <1>9 DEF IInv

(***************************************************************************)
(* The publication, whether it succeeds or fails, changes what was sent    *)
(* only for the row whose creator makes it.                                *)
(***************************************************************************)
LEMMA DispatchStep ==
  ASSUME IInv, NEW d \in Deliveries, Dispatch(d) \/ DispatchFails(d)
  PROVE  IInv'
<1>1. d \in rows /\ answer[d] = d /\ pc[d] = "dispatch"
  BY DEF Dispatch, DispatchFails, IInv, CreatorsKnowTheirRow
<1>2. rows' = rows /\ answer' = answer
  BY <1>1 DEF Dispatch, DispatchFails, Accepted, Goto, IInv, TypeOK
<1>3. \/ /\ pc' = [pc EXCEPT ![d] = "accepted"]
         /\ sent' = [sent EXCEPT ![d] = @ + 1]
      \/ /\ pc' = [pc EXCEPT ![d] = "unsent"]
         /\ sent' = sent
  BY DEF Dispatch, DispatchFails, Accepted, Goto
<1>4. TypeOK'
  BY <1>2, <1>3 DEF IInv, TypeOK, PCs
<1>5. RowsAreDistinct'
  BY <1>2 DEF IInv, RowsAreDistinct
<1>6. CreatorsKnowTheirRow'
  BY <1>1, <1>2, <1>3 DEF IInv, TypeOK, CreatorsKnowTheirRow
<1>7. AnswersAreOfTheEvent'
  BY <1>1, <1>2, <1>3, NoneIsNoDelivery DEF IInv, TypeOK, AnswersAreOfTheEvent, Looking
<1>8. ConflictsStand'
  BY <1>2, <1>3 DEF IInv, TypeOK, ConflictsStand, Conflict, WithKey, WithEventId
<1>9. CreatorsSend'
  BY <1>1, <1>2, <1>3 DEF IInv, TypeOK, CreatorsSend
<1> QED
  BY <1>4, <1>5, <1>6, <1>7, <1>8, <1>9 DEF IInv

(***************************************************************************)
(* The invariant is inductive.                                             *)
(***************************************************************************)
LEMMA IInvStep ==
  ASSUME IInv, [Next]_vars
  PROVE  IInv'
<1>1. ASSUME NEW d \in Deliveries, Get(d) PROVE IInv'
  <2>1. WithKey(d) \in SUBSET rows /\ \A x \in WithKey(d) : SameEvent(d, x)
    BY DEF WithKey, SameEvent
  <2> QED
    BY <1>1, <2>1, LookupStep DEF Get, Looking
<1>2. ASSUME NEW d \in Deliveries, GetAgain(d) PROVE IInv'
  <2>1. WithKey(d) \in SUBSET rows /\ \A x \in WithKey(d) : SameEvent(d, x)
    BY DEF WithKey, SameEvent
  <2>2. Conflict(d) /\ Admitted(d)
    BY <1>2 DEF GetAgain, IInv, ConflictsStand, AnswersAreOfTheEvent, Looking
  <2> QED
    BY <1>2, <2>1, <2>2, LookupStep DEF GetAgain, Looking
<1>3. ASSUME NEW d \in Deliveries, ByKey(d) PROVE IInv'
  <2>1. WithKey(d) \in SUBSET rows /\ \A x \in WithKey(d) : SameEvent(d, x)
    BY DEF WithKey, SameEvent
  <2>2. Conflict(d) /\ Admitted(d)
    BY <1>3 DEF ByKey, IInv, ConflictsStand, AnswersAreOfTheEvent, Looking
  <2>3. WithKey(d) = {} => WithEventId(d) # {}
    BY <2>2 DEF Conflict
  <2> QED
    BY <1>3, <2>1, <2>2, <2>3, LookupStep DEF ByKey, Looking
<1>4. ASSUME NEW d \in Deliveries, ByExternal(d) PROVE IInv'
  <2>1. WithEventId(d) \in SUBSET rows /\ \A x \in WithEventId(d) : SameEvent(d, x)
    BY DEF WithEventId, SameEvent
  <2>2. WithEventId(d) # {} /\ Admitted(d)
    BY <1>4 DEF ByExternal, IInv, ConflictsStand, AnswersAreOfTheEvent, Looking
  <2>3. Lookup(d, WithEventId(d), "insert")
    BY <1>4, <2>2 DEF ByExternal, Lookup
  <2> QED
    BY <1>4, <2>1, <2>2, <2>3, LookupStep DEF ByExternal, Looking
<1>5. CASE UNCHANGED vars
  BY <1>5 DEF vars, IInv, TypeOK, RowsAreDistinct, CreatorsKnowTheirRow,
     AnswersAreOfTheEvent, ConflictsStand, CreatorsSend, Conflict, WithKey, WithEventId
<1> QED
  BY <1>1, <1>2, <1>3, <1>4, <1>5, InsertStep, GotoStep, DispatchStep
     DEF Next, Handle

(***************************************************************************)
(* Type correctness and the invariant, for any set of deliveries.          *)
(***************************************************************************)
THEOREM IngestionInvariant == Spec => []IInv
<1>1. Init => IInv
  BY NoneIsNoDelivery DEF Init, IInv, TypeOK, PCs, RowsAreDistinct, CreatorsKnowTheirRow,
     AnswersAreOfTheEvent, ConflictsStand, CreatorsSend, Looking
<1> QED
  BY <1>1, IInvStep, PTL DEF Spec

(***************************************************************************)
(* The model's types are kept, and every answer names a stored row.        *)
(***************************************************************************)
THEOREM IngestionTypeCorrect == Spec => []TypeOK
<1>1. IInv => TypeOK
  BY DEF IInv
<1> QED
  BY <1>1, IngestionInvariant, PTL

(***************************************************************************)
(* create_or_get answers every duplicate: whichever constraint refused the *)
(* INSERT, one of the handler's lookups finds the row.                     *)
(***************************************************************************)
THEOREM DuplicatesAreAnswered == Spec => []DuplicateIsNoError
<1>1. IInv => DuplicateIsNoError
  BY DEF IInv, ConflictsStand, DuplicateIsNoError
<1> QED
  BY <1>1, IngestionInvariant, PTL

(***************************************************************************)
(* All deliveries of one event publish at most one task, also those of a   *)
(* vendor that reuses a key for another event.                             *)
(***************************************************************************)
THEOREM OneTaskPerEvent == Spec => []EventIsSentOnce
<1>1. IInv => EventIsSentOnce
  BY DEF IInv, CreatorsSend, RowsAreDistinct, EventIsSentOnce
<1> QED
  BY <1>1, IngestionInvariant, PTL

(***************************************************************************)
(* Deliveries of one event are answered with one row, if the vendor does   *)
(* not repeat a key with another event id: then being of the same event is *)
(* transitive, through the event id if there is one and else the key.      *)
(***************************************************************************)
THEOREM RedeliveriesAgree == Spec => []RedeliveryNamesOriginal
<1>1. IInv => RedeliveryNamesOriginal
  <2> SUFFICES ASSUME IInv, NEW d \in KeyKeepers, NEW x \in KeyKeepers,
                      pc[d] = "accepted", pc[x] = "accepted", SameEvent(d, x)
               PROVE  answer[d] = answer[x]
    BY DEF RedeliveryNamesOriginal
  <2> DEFINE a == answer[d]
             b == answer[x]
  <2>1. d \in Deliveries /\ x \in Deliveries
    BY DEF KeyKeepers
  <2>2. /\ a \in rows /\ b \in rows /\ a \in Deliveries /\ b \in Deliveries
        /\ SameEvent(d, a) /\ SameEvent(x, b)
    BY <2>1 DEF IInv, AnswersAreOfTheEvent, TypeOK
  <2> SUFFICES a = b
    BY DEF a, b
  <2> HIDE DEF a, b
  <2>3. ASSUME NEW y \in KeyKeepers, NEW z \in Deliveries, SameEvent(y, z)
        PROVE  /\ Content[y].external = Content[z].external
               /\ Content[y].vendor = Content[z].vendor
               /\ Content[y].external = None => SameKey(y, z)
    BY <2>3, SameEventFacts DEF KeyKeepers, SameEvent, SameEventId
  <2>4. /\ Content[d].external = Content[a].external
        /\ Content[d].external = Content[x].external
        /\ Content[x].external = Content[b].external
        /\ Content[d].vendor = Content[a].vendor
        /\ Content[d].vendor = Content[x].vendor
        /\ Content[x].vendor = Content[b].vendor
    BY <2>1, <2>2, <2>3
  <2>5. CASE Content[d].external # None
    BY <2>2, <2>4, <2>5 DEF IInv, RowsAreDistinct, SameEvent, SameEventId
  <2>6. CASE Content[d].external = None
    <3>1. SameKey(d, a) /\ SameKey(d, x) /\ SameKey(x, b)
      BY <2>1, <2>2, <2>3, <2>4, <2>6
    <3> QED
      BY <2>2, <3>1 DEF IInv, RowsAreDistinct, SameEvent, SameKey
  <2> QED
    BY <2>5, <2>6
<1> QED
  BY <1>1, IngestionInvariant, PTL

(***************************************************************************)
(* Whatever a delivery is answered with is kept under the name of a vendor *)
(* that does not sign, or both it and the row's creator were signed with   *)
(* that vendor's secret.                                                   *)
(***************************************************************************)
THEOREM AnswersAreSigned == Spec => []OnlySignedIsKept
<1>1. IInv => OnlySignedIsKept
  <2> SUFFICES ASSUME IInv, NEW d \in Deliveries, answer[d] # None,
                      NEW x \in {d, answer[d]}
               PROVE  \/ Request[x].signed = SecretForVendor(Content[answer[d]].vendor)
                      \/ /\ SecretForVendor(Content[answer[d]].vendor) = None
                         /\ ~RequireSignature
    BY DEF OnlySignedIsKept
  <2>1. answer[d] \in rows /\ answer[d] \in Deliveries
    BY DEF IInv, TypeOK
  <2>2. Admitted(d) /\ SameEvent(d, answer[d])
    BY DEF IInv, AnswersAreOfTheEvent
  <2>3. Admitted(answer[d])
    BY <2>1, NoneIsNoDelivery DEF IInv, AnswersAreOfTheEvent, CreatorsKnowTheirRow
  <2>4. Content[x].vendor = Content[answer[d]].vendor /\ Admitted(x)
    BY <2>1, <2>2, <2>3, SameEventFacts
  <2> QED
    BY <2>4 DEF Admitted, VerifySignature
<1> QED
  BY <1>1, IngestionInvariant, PTL

(***************************************************************************)
(* A webhook answered with 202 has been enqueued, is about to be, or its   *)
(* creator was told that it was not.                                       *)
(***************************************************************************)
THEOREM AcceptedOrReported == Spec => []AcceptedIsSentOrReported
<1>1. IInv => AcceptedIsSentOrReported
  BY NoneIsNoDelivery DEF IInv, TypeOK, AnswersAreOfTheEvent, CreatorsKnowTheirRow,
     CreatorsSend, AcceptedIsSentOrReported, SentOrAboutTo
<1> QED
  BY <1>1, IngestionInvariant, PTL
============================================================================
