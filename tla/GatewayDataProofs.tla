------------------------- MODULE GatewayDataProofs -------------------------
(***************************************************************************)
(* What the shared operators return, for the proofs that use them.         *)
(***************************************************************************)
EXTENDS GatewayData, TLAPS

(***************************************************************************)
(* upsert_if_newer touches only the row of the event's entity, leaves a    *)
(* row there that is at least as new as the event, and replaces an         *)
(* existing row only by a strictly newer one.                              *)
(***************************************************************************)
LEMMA UpsertFacts ==
  ASSUME NEW S \in [Entities -> Belief \cup {None}],
         NEW h \in Webhooks, NEW r \in Readings
  PROVE  LET T == UpsertIfNewer(S, h, r) IN
         /\ T \in [Entities -> Belief \cup {None}]
         /\ r.entity \in Entities
         /\ \A e \in Entities \ {r.entity} : T[e] = S[e]
         /\ T[r.entity] \in {S[r.entity], BeliefOf(h, r)}
         /\ T[r.entity] # None
         /\ T[r.entity].reading.time >= r.time
         /\ \A e \in Entities : S[e] # None =>
              /\ T[e] # None
              /\ T[e] = S[e] \/ T[e].reading.time > S[e].reading.time
              /\ T[e].reading.time >= S[e].reading.time
<1>1. r \in ReadingType
  BY ReadingsAssumption
<1>2. BeliefOf(h, r) \in Belief /\ BeliefOf(h, r) # None
  BY NoneAssumption DEF Belief, BeliefOf
<1>3. \A e \in Entities : S[e] # None =>
        S[e] \in Belief /\ S[e].reading \in ReadingType
  BY ReadingsAssumption DEF Belief
<1>4. CASE S[r.entity] = None \/ r.time > S[r.entity].reading.time
  <2>1. UpsertIfNewer(S, h, r) = [S EXCEPT ![r.entity] = BeliefOf(h, r)]
    BY <1>4 DEF UpsertIfNewer
  <2>2. BeliefOf(h, r).reading = r
    BY DEF BeliefOf
  <2> QED
    BY <1>1, <1>2, <1>3, <1>4, <2>1, <2>2 DEF ReadingType
<1>5. CASE ~(S[r.entity] = None \/ r.time > S[r.entity].reading.time)
  <2>1. UpsertIfNewer(S, h, r) = S
    BY <1>5 DEF UpsertIfNewer
  <2> QED
    BY <1>1, <1>3, <1>5, <2>1 DEF ReadingType
<1> QED
  BY <1>4, <1>5

============================================================================
