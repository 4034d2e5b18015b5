---------------------------- MODULE GatewayData ----------------------------
(***************************************************************************)
(* The data the gateway's components share: what a normaliser reads out of *)
(* a stored payload, the belief an EntityState row holds, the confidence   *)
(* rule, and the comparison that protects a belief from late events.       *)
(***************************************************************************)
EXTENDS Integers

CONSTANTS
  Webhooks,    \* ids of RawWebhook rows
  Entities,    \* (entity_type, entity_id) pairs
  Statuses,    \* canonical statuses
  Readings,    \* the normalisation results the environment can produce
  Threshold,   \* LOW_CONFIDENCE_THRESHOLD, in thousandths
  None         \* absence of a row, a value or a decision

(***************************************************************************)
(* A reading is what NormalizationResult carries and the properties tell   *)
(* apart.  Times are the ticks of event_time; confidences are thousandths. *)
(***************************************************************************)
ReadingType ==
  [entity: Entities, status: Statuses, time: Nat, confidence: Int]

ASSUME ReadingsAssumption == Readings \subseteq ReadingType
ASSUME ThresholdAssumption == Threshold \in Int

(***************************************************************************)
(* An EntityState row: latest_event is the NormalizedEvent of `webhook'    *)
(* (the two are one to one), latest_status and latest_event_time are the   *)
(* fields of `reading'.  The reading's confidence is not in the row; it is *)
(* kept so that invariants can say where a belief came from.               *)
(***************************************************************************)
Belief == [webhook: Webhooks, reading: Readings]

ASSUME NoneAssumption == /\ None \notin Belief
                         /\ None \notin Webhooks
                         /\ None \notin Readings

BeliefOf(h, r) == [webhook |-> h, reading |-> r]

IsLowConfidence(r) == r.confidence < Threshold

(***************************************************************************)
(* upsert_if_newer as one step: insert the row if there is none, overwrite *)
(* it if the event is strictly newer, otherwise leave it.                  *)
(***************************************************************************)
UpsertIfNewer(state, h, r) ==
  IF state[r.entity] = None \/ r.time > state[r.entity].reading.time
    THEN [state EXCEPT ![r.entity] = BeliefOf(h, r)]
    ELSE state

============================================================================
