------------------------------ MODULE Schemas ------------------------------
(***************************************************************************)
(* The schema that every reading has to pass, whichever backend made it.   *)
(* A reading is a record; a field is Absent if its key is missing and None *)
(* if it is null.  Upper and lower case are not told apart.                *)
(***************************************************************************)
EXTENDS Integers

CONSTANTS
  Statuses,     \* entity type -> canonical statuses the schema allows
  Blank,        \* values that are empty or white space
  None,         \* null; an event time that does not parse or has no zone
  Absent,       \* what a missing key holds
  NaN           \* the number that compares with nothing

Types == {"SHIPMENT", "INVOICE", "UNCLASSIFIED"}

AllowedStatuses(type) == IF type \in Types THEN Statuses[type] ELSE {}

(* str() makes a word of null.                                             *)
Str(value) == IF value = None THEN "None" ELSE value

(* The rest of the reading, where it has such a field: an object, or       *)
(* nothing.                                                                *)
IsObject(data) ==
  "normalized_payload" \in DOMAIN data =>
    data.normalized_payload \in {None, Absent, "object"}

(* Neither below 0 nor above 1: NaN is neither.                            *)
InRange(confidence) == confidence = NaN \/ confidence \in 0..1000

Valid(data) ==
  /\ data.entity_type \in Types
  /\ data.canonical_status \in Statuses[data.entity_type]
  /\ data.entity_id # Absent /\ Str(data.entity_id) \notin Blank
  /\ data.event_time \notin {None, Absent}
  /\ data.confidence \notin {None, Absent} /\ InRange(data.confidence)
  /\ IsObject(data)

ValueError == [error |-> "ValueError"]

FromDict(data) ==
  IF Valid(data) THEN [data EXCEPT !.entity_id = Str(@)] ELSE ValueError

(* The gate's test, with the threshold in thousandths.                     *)
IsLowConfidence(confidence, threshold) ==
  confidence # NaN /\ confidence < threshold
============================================================================
