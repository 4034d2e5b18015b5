-------------------------- MODULE RulesNormalizer --------------------------
(***************************************************************************)
(* The rule-based normaliser: what it reads out of a payload, with a       *)
(* vendor's profile or without one, and how much it trusts the reading.    *)
(*                                                                         *)
(* A document is a sequence of entries <<key, node>> in the order of the   *)
(* JSON text; a node is a [value], a [doc], which is a nested document, or *)
(* a [list] of nodes.  A key or a path is the sequence of the segments     *)
(* that its dots separate, a status token the sequence of its words, a     *)
(* confidence is in thousandths.  The key lists, the vocabularies and what *)
(* the text of a key or a value contains are parameters, and so is         *)
(* flatten_payload, which Flattening defines.                              *)
(***************************************************************************)
EXTENDS FiniteSets, Integers, Schemas, SequencesExt

CONSTANTS
  Flatten(_),   \* document -> its <<path, value>>, as flatten_payload lists them
  ID_KEYS, TIME_KEYS, STATUS_KEYS,     \* sequences of keys, best first
  SHIPMENT_ID_KEYS, INVOICE_ID_KEYS,   \* keys that name the entity type
  SHIPMENT_HINTS, INVOICE_HINTS,       \* words
  VENDOR_NAMING_KEYS,                  \* keys that name the sender
  Table,        \* entity type -> [token -> canonical status]
  Within,       \* <<text, word>>: the word occurs in the key or value
  Token,        \* value -> status_token, as words
  TimeOf,       \* value -> the instant it parses as, or None
  Overflows,    \* integers beyond the range of a float, which nothing parses
  Empty,        \* the value "" or null
  Now           \* an instant no payload names

Values == DOMAIN Token \cup {Empty}
Instants == {TimeOf[v] : v \in DOMAIN Token} \ {None}

(* What the rules may make of a payload.                                   *)
RuleReading ==
  [entity_type : Types, entity_id : Values,
   canonical_status : UNION {Statuses[t] : t \in Types},
   event_time : Instants \cup {Now}, confidence : 0..1000,
   source_status : Values \cup {None}]

ASSUME RulesAssumption ==
  /\ DOMAIN Statuses = Types
  /\ Statuses["UNCLASSIFIED"] = {"UNKNOWN"}
  /\ "IN_TRANSIT" \in Statuses["SHIPMENT"] /\ "ISSUED" \in Statuses["INVOICE"]
  /\ \A t \in {"SHIPMENT", "INVOICE"} : \A w \in DOMAIN Table[t] :
       Table[t][w] \in Statuses[t]
  /\ {ID_KEYS, TIME_KEYS, STATUS_KEYS} \subseteq Seq(STRING)
  /\ IsFiniteSet(SHIPMENT_HINTS) /\ IsFiniteSet(INVOICE_HINTS)
  /\ Token \in [DOMAIN Token -> Seq(STRING)]
  /\ \A v \in Overflows : TimeOf[v] = None

(* Null is no value, no number, no status and no reading; NaN is none of   *)
(* the numbers; nothing is read as the time at which it is read.           *)
ASSUME NullAssumption ==
  /\ \A null \in {None, Absent} :
       null \notin Values /\ null \notin 0..1000 /\ null # Now
  /\ NaN \notin 0..1000
  /\ \A t \in Types : None \notin Statuses[t]
  /\ None \notin RuleReading
  /\ None \notin [error : {"NormalizationError", "ValueError", "OverflowError",
                           "ConnectionError"}]
  /\ Absent \notin Instants /\ Now \notin Instants

(* The entity type of a profile that names none: the empty string.         *)
Untyped == "untyped"

NoProfile == [entity_type |-> Untyped, id_paths |-> <<>>, status_paths |-> <<>>,
              time_paths |-> <<>>, status_map |-> <<>>]

----------------------------------------------------------------------------
(* The flattened payload is a dict: a sequence of <<path, value>>.         *)
Paths(flat) == {flat[i][1] : i \in DOMAIN flat}

Contents(flat) == {flat[i][2] : i \in DOMAIN flat}

ValueAt(flat, path) == flat[CHOOSE i \in DOMAIN flat : flat[i][1] = path][2]

Bare(keys) == [i \in DOMAIN keys |-> <<keys[i]>>]

(* The first of the keys found whole, or else as a last segment, with a    *)
(* value that is not empty: <<key, value>>, or <<None, None>>.             *)
FirstEntry(flat, keys) ==
  LET whole == {i \in DOMAIN keys :
                  keys[i] \in Paths(flat) /\ ValueAt(flat, keys[i]) # Empty}
      ends(k) == {j \in DOMAIN flat :
                    <<Last(flat[j][1])>> = k /\ flat[j][2] # Empty}
      suffix == {i \in DOMAIN keys : ends(keys[i]) # {}}
  IN IF whole # {}
       THEN <<keys[Min(whole)], ValueAt(flat, keys[Min(whole)])>>
     ELSE IF suffix # {}
       THEN <<keys[Min(suffix)], flat[Min(ends(keys[Min(suffix)]))][2]>>
     ELSE <<None, None>>

----------------------------------------------------------------------------
(* Words of a vocabulary that occur in the keys and values of the payload, *)
(* the ones that name the sender left out.                                 *)
HintsIn(flat, hints) ==
  {h \in hints : \E i \in DOMAIN flat :
     /\ Last(flat[i][1]) \notin VENDOR_NAMING_KEYS
     /\ \/ <<flat[i][2], h>> \in Within
        \/ \E j \in DOMAIN flat[i][1] : <<flat[i][1][j], h>> \in Within}

PROFILE_CONFIDENCE == 970
ID_KEY_CONFIDENCE == 900

AtMost(n, limit) == IF n < limit THEN n ELSE limit

(* Fault variant: the profile has no say.                                  *)
ClassifyByPayload(flat, idKey, profile) ==
  IF idKey # None /\ Last(idKey) \in SHIPMENT_ID_KEYS
    THEN <<"SHIPMENT", ID_KEY_CONFIDENCE>>
  ELSE IF idKey # None /\ Last(idKey) \in INVOICE_ID_KEYS
    THEN <<"INVOICE", ID_KEY_CONFIDENCE>>
  ELSE <<"UNCLASSIFIED", 200>>

(* <<entity type, confidence>>: the profile, the key of the identifier, or *)
(* the vocabulary with more hits.                                          *)
Classify(flat, idKey, profile) ==
  LET named(keys) == idKey # None /\ Last(idKey) \in keys
      shipment == Cardinality(HintsIn(flat, SHIPMENT_HINTS))
      invoice == Cardinality(HintsIn(flat, INVOICE_HINTS))
  IN IF profile.entity_type # Untyped
       THEN <<profile.entity_type, PROFILE_CONFIDENCE>>
     ELSE IF named(SHIPMENT_ID_KEYS) THEN <<"SHIPMENT", ID_KEY_CONFIDENCE>>
     ELSE IF named(INVOICE_ID_KEYS) THEN <<"INVOICE", ID_KEY_CONFIDENCE>>
     ELSE IF shipment > invoice
       THEN <<"SHIPMENT", AtMost(600 + 100 * shipment, 950)>>
     ELSE IF invoice > shipment
       THEN <<"INVOICE", AtMost(600 + 100 * invoice, 950)>>
     ELSE <<"UNCLASSIFIED", 200>>

(* Fault variant: the shortest suffix is tried first.                      *)
ShortestFirst(token) ==
  [i \in 1..(Len(token) - 1) |-> SubSeq(token, Len(token) - i + 1, Len(token))]

(* The proper suffixes of a token, longest first.                          *)
SuffixesTried(token) ==
  [i \in 1..(Len(token) - 1) |-> SubSeq(token, i + 1, Len(token))]

(* <<canonical status, confidence>>                                        *)
StatusOf(type, raw, profile) ==
  LET known == profile.status_map
      token == Token[raw]
      default == IF type = "SHIPMENT" THEN "IN_TRANSIT" ELSE "ISSUED"
      tried == SuffixesTried(token)
      hits == {i \in DOMAIN tried :
                 tried[i] \in DOMAIN known \/ tried[i] \in DOMAIN Table[type]}
      hit == tried[Min(hits)]
  IN IF type = "UNCLASSIFIED" THEN <<"UNKNOWN", 200>>
     ELSE IF raw = None THEN <<default, 250>>
     ELSE IF token \in DOMAIN known THEN <<known[token], PROFILE_CONFIDENCE>>
     ELSE IF token \in DOMAIN Table[type] THEN <<Table[type][token], 900>>
     ELSE IF hits = {} THEN <<default, 300>>
     ELSE IF hit \in DOMAIN known
       THEN <<known[hit], PROFILE_CONFIDENCE>>
       ELSE <<Table[type][hit], 750>>

Parsed(raw) == IF raw = None THEN None ELSE TimeOf[raw]

(* <<event time, confidence>>: a path of the profile, then any key.        *)
EventTime(flat, profile) ==
  LET pinned == Parsed(FirstEntry(flat, profile.time_paths)[2])
      any == Parsed(FirstEntry(flat, profile.time_paths \o Bare(TIME_KEYS))[2])
  IN IF pinned # None THEN <<pinned, PROFILE_CONFIDENCE>>
     ELSE IF any # None THEN <<any, 950>>
     ELSE <<Now, 400>>

(* float() raises on the value that parse_timestamp is given.              *)
TimeOverflows(flat, profile) ==
  LET pinned == FirstEntry(flat, profile.time_paths)[2]
      any == FirstEntry(flat, profile.time_paths \o Bare(TIME_KEYS))[2]
  IN \/ pinned \in Overflows
     \/ Parsed(pinned) = None /\ any \in Overflows

NormalizationError == [error |-> "NormalizationError"]
OverflowError == [error |-> "OverflowError"]

(* What profile_for raises if the cache or the database does not answer.   *)
LookupError == [error |-> "ConnectionError"]

(* The reading, once the time is known.                                    *)
Assemble(doc, profile) ==
  LET flat == Flatten(doc)
      id == FirstEntry(flat, profile.id_paths \o Bare(ID_KEYS))
      type == Classify(flat, id[1], profile)
      raw == FirstEntry(flat, profile.status_paths \o Bare(STATUS_KEYS))[2]
      status == StatusOf(type[1], raw, profile)
      time == EventTime(flat, profile)
  IN IF id[2] = None \/ id[2] \in Blank THEN NormalizationError
     ELSE FromDict([entity_type |-> type[1], entity_id |-> id[2],
                    canonical_status |-> status[1], event_time |-> time[1],
                    confidence |-> Min({type[2], status[2], time[2]}),
                    source_status |-> raw])

Normalize(doc, profile) ==
  IF TimeOverflows(Flatten(doc), profile) THEN OverflowError ELSE Assemble(doc, profile)

(* With the profile looked up first, or not found because that failed.     *)
RulesNormalize(found, doc, profile) ==
  IF found THEN Normalize(doc, profile) ELSE LookupError
============================================================================
