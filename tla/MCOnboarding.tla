---------------------------- MODULE MCOnboarding ----------------------------
(***************************************************************************)
(* Webhooks with an identifier, a status and a time in various places,     *)
(* some of them missing, unreadable or nested, under a small excerpt of    *)
(* the key lists and vocabularies.  The value "42" stands for an integer,  *)
(* "9.9e20" for a fraction, "huge" for an integer of 400 digits.           *)
(***************************************************************************)
EXTENDS Flattening

Dotted(keys, v) == << <<keys, [value |-> v]>> >>
Leaf(k, v) == Dotted(<<k>>, v)
Nested(k, d) == << <<<<k>>, [doc |-> d]>> >>
List(k, nodes) == << <<<<k>>, [list |-> nodes]>> >>

MCIdKeys == <<"tracking_id", "invoice_id", "id">>
MCStatusKeys == <<"status", "type">>
MCTimeKeys == <<"ts", "date">>
MCPaths == << <<"carrier">>, <<"customer", "id">>, <<"data", "status">>,
              <<"data", "tracking_id">>, <<"date">>, <<"id">>, <<"invoice_id">>,
              <<"status">>, <<"tracking_id">>, <<"ts">>, <<"type">> >>
MCIndexed == [e \in {"items"} \X {0, 1} |-> IF e[2] = 0 THEN "items[0]" ELSE "items[1]"]
MCPathRank == [p \in Range(MCPaths) |-> CHOOSE i \in DOMAIN MCPaths : MCPaths[i] = p]

MCTable == [t \in {"SHIPMENT", "INVOICE"} |->
  IF t = "SHIPMENT"
    THEN (<<"delivered">> :> "DELIVERED") @@ (<<"collected">> :> "PICKED_UP")
         @@ (<<"out", "for", "delivery">> :> "OUT_FOR_DELIVERY")
         @@ (<<"delivery">> :> "IN_TRANSIT")
    ELSE (<<"paid">> :> "PAID") @@ (<<"open">> :> "ISSUED")]
MCStatuses == [t \in Types |->
  CASE t = "SHIPMENT" ->
         {"PICKED_UP", "IN_TRANSIT", "OUT_FOR_DELIVERY", "DELIVERED"}
    [] t = "INVOICE" -> {"ISSUED", "PAID", "VOIDED", "REFUNDED"}
    [] OTHER -> {"UNKNOWN"}]

MCToken ==
  ("Delivered" :> <<"delivered">>) @@ ("PAID" :> <<"paid">>)
  @@ ("parcel.out_for_delivery" :> <<"parcel", "out", "for", "delivery">>)
  @@ ("erledigt" :> <<"erledigt">>)
  @@ [v \in {"S-1", "S-2", "C-9", "I-7", "at5", "at6", "soon", " ", "42",
             "9.9e20", "huge", "FreightPay"} |-> <<v>>]
MCTimeOf == [v \in DOMAIN MCToken |->
  CASE v = "at5" -> 5 [] v = "at6" -> 6 [] v = "42" -> 42 [] OTHER -> None]
MCWordlike == {"Delivered", "PAID", "parcel.out_for_delivery", "erledigt",
               "soon", " ", "FreightPay"}
MCWithin == {<<"parcel.out_for_delivery", "parcel">>,
             <<"parcel.out_for_delivery", "delivery">>,
             <<"tracking_id", "tracking">>, <<"tracking_id", "id">>,
             <<"invoice_id", "invoice">>, <<"invoice_id", "id">>,
             <<"FreightPay", "freight">>, <<"carrier", "carrier">>}

----------------------------------------------------------------------------
Identified == {<<>>, Leaf("id", "S-1"), Leaf("id", " "), Leaf("id", ""),
               Leaf("tracking_id", "S-2"), Leaf("invoice_id", "I-7")}
Stated == {<<>>, Leaf("status", "Delivered"), Leaf("status", "erledigt"),
           Leaf("type", "parcel.out_for_delivery"),
           Nested("data", Leaf("status", "PAID"))}
Timed == {<<>>, Leaf("ts", "at5"), Leaf("ts", "soon") \o Leaf("date", "at6")}
Customer == Nested("customer", Leaf("id", "C-9"))

(* A list of a scalar and an object.                                       *)
Items == List("items", << [value |-> "S-2"],
                          [doc |-> Leaf("id", "I-7") \o Leaf("status", "PAID")] >>)

MCPayloads ==
  {i \o s \o t : i \in Identified, s \in Stated, t \in Timed}
  \cup {i \o Customer \o s \o Leaf("ts", "at5") : i \in Identified, s \in Stated}
  \cup {Customer \o i \o Leaf("type", "PAID") : i \in Identified}
  \cup {i \o Items \o Leaf("ts", "at5") : i \in Identified}
  \cup {i \o Leaf("status", "Delivered") \o Leaf("ts", "huge") : i \in Identified}
  \cup {i \o Dotted(<<"data", "status">>, "Delivered") \o s \o Leaf("date", "at6") :
          i \in Identified, s \in {<<>>, Nested("data", Leaf("status", "PAID"))}}

(* Two shipments of a parcel service, two of another vendor, an invoice,   *)
(* one with an integer for its identifier, and three with a second word    *)
(* that could be taken for the status, which is an integer in the last.    *)
MCSamples == {
  Leaf("carrier", "FreightPay") \o Leaf("id", "S-1")
    \o Leaf("type", "parcel.out_for_delivery") \o Leaf("ts", "at5"),
  Leaf("carrier", "FreightPay") \o Leaf("id", "S-2")
    \o Leaf("type", "Delivered") \o Leaf("ts", "at6"),
  Nested("data", Leaf("tracking_id", "S-1") \o Leaf("status", "erledigt"))
    \o Leaf("date", "at5"),
  Nested("data", Leaf("tracking_id", "S-2") \o Leaf("status", "Delivered"))
    \o Leaf("date", "soon"),
  Leaf("invoice_id", "I-7") \o Customer \o Leaf("status", "PAID")
    \o Leaf("ts", "at6"),
  Leaf("id", "42") \o Leaf("status", "PAID"),
  Leaf("tracking_id", "S-1") \o Leaf("type", "erledigt")
    \o Leaf("status", "Delivered") \o Leaf("ts", "at5"),
  Leaf("id", "S-1") \o Leaf("status", "Delivered") \o Customer
    \o Leaf("type", "erledigt") \o Leaf("date", "at6"),
  Leaf("tracking_id", "S-2") \o Leaf("type", "erledigt")
    \o Leaf("status", "42") \o Leaf("ts", "at5") }

(* A fraction for an identifier, and a number too large to be a time,      *)
(* alone and after a sample that has a time in that place or a word.       *)
Fraction == Leaf("tracking_id", "9.9e20") \o Leaf("status", "erledigt")
              \o Leaf("ts", "at6")
TooLarge == Leaf("tracking_id", "S-2") \o Leaf("status", "Delivered")
              \o Leaf("ts", "huge")
Worded == Leaf("id", "S-1") \o Leaf("status", "erledigt") \o Leaf("ts", "soon")
MCSampleSets ==
  {<<a>> : a \in MCSamples} \cup {<<a, b>> : a \in MCSamples, b \in MCSamples}
  \cup {<<Fraction>>, <<TooLarge>>, <<Fraction, TooLarge>>, <<Worded, TooLarge>>}

Answer(type, ids, statuses, times, map) ==
  [entity_type |-> type, id_paths |-> ids, status_paths |-> statuses,
   time_paths |-> times, status_map |-> map]
MCProposals == {
  Answer(Untyped, <<>>, <<>>, <<>>, <<>>),
  Answer("SHIPMENT", << <<"data", "tracking_id">>, <<"awb">> >>,
         << <<"type">> >>, << <<"ts">>, <<"date">> >>,
         (<<"erledigt">> :> "DELIVERED") @@ (<<"delivery">> :> "DELIVERED")
         @@ (<<"paid">> :> "PAID")),
  Answer("INVOICE", << <<"invoice_id">> >>, << <<"status">> >>, << <<"paid_on">> >>,
         (<<"erledigt">> :> "PAID") @@ (<<"paid">> :> None)),
  Answer("ORDER", <<>>, <<>>, <<>>, (<<"erledigt">> :> "DONE")),
  Answer("UNCLASSIFIED", <<>>, <<>>, <<>>, (<<"erledigt">> :> "UNKNOWN")) }

(* A profile for shipments, one that does not fit its type, and one that   *)
(* names paths only.                                                       *)
MCHandWritten == {
  Answer("SHIPMENT", << <<"id">> >>, << <<"type">> >>, <<>>,
         <<"erledigt">> :> "DELIVERED"),
  Answer("INVOICE", <<>>, <<>>, <<>>, <<"erledigt">> :> "DELIVERED"),
  Answer(Untyped, << <<"customer", "id">> >>, <<>>, << <<"date">> >>, <<>>) }

Read(type, id, status, time, confidence) ==
  [content |-> [entity_type |-> type, entity_id |-> id,
                canonical_status |-> status, event_time |-> time,
                confidence |-> confidence, normalized_payload |-> "object"]]
MCAnswers ==
  {[failure |-> f] : f \in {"RateLimitError", "APITimeoutError", "APIError",
                            "TypeError"}}
  \cup {[content |-> Absent],
        Read("SHIPMENT", "S-1", "DELIVERED", 5, 700),
        Read("SHIPMENT", "S-1", "PAID", 5, 700),
        Read("SHIPMENT", "S-1", "DELIVERED", None, 700),
        Read("INVOICE", None, "PAID", 5, 900),
        Read("INVOICE", " ", "PAID", 5, 900),
        Read("SHIPMENT", "S-1", "DELIVERED", 5, 1001),
        Read("SHIPMENT", "S-1", "DELIVERED", 5, NaN),
        [Read("SHIPMENT", "S-1", "DELIVERED", 5, 800) EXCEPT
           !.content.normalized_payload = "list"],
        [Read("SHIPMENT", "S-1", "DELIVERED", 5, 900) EXCEPT
           !.content.normalized_payload = Absent]}
============================================================================
