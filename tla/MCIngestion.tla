---------------------------- MODULE MCIngestion ----------------------------
(***************************************************************************)
(* Deliveries of two vendors.  The first signs and keeps its keys: one     *)
(* event, sent twice under its bare id and once under a header key, and    *)
(* once without a signature.  The second is not asked to sign and        *)
(* reuses a header key for another event id, so that one request conflicts *)
(* with two rows; one of its bodies is empty.                              *)
(***************************************************************************)
EXTENDS Ingestion

CONSTANTS d1, d2, d3, d4, d5, d6, unsigned, empty

MCVendors == {"Keeps", "keeps", "reuses", "unknown"}
MCHeaderKeys == {"k"}
MCEventIds == {"e1", "e2"}
MCPayloads == {"p1", "p2"}
MCFold == [v \in MCVendors |-> IF v = "Keeps" THEN "keeps" ELSE v]
MCSecret == [v \in {"keeps", "reuses", "unknown"} |->
               IF v = "keeps" THEN "secret" ELSE None]

Says(header, names, key, ids, body, secret) ==
  [header |-> header, names |-> names, supplied |-> key, ids |-> ids,
   payload |-> body, signed |-> secret]

Mixed == {d1, d2, d3, d4, d5, d6, unsigned, empty}
MixedRequest ==
  [d \in Mixed |->
     CASE d = d1 -> Says("Keeps", <<"reuses">>, None, <<"e1", "e2">>, "p1", "secret")
       [] d = d2 -> Says(None, <<None, "Keeps">>, None, <<None, "e1">>, "p1", "secret")
       [] d = d3 -> Says("Keeps", <<None>>, "k", <<"e1">>, "p1", "secret")
       [] d = unsigned -> Says(None, <<"Keeps">>, "k", <<"e1">>, "p1", None)
       [] d = d4 -> Says("reuses", <<>>, "k", <<"e1">>, "p1", None)
       [] d = d5 -> Says("reuses", <<>>, "k", <<"e2">>, "p2", None)
       [] d = d6 -> Says(None, <<"reuses">>, None, <<"e2">>, "p2", None)
       [] d = empty -> Says("reuses", <<>>, "k", <<>>, None, None)]

Redelivered == {d1, d2}
RedeliveredRequest ==
  [d \in Redelivered |-> Says(None, <<>>, None, <<>>, "p1", None)]
============================================================================
