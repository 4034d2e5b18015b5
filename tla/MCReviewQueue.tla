--------------------------- MODULE MCReviewQueue ---------------------------
(***************************************************************************)
(* Webhooks of two vendors.  Each may be read with a confidence of its own *)
(* below the threshold, and at the threshold.  In thirds of a thousandth:  *)
(* 0.5 rounded down and up, 0.499, and a confidence held under 0.7 that is *)
(* rounded to it.                                                          *)
(***************************************************************************)
EXTENDS ReviewQueue, TLC

MCVendorOf == <<"Acme", "Acme", "Other", "Acme">>
MCFolded == [v \in {"Acme", "ACME", "Other"} |->
               IF v = "Other" THEN "other" ELSE "acme"]
MCReadings == << {1499, 2100}, {1501, 2100}, {1497, 2100}, {2099, 2100} >>

Ask(listing, threshold, vendor, limit, offset) ==
  [listing |-> listing, threshold |-> threshold, vendor |-> vendor,
   limit |-> limit, offset |-> offset]
MCRequests == {
  Ask("review", None, None, 1, None), Ask("review", None, "ACME", 2, 0),
  Ask("low", None, None, None, 0), Ask("low", 500, None, 1, Bad),
  Ask("low", 1000, None, 3, None), Ask("review", Bad, None, 1, 1) }
============================================================================
