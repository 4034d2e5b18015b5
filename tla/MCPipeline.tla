---------------------------- MODULE MCPipeline ----------------------------
(***************************************************************************)
(* Small instances of the pipeline.  Every run reads one entity.  One      *)
(* reading is exactly at the threshold, the other just below it and newer, *)
(* so that letting it through, or going back from it, shows.               *)
(***************************************************************************)
EXTENDS Pipeline

CONSTANTS h1, w1, w2, v1, v2, o1

MCEntities == {"shipment"}
MCStatuses == {"TRANSIT", "DELIVERED"}

Sure == [entity |-> "shipment", status |-> "TRANSIT", time |-> 1,
         confidence |-> 700]
Doubtful == [entity |-> "shipment", status |-> "DELIVERED", time |-> 2,
             confidence |-> 699]

TwoReadings == {Sure, Doubtful}

OneWebhook == {h1}
OneWorker == {w1}
TwoWorkers == {w1, w2}
OneReviewer == {v1}
TwoReviewers == {v1, v2}
OneOperator == {o1}
===========================================================================
