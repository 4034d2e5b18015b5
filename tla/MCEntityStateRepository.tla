---------------------- MODULE MCEntityStateRepository ----------------------
(***************************************************************************)
(* Four concurrent calls about two entities: three race for one row, two   *)
(* of them with the same event time.                                       *)
(***************************************************************************)
EXTENDS EntityStateRepository

CONSTANTS t1, t2, t3, t4

MCTxns == {t1, t2, t3, t4}
MCWebhooks == {"h1", "h2", "h3", "h4"}
MCEntities == {"shipment", "invoice"}
MCStatuses == {"TRANSIT", "DELIVERED"}

Read(e, s, n) == [entity |-> e, status |-> s, time |-> n, confidence |-> 900]

MCOffer ==
  [t \in MCTxns |->
     CASE t = t1 -> BeliefOf("h1", Read("shipment", "TRANSIT", 1))
       [] t = t2 -> BeliefOf("h2", Read("shipment", "DELIVERED", 2))
       [] t = t3 -> BeliefOf("h3", Read("shipment", "TRANSIT", 2))
       [] t = t4 -> BeliefOf("h4", Read("invoice", "DELIVERED", 1))]

MCReadings == {MCOffer[t].reading : t \in MCTxns}
============================================================================
