---------------------------- MODULE EntityBelief ----------------------------
(***************************************************************************)
(* What the entity state promises to its readers: one belief per entity,   *)
(* absent until the first trusted event, and from then on replaced only by *)
(* a strictly newer one.  The transaction-level EntityStateRepository and  *)
(* the Pipeline both implement this specification.                         *)
(***************************************************************************)
EXTENDS GatewayData

VARIABLE belief    \* entity -> Belief, or None

Init == belief = [e \in Entities |-> None]

\* One event of webhook h, read as r, becomes the belief if it is newer.
Apply(h, r) == belief' = UpsertIfNewer(belief, h, r)

Next == \E h \in Webhooks, r \in Readings : Apply(h, r)

Spec == Init /\ [][Next]_belief

TypeOK == belief \in [Entities -> Belief \cup {None}]

(***************************************************************************)
(* A belief is about its own entity: the status shown for a shipment was   *)
(* read from an event about that shipment.                                 *)
(***************************************************************************)
OwnEntity ==
  \A e \in Entities : belief[e] # None => belief[e].reading.entity = e

(***************************************************************************)
(* Out-of-order protection (upsert_if_newer): a belief, once there, is     *)
(* never withdrawn, and every change of it moves strictly forward in event *)
(* time, so neither a late event nor a tie can overwrite it.               *)
(***************************************************************************)
NeverRegresses ==
  [][\A e \in Entities :
       belief[e] # None =>
         /\ belief'[e] # None
         /\ \/ belief'[e] = belief[e]
            \/ belief'[e].reading.time > belief[e].reading.time]_belief

=============================================================================
