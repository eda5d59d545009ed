-------------------------- MODULE MCWebhookDelivery --------------------------
(***************************************************************************)
(* Model values for WebhookDelivery: two deliveries to one endpoint.       *)
(***************************************************************************)
EXTENDS WebhookDelivery

CONSTANTS d1, d2, p1, w1, w2

MCDeliveries == {d1, d2}
MCEndpoints == {p1}
MCEndpointOf == [d \in MCDeliveries |-> p1]
MCWorkers == {w1, w2}
==============================================================================
