------------------------- MODULE MCWebhookDelivery -------------------------
(* WebhookDelivery on a small instance.                                     *)
EXTENDS WebhookDelivery

CONSTANTS p1, p2, t1, e1

\* One event for one endpoint, asked for and re-triggered.
MCEndpointOf == [t \in Targets |-> e1]
=============================================================================
