-------------------------- MODULE MCWebhookDelivery --------------------------
(* TLC instance of WebhookDelivery.                                         *)
EXTENDS WebhookDelivery

CONSTANTS d1, d2, p1, p2
=============================================================================
