------------------------- MODULE MCWebhookDelivery -------------------------
(* Values of WebhookDelivery's constants for TLC. *)
EXTENDS WebhookDelivery, TLC

CONSTANTS started, h1, p1, p2, w1, w2, q1, q2

\* A run that BullMQ hands out again publishes its attempt's STARTED again.
OneType  == started :> "STARTED"
TwoTypes == {"STARTED", "COMPLETED"}
Twice    == started :> 2
=============================================================================
