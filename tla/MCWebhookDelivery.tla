------------------------- MODULE MCWebhookDelivery -------------------------
(* Instances of WebhookDelivery for TLC. *)
EXTENDS WebhookDelivery, TLC

CONSTANTS d1, d2, w1, w2

OneDelivery == {d1}
TwoDeliveries == {d1, d2}
TwoWorkers == {w1, w2}
=============================================================================
