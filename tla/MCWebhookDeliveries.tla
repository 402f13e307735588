------------------------ MODULE MCWebhookDeliveries --------------------------
(* Small instances of WebhookDeliveries for TLC. *)
EXTENDS WebhookDeliveries, TLC

CONSTANTS w1, w2, d1

TwoWorkers  == {w1, w2}
OneWorker   == {w1}
OneDelivery == {d1}

=============================================================================
