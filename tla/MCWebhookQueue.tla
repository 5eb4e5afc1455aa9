--------------------------- MODULE MCWebhookQueue ---------------------------
(* Values of the constants of WebhookQueue for its configurations.         *)
EXTENDS WebhookQueue
CONSTANTS h1, h2
=============================================================================
