--------------------------- MODULE MCWebhookServer ---------------------------
(***************************************************************************)
(* Instances of WebhookServer for TLC: a conversion webhook with two CRDs, *)
(* a webhook whose maintenance is disabled, and a mutating webhook.        *)
(***************************************************************************)
EXTENDS WebhookServer

TwoOneOne == [h \in Hooks |-> IF h = 1 THEN 2 ELSE 1]
=============================================================================
