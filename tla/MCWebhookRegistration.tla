----------------------- MODULE MCWebhookRegistration -----------------------
(* Instances of WebhookRegistration for TLC.                               *)
EXTENDS WebhookRegistration, TLC

CONSTANTS r1, r2, r3

ThreeReplicas == {r1, r2, r3}
=============================================================================
