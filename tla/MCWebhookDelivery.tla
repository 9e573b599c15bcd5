------------------------- MODULE MCWebhookDelivery -------------------------
(***************************************************************************)
(* Small instances of WebhookDelivery.  Dispatchers, endpoints and events  *)
(* are interchangeable.                                                    *)
(***************************************************************************)
EXTENDS WebhookDelivery, TLC

Symmetry ==
    Permutations(Dispatchers) \cup Permutations(Endpoints) \cup Permutations(Events)
=============================================================================
