-------------------------- MODULE MCWebhookDelivery --------------------------
EXTENDS WebhookDelivery, TLC

Symmetry == Permutations(Deliveries) \cup Permutations(Passes)
=============================================================================
