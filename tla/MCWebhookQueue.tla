----------------------------- MODULE MCWebhookQueue -----------------------------
(* Small instances of WebhookQueue for TLC.                                *)
EXTENDS WebhookQueue, TLC

\* Rooms, queues, emitters and delivery slots are interchangeable.
Symmetry == Permutations(Rooms) \cup Permutations(Queues)
              \cup Permutations(Emitters) \cup Permutations(Deliverers)
================================================================================
