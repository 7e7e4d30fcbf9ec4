-------------------------- MODULE MCWebhookDelivery ---------------------------
EXTENDS WebhookDelivery, TLC

CONSTANTS s1

AllToOne == [m \in Messages |-> s1]

\* The messages of one subscription are interchangeable.
Symmetry == Permutations(Consumers) \cup Permutations(Messages)
===============================================================================
