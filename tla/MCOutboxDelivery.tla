-------------------------- MODULE MCOutboxDelivery --------------------------
(* Small instances of OutboxDelivery: intents of one room, two passes. *)
EXTENDS OutboxDelivery, TLC

CONSTANT r1
OneRoom == {r1}
AllInOneRoom == [i \in Intents |-> r1]
Symmetry == Permutations(Passes) \union Permutations(Intents)
=============================================================================
