-------------------------- MODULE MCOutboxDelivery --------------------------
(* OutboxDelivery for TLC: identities are interchangeable. *)
EXTENDS OutboxDelivery, TLC

Symmetry ==
    Permutations(Events) \cup Permutations(Relays)
        \cup Permutations(Handlers) \cup Permutations(Msgs)
=============================================================================
