--------------------------- MODULE MCOutboxRelay ---------------------------
(* Small instances of OutboxRelay. *)
EXTENDS OutboxRelay, TLC

CONSTANTS e1, e2, r1, r2, k1, k2

\* Events, relay passes and consumer passes are interchangeable.
Symmetry == Permutations(Events) \cup Permutations(Relays) \cup Permutations(Consumers)
=============================================================================
