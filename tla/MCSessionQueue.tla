--------------------------- MODULE MCSessionQueue ---------------------------
(* Instances of the session queue for TLC.                                     *)
EXTENDS SessionQueueRefinement, TLC

CONSTANTS c1, c2, c3, k1, k2, s1

\* A message of its own for every call.
OwnKey == [c \in Call |-> c]
OneSession == [k \in Key |-> s1]

\* c1 and c2 carry the same message, c3 another one of the same thread.
Redelivered == [c \in Call |-> IF c = c3 THEN k2 ELSE k1]

Deliveries == Permutations({c1, c2})

=============================================================================
