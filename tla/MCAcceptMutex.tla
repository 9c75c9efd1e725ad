--------------------------- MODULE MCAcceptMutex ---------------------------
(* Instances of AcceptMutex for TLC; workers are interchangeable.          *)
EXTENDS AcceptMutex, TLC

Symmetry == Permutations(Workers)

=============================================================================
