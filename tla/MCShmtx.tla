------------------------------ MODULE MCShmtx ------------------------------
(* Instances of Shmtx for TLC; processes are interchangeable.              *)
EXTENDS Shmtx, TLC

Symmetry == Permutations(Procs)

=============================================================================
