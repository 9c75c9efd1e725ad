----------------------------- MODULE MCChannel -----------------------------
(* The instance of Channel for TLC. *)
EXTENDS Channel

=============================================================================
