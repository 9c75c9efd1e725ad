--------------------------- MODULE MCHttpRequest ---------------------------
(* The instance of HttpRequest for TLC. *)
EXTENDS HttpRequest

=============================================================================
