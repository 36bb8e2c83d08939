----------------------------- MODULE MCJackSync -----------------------------
(* An instance of JackSync for TLC. *)
EXTENDS JackSync

=============================================================================
