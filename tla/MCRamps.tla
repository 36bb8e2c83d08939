------------------------------ MODULE MCRamps ------------------------------
(* An instance of Ramps for TLC: the parameters are numbers, given in the cfg. *)
EXTENDS Ramps

=============================================================================
