----------------------------- MODULE MCConfwin -----------------------------
(* An instance of Confwin for TLC: the two sections that exclude each other. *)
EXTENDS Confwin

MCSection == {"MATR", "CONV"}
MCValue == [MATR |-> {"default"}, CONV |-> {"default", "other"}]
=============================================================================
