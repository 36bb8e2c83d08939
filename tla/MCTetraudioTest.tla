-------------------------- MODULE MCTetraudioTest --------------------------
(* Instances of TetraudioTest for TLC. *)
EXTENDS TetraudioTest

CONSTANTS c1, c2, h1, h2, h3, h4, h5

TwoClients == {c1, c2}
FiveHeaps == {h1, h2, h3, h4, h5}
JustDefault == {SAMPLE_NUMBER}
=============================================================================
