------------------------- MODULE MCTetraudioService -------------------------
(* Instances of TetraudioService for TLC. *)
EXTENDS TetraudioOneClient, TLC

CONSTANTS h1, h2, h3, h4, h5, h6

ThreeHeaps == {h1, h2, h3}
FiveHeaps == {h1, h2, h3, h4, h5}
SixHeaps == FiveHeaps \cup {h6}
HeapSymmetry == Permutations(Heap)
=============================================================================
