----------------------------- MODULE MCConvol44 -----------------------------
(* Instances of Convol44 for TLC. *)
EXTENDS Convol44

\* All responses; those on the diagonal; those of a triangle.
SomeMatrices ==
  { Channel \X Channel,
    {<<j, j>> : j \in Channel},
    {p \in Channel \X Channel : p[1] < p[2]} }
=============================================================================
