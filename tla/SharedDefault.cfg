\* Two clients that never ask for more than the default size.
SPECIFICATION Spec
CONSTANTS
  Client = {c1, c2}
  Main = Main
  h1 = h1 h2 = h2 h3 = h3 h4 = h4 h5 = h5 h6 = h6
  Heap <- ThreeHeaps
  NULL = NULL
  Block = {b1}
  Size = {0, 1, 2}
  Garbage = {0, 1, 2, 3}
  SAMPLE_NUMBER = 2
  WordMod = 64
  AllocMayFail = TRUE
\* Once the constructor has been refused memory it stays so, and every property
\* below is true of what follows: such behaviours are not followed further.
CONSTRAINT Constructed
INVARIANTS SharedInBounds SharedHandleLive
PROPERTIES SharedNeverShrinks HandleAvailable
