\* One client that grows the buffers; allocations may fail, and any garbage in mSize.
SPECIFICATION Spec
CONSTANTS
  Client = {c1}
  Main = Main
  h1 = h1 h2 = h2 h3 = h3 h4 = h4 h5 = h5 h6 = h6
  Heap <- FiveHeaps
  NULL = NULL
  Block = {b1, b2}
  Size = {0, 1, 2, 3}
  Garbage = {0, 1, 3}
  SAMPLE_NUMBER = 2
  WordMod = 64
  AllocMayFail = TRUE
SYMMETRY HeapSymmetry
INVARIANTS TypeOK BuffersFit Converted
PROPERTY KeepsPromises
