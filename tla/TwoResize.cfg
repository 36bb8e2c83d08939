\* Two clients grow the buffers at the same time.
SPECIFICATION Spec
CONSTANTS
  Client = {c1, c2}
  Main = Main
  h1 = h1 h2 = h2 h3 = h3 h4 = h4 h5 = h5 h6 = h6
  Heap <- SixHeaps
  NULL = NULL
  Block = {}
  Size = {2, 9}
  Garbage = {0}
  SAMPLE_NUMBER = 1
  WordMod = 256
  AllocMayFail = FALSE
SYMMETRY HeapSymmetry
INVARIANT HandleChecked
