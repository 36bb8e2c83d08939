\* One, two and four fragments per partition; the ring wraps around twice.
SPECIFICATION Spec
CONSTANTS
  MaxPart = 3
  Matrices <- SomeMatrices
  Calls = 34
INVARIANT Convolves
