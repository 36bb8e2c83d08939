\* One file after the other, from a proper one to every kind that is refused.
SPECIFICATION Spec
CONSTANTS
  MaxFrames = 3
  NoFile = NoFile
  ConvFiles <- SomeFiles
INVARIANTS Accepted Loaded
