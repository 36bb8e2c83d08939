\* Blocks of 4 frames and a memory of 5 errors: a block ends at every place of the
\* memory, which wraps around twice; the last block is short.
SPECIFICATION Spec
CONSTANTS
  SIZE = 5
  Kind <- AllKinds
  MaxBlock = 8
  MaxSamples = 14
  BUFFSIZE = 4
  Jobs <- SomeJobs
  Files <- SomeFiles
  NoFile = NoFile
INVARIANTS LastFive LastRandom Outcome Aligned
