\* Two test programs at the same time; either may be killed between two calls.
SPECIFICATION TFairSpec
CONSTANTS
  c1 = c1 c2 = c2
  h1 = h1 h2 = h2 h3 = h3 h4 = h4 h5 = h5
  Client <- TwoClients
  Block <- TwoClients
  Main = Main
  Heap <- FiveHeaps
  NULL = NULL
  SAMPLE_NUMBER = 2
  Size <- JustDefault
  Garbage = {0, 1}
  WordMod = 64
  AllocMayFail = FALSE
INVARIANTS NeverFails SomeAudio AccessInBounds
PROPERTY Passes
