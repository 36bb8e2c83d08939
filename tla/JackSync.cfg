\* Any configurations applied one after the other while the audio runs.
SPECIFICATION FairSpec
INVARIANTS TypeOK ConvolLive Exclusive BlockSound Resumed
PROPERTY ApplyReturns
\* The program ends, or waits for a JACK server that has gone away.
CHECK_DEADLOCK FALSE
