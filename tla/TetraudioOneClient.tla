------------------------- MODULE TetraudioOneClient -------------------------
(***************************************************************************)
(* TetraudioService, with one client, implements ITetraudio: however its   *)
(* handlers go through their statements, and whichever allocations fail,   *)
(* the client sees calls that take effect at once.                         *)
(***************************************************************************)
EXTENDS TetraudioService

TheClient == CHOOSE c \in Client : TRUE

\* The call to which a statement belongs.
Pending(label) ==
  CASE label = "idle" -> "none"
    [] label \in {"setSize", "allocSrc", "allocDst", "commit"} -> "setSize"
    [] label \in {"getSrc", "takeSrc"} -> "getSrc"
    [] label \in {"getDst", "takeDst"} -> "getDst"
    [] label = "reset" -> "reset"
    [] label \in {"process", "fsrc", "fdst", "filter", "store"} -> "process"

\* A buffer, as the client that has a handle to it sees it.
Seen(handle, member) ==
  IF handle = NULL THEN [use |-> "none", bytes |-> 0, data |-> {}]
  ELSE [use |-> IF handle = member THEN "current" ELSE "old",
        bytes |-> heap[handle].bytes, data |-> heap[handle].data]

InCall == IF Published THEN Pending(pc[TheClient]) ELSE "start"
Wanted == frame[TheClient].size
Answer == reply[TheClient]
SeenSrc == Seen(hSrc[TheClient], mSrc)
SeenDst == Seen(hDst[TheClient], mDst)

Interface ==
  INSTANCE ITetraudio WITH
    DefaultSize <- SAMPLE_NUMBER,
    BytesPerSample <- CHANNELS * SampleBytes,
    pending <- InCall, want <- Wanted, reply <- Answer,
    size <- mSize, available <- mSrc # NULL, heard <- filt,
    src <- SeenSrc, dst <- SeenDst

\* The service keeps the promises of its interface to its only client.
KeepsPromises == Interface!Spec
=============================================================================
