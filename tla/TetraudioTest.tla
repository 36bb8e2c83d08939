--------------------------- MODULE TetraudioTest ---------------------------
(***************************************************************************)
(* The client program tetraudio_test (src/client/tetraudio_test.cpp) run   *)
(* against TetraudioService, by any number of processes at the same time.  *)
(*                                                                         *)
(* at[c] is the place that process c has reached in main().  A process     *)
(* that ends, or is killed between two calls, is started again.  What it   *)
(* writes into the source buffer, the ramp, is the block c.                *)
(***************************************************************************)
EXTENDS TetraudioService

ASSUME TestAssumption ==
  /\ Size = {SAMPLE_NUMBER}
  /\ Block = Client

VARIABLE at  \* the place each process has reached

tvars == <<vars, at>>

Place == {"wait", "setSize", "sized", "getSrc", "gotSrc", "getDst", "gotDst",
          "fill", "process", "processed", "read", "passed", "failed"}

TInit == Init /\ at = [c \in Client |-> "wait"]

Move(c, from, to) == at[c] = from /\ at' = [at EXCEPT ![c] = to]

\* getService() finds the service (until then the process sleeps and retries).
Find(c) == Published /\ Move(c, "wait", "setSize") /\ UNCHANGED vars

\* The process makes a call, and is at the place after when it returns.
Ask(c, op, size, after) == Move(c, op, after) /\ Invoke(c, op, size)

\* It tests what came back: it goes on, or prints a message and returns 1.
Check(c, from, ok, to) ==
  /\ pc[c] = "idle"
  /\ Move(c, from, IF ok THEN to ELSE "failed")
  /\ UNCHANGED vars

Succeeded(c) == reply[c].status = "NO_ERROR"

\* Mutant of BigEnough: the bytes needed are compared with >.
BiggerThan(h) == h # NULL /\ heap[h].bytes > SAMPLE_NUMBER * CHANNELS * SampleBytes

\* Bytes are compared with a number of samples.
BigEnough(h) == h # NULL /\ heap[h].bytes >= SAMPLE_NUMBER * CHANNELS

Program(c) ==
  \/ Find(c)
  \/ Ask(c, "setSize", SAMPLE_NUMBER, "sized")
  \/ Check(c, "sized", Succeeded(c), "getSrc")
  \/ Ask(c, "getSrc", 0, "gotSrc")
  \/ Check(c, "gotSrc", BigEnough(hSrc[c]), "getDst")
  \/ Ask(c, "getDst", 0, "gotDst")
  \/ Check(c, "gotDst", BigEnough(hDst[c]), "fill")
  \/ Move(c, "fill", "process") /\ Fill(c, c)
  \/ Ask(c, "process", 0, "processed")
  \/ Check(c, "processed", Succeeded(c), "read")
  \/ Check(c, "read", TRUE, "passed")

\* The process is gone and its handles with it; it will be started again.
Quit(c) ==
  /\ at' = [at EXCEPT ![c] = "wait"]
  /\ Exit(c)

Construct == Resize(Main) /\ UNCHANGED at
Serve(c) == (Resize(c) \/ Handle(c) \/ Convert(c)) /\ UNCHANGED at

TNext == Construct \/ \E c \in Client : Serve(c) \/ Program(c) \/ Quit(c)

TSpec == TInit /\ [][TNext]_tvars

\* Binder schedules the thread of every call that has arrived, and the kernel
\* every process that does not sleep; none of them waits for another.
TFairness ==
  /\ WF_tvars(Construct)
  /\ \A c \in Client : WF_tvars(Serve(c)) /\ WF_tvars(Program(c))

TFairSpec == TSpec /\ TFairness
-----------------------------------------------------------------------------
\* The test never prints an error ("Failed to ...", "Got wrong ... size").
NeverFails == \A c \in Client : at[c] # "failed"

\* Whatever other processes did meanwhile, it does not read an empty buffer.
SomeAudio == \A c \in Client : at[c] = "read" => heap[hDst[c]].data # {}

\* What the test is about to read and has written is all there: it accesses
\* SAMPLE_NUMBER samples of every channel of the buffers it holds.
AccessInBounds ==
  \A c \in Client :
    LET big(h) == h \in Live /\ heap[h].bytes >= SAMPLE_NUMBER * CHANNELS * SampleBytes
    IN  /\ at[c] = "fill" => big(hSrc[c])
        /\ at[c] = "read" => big(hDst[c])

\* Process c is killed finitely often.
Survives(c) ==
  <>[][~(at[c] \notin {"wait", "passed", "failed"} /\ at'[c] = "wait")]_tvars

\* A run of the test that is not killed comes to an end, without an error,
\* however often the other processes are killed.
Passes ==
  \A c \in Client : Survives(c) => (at[c] = "wait" ~> at[c] = "passed")
=============================================================================
