------------------------ MODULE TetraudioTestProofs ------------------------
(***************************************************************************)
(* Theorems about any number of test programs that use the service at the  *)
(* same time.                                                              *)
(***************************************************************************)
EXTENDS TetraudioTest, TetraudioServiceProofs

\* A step of the programs is a step of the service, or none of its variables
\* changes.
LEMMA TestStep == [TNext]_tvars => [Next]_vars
<1> SUFFICES ASSUME [TNext]_tvars PROVE [Next]_vars
  OBVIOUS
<1>1. CASE Construct
  BY <1>1 DEF Construct, Next, Thread
<1>2. ASSUME NEW c \in Client, Serve(c) PROVE [Next]_vars
  BY <1>2 DEF Serve, Next, Thread
<1>3. ASSUME NEW c \in Client, Program(c) PROVE [Next]_vars
  <2>1. ASSUME NEW op \in Op, NEW size \in IF op = "setSize" THEN Size ELSE {0}, Invoke(c, op, size)
        PROVE  Next
    BY <2>1 DEF Next, Call
  <2>2. CASE Ask(c, "setSize", SAMPLE_NUMBER, "sized")
    BY <2>1, <2>2, TestAssumption DEF Ask, Op
  <2>3. CASE \/ Ask(c, "getSrc", 0, "gotSrc") \/ Ask(c, "getDst", 0, "gotDst")
             \/ Ask(c, "process", 0, "processed")
    BY <2>1, <2>3 DEF Ask, Op
  <2>4. CASE Fill(c, c)
    BY <2>4, TestAssumption DEF Write, Next
  <2>5. CASE UNCHANGED vars
    BY <2>5
  <2> QED
    BY <1>3, <2>2, <2>3, <2>4, <2>5 DEF Program, Find, Check
<1>4. ASSUME NEW c \in Client, Quit(c) PROVE [Next]_vars
  BY <1>4 DEF Quit, Next
<1>5. CASE UNCHANGED tvars
  BY <1>5 DEF tvars
<1> QED
  BY <1>1, <1>2, <1>3, <1>4, <1>5 DEF TNext

\* The test programs use the service as TetraudioService describes it.
THEOREM TestImplements == TSpec => Spec
<1>1. TInit => Init
  BY DEF TInit
<1> QED
  BY <1>1, TestStep, PTL DEF TSpec, Spec
-----------------------------------------------------------------------------
\* The places at which a program holds the source, and the destination.
HasSrc == {"getDst", "gotDst", "fill", "process", "processed", "read", "passed"}
HasDst == {"fill", "process", "processed", "read", "passed"}

ClientInv(c) ==
  /\ at[c] \in Place \ {"failed"}
  /\ at[c] # "wait" => Published
  /\ at[c] \notin {"sized", "gotSrc", "gotDst", "processed"} => pc[c] = "idle"
  /\ at[c] = "sized" => pc[c] = "setSize" \/ (pc[c] = "idle" /\ Succeeded(c))
  /\ at[c] = "gotSrc" => pc[c] \in {"getSrc", "takeSrc"} \/ (pc[c] = "idle" /\ hSrc[c] = mSrc)
  /\ at[c] = "gotDst" => pc[c] \in {"getDst", "takeDst"} \/ (pc[c] = "idle" /\ hDst[c] = mDst)
  /\ at[c] = "processed" =>
       pc[c] \in Converting \cup {"process"} \/ (pc[c] = "idle" /\ Succeeded(c))
  /\ at[c] \in HasSrc => hSrc[c] = mSrc
  /\ at[c] \in HasDst => hDst[c] = mDst

\* Once the service is published it has both buffers, of the default size.
Ready == Published => mSrc # NULL /\ mDst # NULL

TInv ==
  /\ at \in [Client -> Place]
  /\ \A c \in Client : ClientInv(c)
  /\ Ready
  /\ TypeOK /\ Core /\ DefaultKept /\ Supplied

\* The programs ask for the default size only.
LEMMA TestSizes == DefaultSizes
BY TestAssumption, ConstantsAssumption, SMT DEF DefaultSizes

\* What another process does while the buffers stay leaves a program where it is.
LEMMA OtherClient ==
  ASSUME NEW d \in Client, ClientInv(d), at'[d] = at[d], pc'[d] = pc[d],
         pc'[Main] = pc[Main], reply'[d] = reply[d],
         hSrc'[d] = hSrc[d], hDst'[d] = hDst[d], UNCHANGED <<mSrc, mDst>>
  PROVE  ClientInv(d)'
BY DEF ClientInv, Published, Succeeded

\* Once the constructor has finished, no step replaces the buffers.
LEMMA Settled ==
  ASSUME TypeOK, DefaultKept, Supplied, Published, NEW c \in Client, Serve(c)
  PROVE  /\ UNCHANGED <<mSize, mSrc, mDst, at>>
         /\ SetSize(c) => Return(c, "setSize", 0) /\ UNCHANGED <<hSrc, hDst, heap>>
         /\ ~(AllocSrc(c) \/ AllocDst(c) \/ Commit(c))
<1>1. ~(AllocSrc(c) \/ AllocDst(c) \/ Commit(c))
  BY DEF AllocSrc, AllocDst, Commit, DefaultKept, Growing
<1>2. ASSUME SetSize(c)
      PROVE  /\ Return(c, "setSize", 0)
             /\ UNCHANGED <<mSize, mSrc, mDst, hSrc, hDst, heap>>
  <2>1. frame[c].size \in Size /\ mSize = SAMPLE_NUMBER
    BY <1>2 DEF SetSize, DefaultKept, Supplied, Published
  <2>2. Ignored(frame[c].size)
    BY <2>1, TestSizes DEF DefaultSizes, Ignored
  <2> QED
    BY <1>2, <2>2 DEF SetSize
<1>3. ASSUME Handle(c) \/ Convert(c) PROVE UNCHANGED <<mSize, mSrc, mDst>>
  BY <1>3 DEF Handle, Convert, GetSrc, TakeSrc, GetDst, TakeDst, Process, FSrc, FDst,
     Filter, Store, service
<1> QED
  BY <1>1, <1>2, <1>3 DEF Serve, Resize

\* A return to a program: the reply it will look at.
LEMMA Returned ==
  ASSUME TypeOK, NEW c \in Client, NEW op, NEW ret, Return(c, op, ret)
  PROVE  /\ pc'[c] = "idle"
         /\ reply'[c].status = Status(op, ret)
         /\ \A u \in Thread : u # c => pc'[u] = pc[u] /\ reply'[u] = reply[u]
BY DEF TypeOK, Return, Goto, Thread

LEMMA GoodStatus == Status("setSize", 0) = "NO_ERROR" /\ \A ret : Status("process", ret) = "NO_ERROR"
BY DEF Status

\* The handlers answer a program as it expects, and leave the others alone.
LEMMA ServeStep ==
  ASSUME TInv, NEW c \in Client, Serve(c)
  PROVE  (\A d \in Client : ClientInv(d))' /\ Ready'
<1>0. /\ \A d \in Client : d \in Thread /\ d # Main
      /\ Main \in Thread
      /\ at' = at
      /\ ClientInv(c)
      /\ TypeOK /\ DefaultKept /\ Supplied /\ Ready /\ Core
  BY ConstantsAssumption DEF Thread, Serve, TInv
<1>1. pc[c] # "idle"
  BY DEF Serve, Resize, SetSize, AllocSrc, AllocDst, Commit, Handle, GetSrc, TakeSrc,
     GetDst, TakeDst, Convert, Process, FSrc, FDst, Filter, Store
<1>2. Published /\ UNCHANGED <<mSize, mSrc, mDst>>
  BY <1>0, <1>1, Settled DEF DefaultKept, Published
<1>3. ASSUME NEW d \in Client, d # c,
             \A u \in Thread : u # c => pc'[u] = pc[u] /\ reply'[u] = reply[u],
             hSrc'[d] = hSrc[d], hDst'[d] = hDst[d]
      PROVE  ClientInv(d)'
  BY <1>0, <1>2, <1>3, OtherClient DEF TInv
<1>4. ASSUME pc'[Main] = pc[Main] PROVE Ready'
  BY <1>0, <1>2, <1>4 DEF Ready, Published
<1>5. CASE SetSize(c)
  <2>1. Return(c, "setSize", 0) /\ UNCHANGED <<hSrc, hDst>>
    BY <1>0, <1>2, <1>5, Settled
  <2>2. /\ pc'[c] = "idle" /\ reply'[c].status = "NO_ERROR"
        /\ \A u \in Thread : u # c => pc'[u] = pc[u] /\ reply'[u] = reply[u]
    BY <1>0, <2>1, Returned, GoodStatus
  <2>3. at[c] = "sized"
    BY <1>0, <1>5 DEF SetSize, ClientInv, Converting, Place
  <2>4. ClientInv(c)'
    BY <1>0, <1>2, <2>1, <2>2, <2>3 DEF ClientInv, HasSrc, HasDst, Succeeded, Published
  <2> QED
    BY <1>0, <1>3, <1>4, <2>1, <2>2, <2>4
<1>6. CASE TakeSrc(c)
  <2>1. frame[c].raw = mSrc /\ at[c] = "gotSrc"
    BY <1>0, <1>6 DEF TakeSrc, ClientInv, Converting, Place, Core, InStep
  <2>2. PICK ret : Return(c, "getSrc", ret)
    BY <1>6 DEF TakeSrc
  <2>3. /\ pc'[c] = "idle" /\ hSrc'[c] = mSrc /\ hDst' = hDst
        /\ \A d \in Client : d # c => hSrc'[d] = hSrc[d]
        /\ \A u \in Thread : u # c => pc'[u] = pc[u] /\ reply'[u] = reply[u]
    BY <1>0, <1>6, <2>1, <2>2, Returned DEF TakeSrc, TypeOK
  <2>4. ClientInv(c)'
    BY <1>0, <1>2, <2>1, <2>3 DEF ClientInv, HasSrc, HasDst, Published
  <2> QED
    BY <1>0, <1>3, <1>4, <2>3, <2>4
<1>7. CASE TakeDst(c)
  <2>1. frame[c].raw = mDst /\ at[c] = "gotDst"
    BY <1>0, <1>7 DEF TakeDst, ClientInv, Converting, Place, Core, InStep
  <2>2. PICK ret : Return(c, "getDst", ret)
    BY <1>7 DEF TakeDst
  <2>3. /\ pc'[c] = "idle" /\ hDst'[c] = mDst /\ hSrc' = hSrc
        /\ \A d \in Client : d # c => hDst'[d] = hDst[d]
        /\ \A u \in Thread : u # c => pc'[u] = pc[u] /\ reply'[u] = reply[u]
    BY <1>0, <1>7, <2>1, <2>2, Returned DEF TakeDst, TypeOK
  <2>4. ClientInv(c)'
    BY <1>0, <1>2, <2>1, <2>3 DEF ClientInv, HasSrc, HasDst, Published
  <2> QED
    BY <1>0, <1>3, <1>4, <2>3, <2>4
<1>8. ASSUME NEW l, Goto(c, l), l \in {"takeSrc", "takeDst", "fsrc", "fdst", "filter", "store"},
             l = "takeSrc" => at[c] = "gotSrc",
             l = "takeDst" => at[c] = "gotDst",
             l \notin {"takeSrc", "takeDst"} => at[c] = "processed",
             UNCHANGED <<reply, hSrc, hDst>>
      PROVE  (\A d \in Client : ClientInv(d))' /\ Ready'
  <2>1. pc'[c] = l /\ \A u \in Thread : u # c => pc'[u] = pc[u]
    BY <1>0, <1>8 DEF Goto, TypeOK
  <2>2. ClientInv(c)'
    BY <1>0, <1>2, <1>8, <2>1 DEF ClientInv, HasSrc, HasDst, Published, Converting
  <2> QED
    BY <1>0, <1>3, <1>4, <1>8, <2>1, <2>2
<1>9. CASE GetSrc(c) \/ GetDst(c) \/ FSrc(c) \/ FDst(c) \/ Filter(c)
  <2>1. pc[c] = "getSrc" => at[c] = "gotSrc"
    BY <1>0 DEF ClientInv, Converting, Place
  <2>2. pc[c] = "getDst" => at[c] = "gotDst"
    BY <1>0 DEF ClientInv, Converting, Place
  <2>3. pc[c] \in Converting => at[c] = "processed"
    BY <1>0 DEF ClientInv, Converting, Place
  <2> QED
    BY <1>8, <1>9, <2>1, <2>2, <2>3
    DEF GetSrc, GetDst, FSrc, FDst, Filter, client, Converting
<1>10. ASSUME NEW ret, Return(c, "process", ret), at[c] = "processed", UNCHANGED <<hSrc, hDst>>
       PROVE  (\A d \in Client : ClientInv(d))' /\ Ready'
  <2>1. /\ pc'[c] = "idle" /\ reply'[c].status = "NO_ERROR"
        /\ \A u \in Thread : u # c => pc'[u] = pc[u] /\ reply'[u] = reply[u]
    BY <1>0, <1>10, Returned, GoodStatus
  <2>2. ClientInv(c)'
    BY <1>0, <1>2, <1>10, <2>1 DEF ClientInv, HasSrc, HasDst, Published, Succeeded
  <2> QED
    BY <1>0, <1>3, <1>4, <1>10, <2>1, <2>2
<1>11. CASE Process(c)
  <2>1. at[c] = "processed"
    BY <1>0, <1>11 DEF Process, ClientInv, Place
  <2> QED
    BY <1>8, <1>10, <1>11, <2>1 DEF Process
<1>12. CASE Store(c)
  <2>1. at[c] = "processed"
    BY <1>0, <1>12 DEF Store, ClientInv, Place
  <2> QED
    BY <1>10, <1>12, <2>1 DEF Store
<1> QED
  BY <1>0, <1>2, <1>5, <1>6, <1>7, <1>9, <1>11, <1>12, Settled
  DEF Serve, Resize, Handle, Convert

\* The buffers that a program holds are large enough for its checks and loops.
LEMMA BigBuffers ==
  ASSUME TInv, Published, NEW h \in {mSrc, mDst}
  PROVE  /\ BigEnough(h) /\ h \in Live
         /\ heap[h].bytes >= SAMPLE_NUMBER * CHANNELS * SampleBytes
<1>1. h # NULL /\ h \in Live
  BY DEF TInv, Ready, Live, Heaps
<1>2. mSize = SAMPLE_NUMBER
  BY DEF TInv, Supplied, Published
<1>3. heap[h].bytes >= SAMPLE_NUMBER * CHANNELS * SampleBytes
  BY <1>1, <1>2 DEF TInv, Core, BuffersFit
<1>4. heap[h].bytes \in Nat
  BY <1>1 DEF TInv, TypeOK
<1>5. heap[h].bytes >= SAMPLE_NUMBER * CHANNELS
  BY <1>3, <1>4, ConstantsAssumption, SMT DEF CHANNELS, SampleBytes
<1> QED
  BY <1>1, <1>3, <1>5 DEF BigEnough

\* What a program does between its calls.
LEMMA TestProgramStep ==
  ASSUME TInv, NEW c \in Client, Program(c)
  PROVE  (\A d \in Client : ClientInv(d))' /\ Ready'
<1>0. /\ \A d \in Client : d \in Thread /\ d # Main
      /\ Main \in Thread
      /\ ClientInv(c) /\ at \in [Client -> Place]
      /\ TypeOK /\ DefaultKept /\ Supplied /\ Ready /\ Core
      /\ \A d \in Client : ClientInv(d)
  BY ConstantsAssumption DEF Thread, TInv
<1>1. ASSUME NEW from, NEW to, Move(c, from, to)
      PROVE  at[c] = from /\ at'[c] = to /\ \A d \in Client : d # c => at'[d] = at[d]
  BY <1>0, <1>1 DEF Move
<1>2. ASSUME NEW from, NEW to, Move(c, from, to), UNCHANGED vars, Published,
             to \in Place \ {"failed"}, pc[c] = "idle",
             to \notin {"sized", "gotSrc", "gotDst", "processed"},
             to \in HasSrc => hSrc[c] = mSrc, to \in HasDst => hDst[c] = mDst
      PROVE  (\A d \in Client : ClientInv(d))' /\ Ready'
  <2>1. UNCHANGED <<mSrc, mDst, pc, reply, hSrc, hDst>>
    BY <1>2 DEF vars, service, client
  <2>2. ClientInv(c)'
    BY <1>1, <1>2, <2>1 DEF ClientInv, Published
  <2> QED
    BY <1>0, <1>1, <1>2, <2>1, <2>2, OtherClient DEF Ready, Published
<1>3. CASE Find(c)
  BY <1>0, <1>1, <1>2, <1>3 DEF Find, ClientInv, Place, HasSrc, HasDst
<1>4. ASSUME NEW op, NEW size, NEW after, Ask(c, op, size, after),
             \/ op = "setSize" /\ after = "sized"
             \/ op = "getSrc" /\ after = "gotSrc"
             \/ op = "getDst" /\ after = "gotDst"
             \/ op = "process" /\ after = "processed"
      PROVE  (\A d \in Client : ClientInv(d))' /\ Ready'
  <2>1. /\ at[c] = op /\ at'[c] = after /\ \A d \in Client : d # c => at'[d] = at[d]
    BY <1>1, <1>4 DEF Ask
  <2>2. /\ pc'[c] = op
        /\ \A u \in Thread : u # c => pc'[u] = pc[u] /\ reply'[u] = reply[u]
        /\ UNCHANGED <<mSrc, mDst, hSrc, hDst>> /\ Published
    BY <1>0, <1>4 DEF Ask, Invoke, Goto, TypeOK, service
  <2>3. ClientInv(c)'
    BY <1>0, <1>4, <2>1, <2>2 DEF ClientInv, Published, HasSrc, HasDst, Place
  <2> QED
    BY <1>0, <2>1, <2>2, <2>3, OtherClient DEF Ready, Published
<1>5. CASE Check(c, "sized", Succeeded(c), "getSrc")
  BY <1>0, <1>1, <1>2, <1>5 DEF Check, Move, ClientInv, Place, HasSrc, HasDst
<1>6. CASE Check(c, "gotSrc", BigEnough(hSrc[c]), "getDst")
  <2>1. at[c] = "gotSrc" /\ pc[c] = "idle"
    BY <1>6 DEF Check, Move
  <2>2. Published /\ hSrc[c] = mSrc
    BY <1>0, <2>1 DEF ClientInv
  <2>3. BigEnough(hSrc[c])
    BY <2>2, BigBuffers
  <2> QED
    BY <1>2, <1>6, <2>1, <2>2, <2>3 DEF Check, Place, HasSrc, HasDst
<1>7. CASE Check(c, "gotDst", BigEnough(hDst[c]), "fill")
  <2>1. at[c] = "gotDst" /\ pc[c] = "idle"
    BY <1>7 DEF Check, Move
  <2>2. Published /\ hDst[c] = mDst /\ hSrc[c] = mSrc
    BY <1>0, <2>1 DEF ClientInv, HasSrc
  <2>3. BigEnough(hDst[c])
    BY <2>2, BigBuffers
  <2> QED
    BY <1>2, <1>7, <2>1, <2>2, <2>3 DEF Check, Place, HasSrc, HasDst
<1>8. CASE Move(c, "fill", "process") /\ Fill(c, c)
  <2>1. /\ at[c] = "fill" /\ at'[c] = "process"
        /\ \A d \in Client : d # c => at'[d] = at[d]
    BY <1>1, <1>8
  <2>2. /\ \A u \in Thread : u # c => reply'[u] = reply[u]
        /\ UNCHANGED <<mSrc, mDst, pc, hSrc, hDst>>
    BY <1>0, <1>8 DEF Fill, TypeOK, service
  <2>3. ClientInv(c)'
    BY <1>0, <2>1, <2>2 DEF ClientInv, Published, HasSrc, HasDst, Place
  <2> QED
    BY <1>0, <2>1, <2>2, <2>3, OtherClient DEF Ready, Published
<1>9. CASE Check(c, "processed", Succeeded(c), "read")
  <2>1. at[c] = "processed" /\ pc[c] = "idle"
    BY <1>9 DEF Check, Move
  <2>2. Published /\ hDst[c] = mDst /\ hSrc[c] = mSrc /\ Succeeded(c)
    BY <1>0, <2>1 DEF ClientInv, HasSrc, HasDst, Converting
  <2> QED
    BY <1>2, <1>9, <2>1, <2>2 DEF Check, Place, HasSrc, HasDst
<1>10. CASE Check(c, "read", TRUE, "passed")
  <2>1. at[c] = "read" /\ pc[c] = "idle"
    BY <1>10 DEF Check, Move
  <2>2. Published /\ hDst[c] = mDst /\ hSrc[c] = mSrc
    BY <1>0, <2>1 DEF ClientInv, HasSrc, HasDst
  <2> QED
    BY <1>2, <1>10, <2>1, <2>2 DEF Check, Place, HasSrc, HasDst
<1> QED
  BY <1>3, <1>4, <1>5, <1>6, <1>7, <1>8, <1>9, <1>10 DEF Program

LEMMA QuitStep ==
  ASSUME TInv, NEW c \in Client, Quit(c)
  PROVE  (\A d \in Client : ClientInv(d))' /\ Ready'
<1>0. /\ \A d \in Client : d \in Thread /\ d # Main
      /\ Main \in Thread
      /\ at \in [Client -> Place] /\ TypeOK /\ Ready
      /\ \A d \in Client : ClientInv(d)
  BY ConstantsAssumption DEF Thread, TInv
<1>1. /\ at'[c] = "wait" /\ pc[c] = "idle"
      /\ \A d \in Client : d # c =>
           at'[d] = at[d] /\ reply'[d] = reply[d] /\ hSrc'[d] = hSrc[d] /\ hDst'[d] = hDst[d]
      /\ UNCHANGED <<pc, mSrc, mDst>>
  BY <1>0 DEF Quit, Exit, TypeOK, service
<1>2. ClientInv(c)'
  BY <1>1 DEF ClientInv, HasSrc, HasDst, Place
<1> QED
  BY <1>0, <1>1, <1>2, OtherClient DEF Ready, Published

\* The constructor runs while every program waits for the service.
LEMMA ConstructStep ==
  ASSUME TInv, Supplied', Construct
  PROVE  (\A d \in Client : ClientInv(d))' /\ Ready'
<1>0. /\ \A d \in Client : d \in Thread /\ d # Main
      /\ Main \in Thread
      /\ at' = at /\ TypeOK /\ DefaultKept /\ Core
      /\ \A d \in Client : ClientInv(d)
  BY ConstantsAssumption DEF Thread, TInv, Construct
<1>1. pc[Main] # "idle"
  BY DEF Construct, Resize, SetSize, AllocSrc, AllocDst, Commit
<1>2. \A d \in Client : at[d] = "wait" /\ pc[d] = "idle"
  BY <1>0, <1>1 DEF ClientInv, Published, DefaultKept
<1>3. \A u \in Thread : u # Main => pc'[u] = pc[u]
  BY <1>0 DEF Construct, Resize, SetSize, AllocSrc, AllocDst, Commit, Return, Goto, TypeOK
<1>4. \A d \in Client : ClientInv(d)'
  BY <1>0, <1>2, <1>3 DEF ClientInv, HasSrc, HasDst, Place
<1>5. Ready'
  BY DEF Supplied, Ready
<1> QED
  BY <1>4, <1>5

LEMMA TInit_TInv == ASSUME TInit, mSize < SAMPLE_NUMBER PROVE TInv /\ Constructed
<1>1. Init /\ at = [c \in Client |-> "wait"]
  BY DEF TInit
<1>2. TypeOK /\ Core
  BY <1>1, TypeInit, CoreInit
<1>3. DefaultKept /\ Constructed
  BY <1>1, DefaultKeptInit
<1>4. \A c \in Client : c \in Thread /\ c # Main /\ pc[c] = "idle"
  BY <1>1, ConstantsAssumption DEF Init, Thread
<1>5. pc[Main] # "idle"
  BY <1>1 DEF Init, Thread
<1>6. Supplied
  <2>1. NotRefused
    BY <1>1 DEF Init, NotRefused, NoReply, Thread
  <2> QED
    BY <1>5, <2>1 DEF Supplied, Published
<1> QED
  BY <1>1, <1>2, <1>3, <1>4, <1>5, <1>6 DEF TInv, ClientInv, Ready, Published, Place, HasSrc, HasDst

LEMMA TStep == ASSUME NoWrap, TInv, [TNext]_tvars, Constructed' PROVE TInv'
<1>1. [Next]_vars
  BY TestStep
<1>2. TypeOK /\ Core /\ DefaultKept /\ Supplied
  BY DEF TInv
<1>3. TypeOK'
  BY <1>1, <1>2, TypeStep
<1>4. Core'
  <2>1. Exclusive
    BY <1>2 DEF DefaultKept, Exclusive, Growing, Thread
  <2> QED
    BY <1>1, <1>2, <1>3, <2>1, CoreStep
<1>5. DefaultKept' /\ Supplied'
  BY <1>1, <1>2, TestSizes, DefaultKeptStep, SuppliedStep
<1>6. (\A d \in Client : ClientInv(d))' /\ Ready'
  <2>1. CASE UNCHANGED tvars
    BY <2>1 DEF TInv, tvars, vars, service, client, Ready, Published, ClientInv, Succeeded
  <2> QED
    BY <1>5, <2>1, ConstructStep, ServeStep, TestProgramStep, QuitStep DEF TNext
<1>7. at' \in [Client -> Place]
  <2>1. at \in [Client -> Place]
    BY DEF TInv
  <2>2. ASSUME NEW c \in Client, NEW to \in Place, at' = [at EXCEPT ![c] = to]
        PROVE  at' \in [Client -> Place]
    BY <2>1, <2>2
  <2>3. ASSUME NEW c \in Client, Program(c) PROVE \E to \in Place : at' = [at EXCEPT ![c] = to]
    BY <2>3 DEF Program, Find, Ask, Check, Move, Place
  <2>4. ASSUME NEW c \in Client, Quit(c) PROVE \E to \in Place : at' = [at EXCEPT ![c] = to]
    BY <2>4 DEF Quit, Place
  <2>5. CASE UNCHANGED at
    BY <2>1, <2>5
  <2> QED
    BY <2>2, <2>3, <2>4, <2>5 DEF TNext, Construct, Serve, tvars
<1> QED
  BY <1>3, <1>4, <1>5, <1>6, <1>7 DEF TInv

\* The constructor has been refused memory, or the programs find what they expect.
Started(P) == /\ Constructed => P
              /\ Constructed \/ pc[Main] = "idle"

\* The invariant holds until the constructor is refused memory, if mSize is less
\* than the default size at first.
LEMMA SpecTInv ==
  ASSUME NoWrap
  PROVE  TSpec => (mSize < SAMPLE_NUMBER => [](Started(TInv)))
<1>1. TInit /\ mSize < SAMPLE_NUMBER => Started(TInv)
  BY TInit_TInv DEF Started
<1>2. TypeOK /\ Started(TInv) /\ [TNext]_tvars => Started(TInv)'
  BY TestStep, ConstructedBefore, TStep DEF Started
<1> QED
  BY <1>1, <1>2, TestImplements, TypeCorrect, PTL DEF TSpec

\* Any number of test programs, started, killed and started again in any order,
\* can use the service at the same time: if mSize is less than the default size
\* at first and the constructor is not refused memory, none of them fails.
THEOREM TestsNeverFail ==
  ASSUME NoWrap
  PROVE  TSpec => (mSize < SAMPLE_NUMBER => [](Constructed => NeverFails))
<1>1. Started(TInv) => (Constructed => NeverFails)
  BY DEF Started, TInv, ClientInv, NeverFails
<1> QED
  BY <1>1, SpecTInv, PTL

\* Under the same conditions each of them finds the SAMPLE_NUMBER samples of
\* every channel in the buffers that it accesses, although it compares bytes
\* with samples.
THEOREM TestsStayInBounds ==
  ASSUME NoWrap
  PROVE  TSpec => (mSize < SAMPLE_NUMBER => [](Constructed => AccessInBounds))
<1>1. TInv => AccessInBounds
  <2> SUFFICES ASSUME TInv PROVE AccessInBounds
    OBVIOUS
  <2>1. ASSUME NEW c \in Client
        PROVE  /\ at[c] = "fill" => Published /\ hSrc[c] = mSrc
               /\ at[c] = "read" => Published /\ hDst[c] = mDst
    BY DEF TInv, ClientInv, HasSrc, HasDst
  <2> QED
    BY <2>1, BigBuffers DEF AccessInBounds
<1>2. Started(TInv) => (Constructed => AccessInBounds)
  BY <1>1 DEF Started
<1> QED
  BY <1>2, SpecTInv, PTL
-----------------------------------------------------------------------------
\* The source is not empty once a program has filled it, nor the destination
\* once process() has returned to one: they are shared, and what another
\* program does in between only puts other audio into them.
Audible(h) == heap[h].data # {}

Poured == \A c \in Client : at[c] \in {"process", "processed", "read"} => Audible(mSrc)

Filtered ==
  \A c \in Client :
    at[c] = "read" \/ (at[c] = "processed" /\ pc[c] = "idle") => Audible(mDst)

Audio == Poured /\ Filtered

\* A step that keeps the buffers audible needs to be looked at only for the
\* programs that it moves.
LEMMA AudioKept ==
  ASSUME Audio, NEW c \in Client, UNCHANGED <<mSrc, mDst>>,
         Audible(mSrc) => Audible(mSrc)', Audible(mDst) => Audible(mDst)',
         \A d \in Client : d # c => at'[d] = at[d] /\ pc'[d] = pc[d],
         at'[c] \in {"process", "processed", "read"} => Audible(mSrc)',
         at'[c] = "read" \/ (at'[c] = "processed" /\ pc'[c] = "idle") => Audible(mDst)'
  PROVE  Audio'
<1>1. Poured'
  BY DEF Audio, Poured
<1>2. Filtered'
  BY DEF Audio, Filtered
<1> QED
  BY <1>1, <1>2 DEF Audio

\* The heaps of the service stay as they are when others are released.
LEMMA MembersKept ==
  ASSUME NEW hs, NEW hd, heap' = Restrict(heap, Heaps(mSrc, mDst, hs, hd)),
         mSrc # NULL, mDst # NULL, UNCHANGED <<mSrc, mDst>>
  PROVE  (Audible(mSrc) => Audible(mSrc)') /\ (Audible(mDst) => Audible(mDst)')
<1>1. mSrc \in Heaps(mSrc, mDst, hs, hd) /\ mDst \in Heaps(mSrc, mDst, hs, hd)
  BY DEF Heaps
<1>2. heap'[mSrc] = heap[mSrc] /\ heap'[mDst] = heap[mDst]
  BY <1>1 DEF Restrict
<1> QED
  BY <1>2 DEF Audible

LEMMA ServeAudio ==
  ASSUME TInv, Audio, NEW c \in Client, Serve(c)
  PROVE  Audio'
<1>0. /\ \A d \in Client : d \in Thread /\ d # Main
      /\ Main \in Thread /\ c \in Thread
      /\ at' = at
      /\ ClientInv(c)
      /\ TypeOK /\ DefaultKept /\ Supplied /\ Ready /\ Core
  BY ConstantsAssumption DEF Thread, Serve, TInv
<1>1. pc[c] # "idle"
  BY DEF Serve, Resize, SetSize, AllocSrc, AllocDst, Commit, Handle, GetSrc, TakeSrc,
     GetDst, TakeDst, Convert, Process, FSrc, FDst, Filter, Store
<1>2. /\ Published /\ UNCHANGED <<mSize, mSrc, mDst>>
      /\ mSrc # NULL /\ mDst # NULL /\ mSize = SAMPLE_NUMBER
      /\ mSrc \in Live /\ mDst \in Live
  BY <1>0, <1>1, Settled DEF DefaultKept, Supplied, Published, Ready, Live, Heaps
<1>3. \A d \in Client : d # c => pc'[d] = pc[d]
  BY <1>0 DEF Serve, Resize, SetSize, AllocSrc, AllocDst, Commit, Handle, GetSrc, TakeSrc,
     GetDst, TakeDst, Convert, Process, FSrc, FDst, Filter, Store, Return, Goto, TypeOK
<1>4. ASSUME Audible(mSrc) => Audible(mSrc)', Audible(mDst) => Audible(mDst)',
             at[c] = "processed" /\ pc'[c] = "idle" => Audible(mDst)'
      PROVE  Audio'
  <2>1. at[c] \in {"process", "processed", "read"} => Audible(mSrc)
    BY DEF Audio, Poured
  <2>2. at[c] # "read"
    BY <1>0, <1>1 DEF ClientInv
  <2> QED
    BY <1>0, <1>2, <1>3, <1>4, <2>1, <2>2, AudioKept
<1>5. ASSUME UNCHANGED heap, ~(at[c] = "processed" /\ pc'[c] = "idle") PROVE Audio'
  BY <1>2, <1>4, <1>5 DEF Audible
<1>6. CASE SetSize(c)
  <2>1. at[c] = "sized" /\ UNCHANGED heap
    BY <1>0, <1>2, <1>6, Settled DEF SetSize, ClientInv, Converting, Place
  <2> QED
    BY <1>5, <2>1
<1>7. CASE TakeSrc(c) \/ TakeDst(c)
  <2>1. at[c] # "processed"
    BY <1>0, <1>7 DEF TakeSrc, TakeDst, ClientInv, Converting
  <2>2. (Audible(mSrc) => Audible(mSrc)') /\ (Audible(mDst) => Audible(mDst)')
    BY <1>2, <1>7, MembersKept DEF TakeSrc, TakeDst
  <2> QED
    BY <1>4, <2>1, <2>2
<1>8. CASE GetSrc(c) \/ GetDst(c) \/ FSrc(c) \/ FDst(c) \/ Filter(c)
  <2>1. pc'[c] # "idle"
    BY <1>0, <1>8 DEF GetSrc, GetDst, FSrc, FDst, Filter, Goto, TypeOK
  <2> QED
    BY <1>5, <1>8, <2>1 DEF GetSrc, GetDst, FSrc, FDst, Filter
<1>9. CASE Process(c)
  <2>1. ~NoBuffers
    BY <1>2, ConstantsAssumption DEF NoBuffers
  <2>2. pc'[c] # "idle" /\ UNCHANGED heap
    BY <1>0, <1>9, <2>1 DEF Process, Goto, TypeOK
  <2> QED
    BY <1>5, <2>2
<1>10. CASE Store(c)
  <2>1. at[c] = "processed" /\ Audible(mSrc)
    <3>1. at[c] = "processed"
      BY <1>0, <1>10 DEF Store, ClientInv, Place
    <3> QED
      BY <3>1 DEF Audio, Poured
  <2>2. frame[c].fsrc.base = mSrc /\ frame[c].fdst.base = mDst
    BY <1>0, <1>10 DEF Store, Core, InStep
  <2> DEFINE out == frame[c].z \cup heap[mSrc].data
  <2>3. heap' = [heap EXCEPT ![mDst].data = out] /\ out # {}
    BY <1>10, <2>1, <2>2 DEF Store, Audible
  <2>4. DOMAIN heap = Live
    BY <1>0 DEF TypeOK
  <2>5. heap[mDst] \in HeapRec
    BY <1>0, <1>2 DEF TypeOK, HeapRec
  <2>6. /\ heap'[mDst].data = out
        /\ mSrc # mDst => heap'[mSrc] = heap[mSrc]
    BY <1>2, <2>3, <2>4, <2>5 DEF HeapRec
  <2>7. Audible(mDst)' /\ Audible(mSrc)'
    BY <1>2, <2>1, <2>3, <2>6 DEF Audible
  <2> QED
    BY <1>4, <2>7
<1> QED
  BY <1>0, <1>2, <1>6, <1>7, <1>8, <1>9, <1>10, Settled DEF Serve, Resize, Handle, Convert

\* What a program itself contributes: its ramp is some audio.
LEMMA FillAudio ==
  ASSUME TInv, Audio, NEW c \in Client, Move(c, "fill", "process"), Fill(c, c)
  PROVE  Audio'
<1>1. /\ TypeOK /\ Ready /\ at \in [Client -> Place] /\ Published /\ hSrc[c] = mSrc
      /\ \A d \in Client : d \in Thread
  BY DEF TInv, ClientInv, Move, HasSrc, Thread
<1>2. at'[c] = "process" /\ \A d \in Client : d # c => at'[d] = at[d] /\ pc'[d] = pc[d]
  BY <1>1 DEF Move, Fill
<1>3. mSrc \in Live /\ mDst \in Live /\ UNCHANGED <<mSrc, mDst>>
  BY <1>1 DEF Ready, Live, Heaps, Fill, service
<1>4. /\ heap' = [heap EXCEPT ![mSrc].data = {c}] /\ DOMAIN heap = Live
      /\ heap[mSrc] \in HeapRec
  BY <1>1, <1>3 DEF Fill, TypeOK, HeapRec
<1>5. heap'[mSrc].data = {c} /\ (mDst # mSrc => heap'[mDst] = heap[mDst])
  BY <1>3, <1>4 DEF HeapRec
<1>6. Audible(mSrc)' /\ (Audible(mDst) => Audible(mDst)')
  BY <1>3, <1>5 DEF Audible
<1> QED
  BY <1>2, <1>3, <1>6, AudioKept

LEMMA ProgramAudio ==
  ASSUME TInv, Audio, NEW c \in Client, Program(c)
  PROVE  Audio'
<1>0. /\ \A d \in Client : d \in Thread
      /\ at \in [Client -> Place] /\ TypeOK
      /\ at[c] \in {"process", "processed", "read"} => Audible(mSrc)
      /\ at[c] = "processed" /\ pc[c] = "idle" => Audible(mDst)
  BY DEF Thread, TInv, Audio, Poured, Filtered
<1>1. ASSUME UNCHANGED <<mSrc, mDst, heap>>,
             \A d \in Client : d # c => at'[d] = at[d] /\ pc'[d] = pc[d],
             at'[c] \in {"process", "processed", "read"} =>
               at[c] \in {"process", "processed", "read"},
             at'[c] = "processed" => pc'[c] # "idle",
             at'[c] = "read" => at[c] = "processed" /\ pc[c] = "idle"
      PROVE  Audio'
  BY <1>0, <1>1, AudioKept DEF Audible
<1>2. ASSUME NEW from, NEW to, Move(c, from, to)
      PROVE  at[c] = from /\ at'[c] = to /\ \A d \in Client : d # c => at'[d] = at[d]
  BY <1>0, <1>2 DEF Move
<1>3. CASE Find(c)
  BY <1>1, <1>2, <1>3 DEF Find, vars, service
<1>4. ASSUME NEW op \in Op, NEW size, NEW after, Ask(c, op, size, after),
             after # "read" /\ after # "process", after = "processed" => op = "process"
      PROVE  Audio'
  <2>1. /\ pc'[c] = op /\ \A d \in Client : d # c => pc'[d] = pc[d]
        /\ UNCHANGED <<mSrc, mDst, heap>>
    BY <1>0, <1>4 DEF Ask, Invoke, Goto, TypeOK, service
  <2>2. op # "idle"
    BY DEF Op
  <2> QED
    BY <1>1, <1>2, <1>4, <2>1, <2>2 DEF Ask
<1>5. ASSUME NEW from, NEW to, Move(c, from, to), UNCHANGED vars, pc[c] = "idle",
             to \notin {"process", "processed"}, to = "read" => from = "processed"
      PROVE  Audio'
  <2>1. UNCHANGED <<mSrc, mDst, heap, pc>> /\ pc[c] = "idle"
    BY <1>5 DEF vars, service
  <2>2. at[c] = from /\ at'[c] = to /\ \A d \in Client : d # c => at'[d] = at[d]
    BY <1>2, <1>5
  <2> QED
    BY <1>1, <1>5, <2>1, <2>2
<1>6. ASSUME \/ Ask(c, "setSize", SAMPLE_NUMBER, "sized") \/ Ask(c, "getSrc", 0, "gotSrc")
             \/ Ask(c, "getDst", 0, "gotDst") \/ Ask(c, "process", 0, "processed")
      PROVE  Audio'
  <2>1. {"setSize", "getSrc", "getDst", "process"} \subseteq Op
    BY DEF Op
  <2> QED
    BY <1>4, <1>6, <2>1
<1>7. CASE \/ Check(c, "sized", Succeeded(c), "getSrc")
           \/ Check(c, "gotSrc", BigEnough(hSrc[c]), "getDst")
           \/ Check(c, "gotDst", BigEnough(hDst[c]), "fill")
           \/ Check(c, "processed", Succeeded(c), "read")
           \/ Check(c, "read", TRUE, "passed")
  BY <1>5, <1>7 DEF Check
<1>8. CASE Move(c, "fill", "process") /\ Fill(c, c)
  BY <1>8, FillAudio
<1> QED
  BY <1>3, <1>6, <1>7, <1>8 DEF Program

LEMMA QuitAudio == ASSUME TInv, Audio, NEW c \in Client, Quit(c) PROVE Audio'
<1>1. /\ \A d \in Client : d # c => at'[d] = at[d] /\ pc'[d] = pc[d]
      /\ at'[c] = "wait" /\ UNCHANGED <<mSrc, mDst>>
  BY DEF TInv, Quit, Exit, service
<1>2. mSrc # NULL /\ mDst # NULL
  BY DEF TInv, Ready, Quit, Exit
<1>3. (Audible(mSrc) => Audible(mSrc)') /\ (Audible(mDst) => Audible(mDst)')
  BY <1>1, <1>2, MembersKept DEF Quit, Exit
<1> QED
  BY <1>1, <1>3, AudioKept

\* Nobody has got anywhere while the service is being constructed.
LEMMA ConstructAudio == ASSUME TInv, Construct PROVE Audio'
<1>1. pc[Main] # "idle" /\ at' = at
  BY DEF Construct, Resize, SetSize, AllocSrc, AllocDst, Commit
<1>2. \A d \in Client : at'[d] = "wait"
  BY <1>1 DEF TInv, ClientInv, Published
<1> QED
  BY <1>2 DEF Audio, Poured, Filtered

\* However many other programs fill and convert the same buffers, or are killed
\* meanwhile, none of them reads an empty destination, under the same conditions.
THEOREM TestsHearSomething ==
  ASSUME NoWrap
  PROVE  TSpec => (mSize < SAMPLE_NUMBER => [](Constructed => SomeAudio))
<1>1. TInit => (Constructed => Audio)
  BY DEF TInit, Audio, Poured, Filtered
<1>2. /\ TypeOK /\ Started(TInv) /\ (Constructed => Audio)
      /\ [TNext]_tvars
      => (Constructed => Audio)'
  <2> SUFFICES ASSUME TypeOK, Started(TInv), Constructed => Audio, [TNext]_tvars, Constructed'
               PROVE  Audio'
    OBVIOUS
  <2>1. TInv /\ Audio
    BY TestStep, ConstructedBefore DEF Started
  <2>2. CASE UNCHANGED tvars
    <3>1. UNCHANGED <<at, pc, heap, mSrc, mDst>>
      BY <2>2 DEF tvars, vars, service
    <3> QED
      BY <2>1, <3>1 DEF Audio, Poured, Filtered, Audible
  <2> QED
    BY <2>1, <2>2, ConstructAudio, ServeAudio, ProgramAudio, QuitAudio DEF TNext
<1>3. TInv /\ Audio => SomeAudio
  <2> SUFFICES ASSUME TInv, Audio, NEW c \in Client, at[c] = "read" PROVE heap[hDst[c]].data # {}
    BY DEF SomeAudio
  <2>1. hDst[c] = mDst
    BY DEF TInv, ClientInv, HasDst
  <2>2. Audible(mDst)
    BY DEF Audio, Filtered
  <2> QED
    BY <2>1, <2>2 DEF Audible
<1>4. Started(TInv) /\ (Constructed => Audio) => (Constructed => SomeAudio)
  BY <1>3 DEF Started
<1> QED
  BY <1>1, <1>2, <1>4, SpecTInv, TestImplements, TypeCorrect, PTL DEF TSpec
=============================================================================
