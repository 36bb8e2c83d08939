----------------------- MODULE TetraudioServiceProofs -----------------------
(***************************************************************************)
(* Theorems about TetraudioService, for every set of clients, heaps and    *)
(* sizes that satisfies ConstantsAssumption; and, in the second half, that *)
(* it implements ITetraudio when it has one client.                        *)
(***************************************************************************)
EXTENDS TetraudioOneClient, TLAPS

HeapRec == [bytes : Nat, data : SUBSET Block]

\* The number of bytes that setSize() computes is a natural number.
LEMMA BytesNat == ASSUME NEW s \in Nat PROVE Bytes(s) \in Nat
BY ConstantsAssumption, SMT DEF Bytes, CHANNELS, SampleBytes

\* Fewer references leave fewer heaps.
LEMMA Released ==
  ASSUME NEW S, NEW T, S \subseteq T, NEW f \in [T -> HeapRec]
  PROVE  Restrict(f, S) \in [S -> HeapRec]
BY DEF Restrict

\* One local variable replaced.
LEMMA FrameSize ==
  ASSUME NEW fr \in Frame, NEW k \in Nat PROVE [fr EXCEPT !.size = k] \in Frame
BY SMT DEF Frame

LEMMA FrameRaw ==
  ASSUME NEW fr \in Frame, NEW p \in Heap \cup {NULL} PROVE [fr EXCEPT !.raw = p] \in Frame
BY SMT DEF Frame

LEMMA FrameBuffer ==
  ASSUME NEW fr \in Frame, NEW b \in Buffer
  PROVE  [fr EXCEPT !.fsrc = b] \in Frame /\ [fr EXCEPT !.fdst = b] \in Frame
BY SMT DEF Frame

LEMMA FrameLength ==
  ASSUME NEW fr \in Frame, NEW k \in Nat, NEW z \in SUBSET Block
  PROVE  [fr EXCEPT !.n = k, !.z = z] \in Frame
<1> DEFINE fr1 == [fr EXCEPT !.n = k]
<1>1. fr1 \in Frame
  BY SMT DEF Frame
<1> HIDE DEF fr1
<1>2. [fr1 EXCEPT !.z = z] \in Frame
  BY <1>1, SMT DEF Frame
<1>3. [fr EXCEPT !.n = k, !.z = z] = [fr1 EXCEPT !.z = z]
  BY Zenon DEF fr1
<1> QED
  BY <1>2, <1>3

\* A thread's local variables replaced by others.
LEMMA FrameSet ==
  ASSUME NEW f \in [Thread -> Frame], NEW t \in Thread, NEW fr \in Frame
  PROVE  [f EXCEPT ![t] = fr] \in [Thread -> Frame]
OBVIOUS

\* Initially no heap exists.
LEMMA TypeInit == Init => TypeOK
<1> SUFFICES ASSUME Init PROVE TypeOK
  OBVIOUS
<1> USE DEF Init
<1>1. mSize \in Nat /\ SAMPLE_NUMBER \in Nat
  BY ConstantsAssumption
<1>2. Live = {}
  BY SMT DEF Live, Heaps
<1>3. heap \in [Live -> [bytes : Nat, data : SUBSET Block]]
  BY <1>2, SMT
<1>4. frame \in [Thread -> Frame]
  BY <1>1, SMT DEF Frame, Buffer, NoFrame, NoBuffer
<1>5. reply \in [Thread -> Reply]
  BY SMT DEF Reply, NoReply
<1>6. pc \in [Thread -> Label]
  BY SMT DEF Label
<1> QED
  BY <1>1, <1>3, <1>4, <1>5, <1>6, SMT DEF TypeOK

\* What Return() does to the types.
LEMMA ReturnType ==
  ASSUME TypeOK, NEW t \in Thread, NEW op \in Op, NEW ret \in {0, -1},
         Return(t, op, ret)
  PROVE  /\ pc' \in [Thread -> Label]
         /\ frame' \in [Thread -> Frame]
         /\ reply' \in [Thread -> Reply]
<1>1. NoFrame \in Frame
  BY SMT DEF NoFrame, Frame, NoBuffer, Buffer
<1>2. [op |-> op, ret |-> ret, status |-> Status(op, ret)] \in Reply
  BY SMT DEF Reply, Status
<1>3. "idle" \in Label
  BY DEF Label
<1> QED
  BY <1>1, <1>2, <1>3, SMT DEF TypeOK, Return, Goto

\* No step takes a variable out of its type.
LEMMA TypeStep == TypeOK /\ [Next]_vars => TypeOK'
<1> SUFFICES ASSUME TypeOK, [Next]_vars PROVE TypeOK'
  OBVIOUS
<1> USE ConstantsAssumption
<1>0. {h \in Heap : TRUE} = Heap /\ \A c \in Client : c \in Thread
  BY DEF Thread
<1>1. ASSUME NEW t \in Thread, SetSize(t) PROVE TypeOK'
  <2>1. CASE Ignored(frame[t].size)
    <3>1. Return(t, "setSize", 0) /\ asked' = [asked EXCEPT ![t] = frame[t].size]
          /\ UNCHANGED <<mSize, mSrc, mDst, heap, filt, hSrc, hDst>>
      BY <1>1, <2>1 DEF SetSize
    <3>2. Live' = Live
      BY <3>1 DEF Live, Heaps
    <3>3. frame[t].size \in Nat
      BY DEF TypeOK, Frame
    <3> QED
      BY <3>1, <3>2, <3>3, ReturnType DEF TypeOK, Op
  <2>2. CASE ~Ignored(frame[t].size)
    <3>1. Ignored(0)
      BY SMT DEF TypeOK, Ignored
    <3>2. FreeOld /\ Goto(t, "allocSrc") /\ UNCHANGED <<filt, frame, reply, asked, hSrc, hDst>>
      BY <1>1, <2>2 DEF SetSize
    <3>3. UNCHANGED <<mSize, mSrc, mDst, heap>>
      BY <3>1, <3>2 DEF FreeOld
    <3>4. Live' = Live
      BY <3>2, <3>3 DEF Live, Heaps
    <3> QED
      BY <3>2, <3>3, <3>4 DEF TypeOK, Goto, Label
  <2> QED
    BY <2>1, <2>2
<1>2. ASSUME NEW t \in Thread, AllocSrc(t) PROVE TypeOK'
  <2>1. ASSUME NEW h \in Heap,
               mSrc' = h, heap' = Allocated(h, Bytes(frame[t].size), h, mDst),
               Goto(t, "allocDst"), UNCHANGED <<frame, reply, asked>>
        PROVE TypeOK'
    <3>1. Bytes(frame[t].size) \in Nat
      BY BytesNat DEF TypeOK, Frame
    <3>2. UNCHANGED <<mSize, mDst, filt, hSrc, hDst>>
      BY <1>2 DEF AllocSrc
    <3>3. Live' = Heaps(h, mDst, hSrc, hDst) /\ Live' \subseteq Live \cup {h}
      BY <2>1, <3>2 DEF Live, Heaps
    <3>4. heap' \in [Live' -> HeapRec]
      BY <2>1, <3>1, <3>3, SMT DEF TypeOK, Allocated, HeapRec
    <3> QED
      BY <2>1, <3>2, <3>4 DEF TypeOK, Goto, Label, HeapRec
  <2>2. ASSUME mSrc' = NULL, heap' = Restrict(heap, Heaps(NULL, mDst, hSrc, hDst)),
               Return(t, "setSize", -1), asked' = [asked EXCEPT ![t] = 0]
        PROVE TypeOK'
    <3>2. UNCHANGED <<mSize, mDst, filt, hSrc, hDst>>
      BY <1>2 DEF AllocSrc
    <3>3. Live' = Heaps(NULL, mDst, hSrc, hDst) /\ Live' \subseteq Live
      BY <2>2, <3>2 DEF Live, Heaps
    <3>4. heap' \in [Live' -> HeapRec]
      BY <2>2, <3>3, Released DEF TypeOK, HeapRec
    <3> QED
      BY <2>2, <3>2, <3>4, ReturnType DEF TypeOK, Op, HeapRec
  <2> QED
    BY <1>2, <2>1, <2>2 DEF AllocSrc
<1>3. ASSUME NEW t \in Thread, AllocDst(t) PROVE TypeOK'
  <2>1. ASSUME NEW h \in Heap,
               mDst' = h, heap' = Allocated(h, Bytes(frame[t].size), mSrc, h),
               Goto(t, "commit"), UNCHANGED <<mSrc, frame, reply, asked>>
        PROVE TypeOK'
    <3>1. Bytes(frame[t].size) \in Nat
      BY BytesNat DEF TypeOK, Frame
    <3>2. UNCHANGED <<mSize, filt, hSrc, hDst>>
      BY <1>3 DEF AllocDst
    <3>3. Live' = Heaps(mSrc, h, hSrc, hDst) /\ Live' \subseteq Live \cup {h}
      BY <2>1, <3>2 DEF Live, Heaps
    <3>4. heap' \in [Live' -> HeapRec]
      BY <2>1, <3>1, <3>3, SMT DEF TypeOK, Allocated, HeapRec
    <3> QED
      BY <2>1, <3>2, <3>4 DEF TypeOK, Goto, Label, HeapRec
  <2>2. ASSUME mDst' = NULL, mSrc' = NULL,
               heap' = Restrict(heap, Heaps(NULL, NULL, hSrc, hDst)),
               Return(t, "setSize", -1), asked' = [asked EXCEPT ![t] = 0]
        PROVE TypeOK'
    <3>2. UNCHANGED <<mSize, filt, hSrc, hDst>>
      BY <1>3 DEF AllocDst
    <3>3. Live' = Heaps(NULL, NULL, hSrc, hDst) /\ Live' \subseteq Live
      BY <2>2, <3>2 DEF Live, Heaps
    <3>4. heap' \in [Live' -> HeapRec]
      BY <2>2, <3>3, Released DEF TypeOK, HeapRec
    <3> QED
      BY <2>2, <3>2, <3>4, ReturnType DEF TypeOK, Op, HeapRec
  <2> QED
    BY <1>3, <2>1, <2>2 DEF AllocDst
<1>4. ASSUME NEW t \in Thread, Commit(t) PROVE TypeOK'
  <2>1. frame[t].size \in Nat
    BY DEF TypeOK, Frame
  <2>2. Live' = Live
    BY <1>4 DEF Commit, Live, Heaps
  <2> QED
    BY <1>4, <2>1, <2>2, ReturnType DEF Commit, TypeOK, Op
<1>5. ASSUME NEW c \in Client, GetSrc(c) \/ GetDst(c) PROVE TypeOK'
  <2>1. frame' \in [Thread -> Frame]
    <3>1. /\ [frame[c] EXCEPT !.raw = mSrc] \in Frame
          /\ [frame[c] EXCEPT !.raw = mDst] \in Frame
      <4>1. frame[c] \in Frame /\ mSrc \in Heap \cup {NULL} /\ mDst \in Heap \cup {NULL}
        BY <1>0 DEF TypeOK
      <4> QED
        BY <4>1, FrameRaw
    <3>2. \/ frame' = [frame EXCEPT ![c] = [frame[c] EXCEPT !.raw = mSrc]]
          \/ frame' = [frame EXCEPT ![c] = [frame[c] EXCEPT !.raw = mDst]]
      BY <1>5 DEF GetSrc, GetDst
    <3> QED
      BY <1>0, <3>1, <3>2, FrameSet DEF TypeOK
  <2>2. pc' \in [Thread -> Label]
    BY <1>5, <1>0, SMT DEF GetSrc, GetDst, Goto, TypeOK, Label
  <2>3. UNCHANGED <<service, heap, client>> /\ Live' = Live
    BY <1>5 DEF GetSrc, GetDst, service, client, Live, Heaps
  <2> QED
    BY <2>1, <2>2, <2>3 DEF TypeOK, service, client
<1>6. ASSUME NEW c \in Client, TakeSrc(c) PROVE TypeOK'
  <2>1. frame[c].raw \in Heap \cup {NULL}
    BY <1>0 DEF TypeOK, Frame
  <2>2. Live' = Heaps(mSrc, mDst, hSrc', hDst) /\ Live' \subseteq Live
    BY <1>6 DEF TakeSrc, service, Live, Heaps, TypeOK
  <2>3. heap' \in [Live' -> HeapRec]
    BY <1>6, <2>2, Released DEF TakeSrc, TypeOK, HeapRec
  <2>4. PICK r \in {0, -1} : Return(c, "getSrc", r)
    BY <1>6 DEF TakeSrc
  <2> QED
    BY <1>6, <1>0, <2>1, <2>3, <2>4, ReturnType DEF TakeSrc, TypeOK, Op, service, HeapRec
<1>7. ASSUME NEW c \in Client, TakeDst(c) PROVE TypeOK'
  <2>1. frame[c].raw \in Heap \cup {NULL}
    BY <1>0 DEF TypeOK, Frame
  <2>2. Live' = Heaps(mSrc, mDst, hSrc, hDst') /\ Live' \subseteq Live
    BY <1>7 DEF TakeDst, service, Live, Heaps, TypeOK
  <2>3. heap' \in [Live' -> HeapRec]
    BY <1>7, <2>2, Released DEF TakeDst, TypeOK, HeapRec
  <2>4. PICK r \in {0, -1} : Return(c, "getDst", r)
    BY <1>7 DEF TakeDst
  <2> QED
    BY <1>7, <1>0, <2>1, <2>3, <2>4, ReturnType DEF TakeDst, TypeOK, Op, service, HeapRec
<1>8. ASSUME NEW c \in Client, Reset(c) PROVE TypeOK'
  <2>1. Live' = Live
    BY <1>8 DEF Reset, Live, Heaps
  <2> QED
    BY <1>8, <1>0, <2>1, ReturnType DEF Reset, TypeOK, Op
<1>9. ASSUME NEW c \in Client, Process(c) PROVE TypeOK'
  <2>1. UNCHANGED <<service, heap, asked, hSrc, hDst>> /\ Live' = Live
    BY <1>9 DEF Process, service, Live, Heaps
  <2>2. CASE Return(c, "process", -1)
    BY <1>0, <2>1, <2>2, ReturnType DEF TypeOK, Op, service
  <2>3. CASE Goto(c, "fsrc") /\ UNCHANGED <<frame, reply>>
    BY <1>0, <2>1, <2>3 DEF TypeOK, Goto, Label, service
  <2> QED
    BY <1>9, <2>2, <2>3 DEF Process
<1>10. ASSUME NEW c \in Client, FSrc(c) \/ FDst(c) \/ Filter(c) PROVE TypeOK'
  <2>1. UNCHANGED <<service, heap, client>> /\ Live' = Live
    BY <1>10 DEF FSrc, FDst, Filter, service, client, Live, Heaps
  <2>2. frame' \in [Thread -> Frame]
    <3>1. /\ frame[c] \in Frame
          /\ mSize \in Nat /\ filt \in SUBSET Block
          /\ [base |-> mSrc, stride |-> mSize] \in Buffer
          /\ [base |-> mDst, stride |-> mSize] \in Buffer
      BY <1>0 DEF TypeOK, Buffer
    <3>2. /\ [frame[c] EXCEPT !.fsrc = [base |-> mSrc, stride |-> mSize]] \in Frame
          /\ [frame[c] EXCEPT !.fdst = [base |-> mDst, stride |-> mSize]] \in Frame
          /\ [frame[c] EXCEPT !.n = mSize, !.z = filt] \in Frame
      BY <3>1, FrameBuffer, FrameLength
    <3>3. \/ frame' = [frame EXCEPT ![c] =
                         [frame[c] EXCEPT !.fsrc = [base |-> mSrc, stride |-> mSize]]]
          \/ frame' = [frame EXCEPT ![c] =
                         [frame[c] EXCEPT !.fdst = [base |-> mDst, stride |-> mSize]]]
          \/ frame' = [frame EXCEPT ![c] =
                         [frame[c] EXCEPT !.n = mSize, !.z = filt]]
      BY <1>10, <1>0 DEF FSrc, FDst, Filter, TypeOK
    <3> QED
      BY <1>0, <3>2, <3>3, FrameSet DEF TypeOK
  <2>3. pc' \in [Thread -> Label]
    BY <1>10, <1>0, SMT DEF FSrc, FDst, Filter, Goto, TypeOK, Label
  <2> QED
    BY <2>1, <2>2, <2>3 DEF TypeOK, service, client
<1>11. ASSUME NEW c \in Client, Store(c) PROVE TypeOK'
  <2> DEFINE out == frame[c].z \cup heap[frame[c].fsrc.base].data
  <2>1. out \in SUBSET Block
    BY <1>11, <1>0 DEF Store, TypeOK, Frame
  <2>2. Live' = Live
    BY <1>11 DEF Store, Live, Heaps
  <2>3. heap' \in [Live -> HeapRec]
    <3>1. heap' = [heap EXCEPT ![frame[c].fdst.base].data = out]
      BY <1>11 DEF Store
    <3>2. frame[c].fdst.base \in Live
      BY <1>11 DEF Store
    <3> HIDE DEF out
    <3>3. [heap[frame[c].fdst.base] EXCEPT !.data = out] \in HeapRec
      BY <2>1, <3>2, SMT DEF TypeOK, HeapRec
    <3> QED
      BY <3>1, <3>2, <3>3, Zenon DEF TypeOK, HeapRec
  <2>4. filt' \in SUBSET Block
    BY <1>11, <2>1 DEF Store
  <2> QED
    BY <1>11, <1>0, <2>2, <2>3, <2>4, ReturnType DEF Store, TypeOK, Op, HeapRec
<1>12. ASSUME NEW c \in Client, Call(c) PROVE TypeOK'
  <2>1. PICK op \in Op, size \in Size \cup {0} : Invoke(c, op, size)
    BY <1>12 DEF Call
  <2>2. pc' \in [Thread -> Label]
    BY <2>1, <1>0 DEF Invoke, TypeOK, Goto, Op, Label
  <2>3. frame' \in [Thread -> Frame]
    <3>1. size \in Nat /\ frame[c] \in Frame
      BY <1>0 DEF TypeOK
    <3>2. frame' = [frame EXCEPT ![c] = [frame[c] EXCEPT !.size = size]]
      BY <2>1 DEF Invoke
    <3> QED
      BY <3>1, <3>2, <1>0, FrameSize, FrameSet DEF TypeOK
  <2>4. reply' \in [Thread -> Reply]
    BY <2>1, <1>0, SMT DEF Invoke, TypeOK, NoReply, Reply
  <2>5. UNCHANGED <<service, heap, asked, hSrc, hDst>> /\ Live' = Live
    BY <2>1 DEF Invoke, service, Live, Heaps
  <2> QED
    BY <2>2, <2>3, <2>4, <2>5 DEF TypeOK, service
<1>13. ASSUME NEW c \in Client, Write(c) PROVE TypeOK'
  <2>1. PICK b \in Block : Fill(c, b)
    BY <1>13 DEF Write
  <2>2. UNCHANGED <<service, pc, frame, asked, hSrc, hDst>> /\ Live' = Live
    BY <2>1 DEF Fill, service, Live, Heaps
  <2>3. heap' \in [Live -> HeapRec]
    <3>1. hSrc[c] \in Live
      BY <2>1 DEF Fill, Live, Heaps
    <3>2. [heap[hSrc[c]] EXCEPT !.data = {b}] \in HeapRec
      BY <3>1, SMT DEF TypeOK, HeapRec
    <3> QED
      BY <2>1, <3>1, <3>2, Zenon DEF Fill, TypeOK, HeapRec
  <2>4. reply' \in [Thread -> Reply]
    BY <2>1, <1>0, SMT DEF Fill, TypeOK, NoReply, Reply
  <2> QED
    BY <2>2, <2>3, <2>4 DEF TypeOK, service, HeapRec
<1>14. ASSUME NEW c \in Client, Exit(c) PROVE TypeOK'
  <2>1. Live' = Heaps(mSrc, mDst, hSrc', hDst') /\ Live' \subseteq Live
    BY <1>14 DEF Exit, service, Live, Heaps, TypeOK
  <2>2. heap' \in [Live' -> HeapRec]
    BY <1>14, <2>1, Released DEF Exit, TypeOK, HeapRec
  <2>3. reply' \in [Thread -> Reply]
    BY <1>14, <1>0, SMT DEF Exit, TypeOK, NoReply, Reply
  <2> QED
    BY <1>14, <1>0, <2>2, <2>3 DEF Exit, TypeOK, service, HeapRec
<1>15. CASE UNCHANGED vars
  <2>1. Live' = Live
    BY <1>15 DEF vars, service, client, Live, Heaps
  <2> QED
    BY <1>15, <2>1 DEF TypeOK, vars, service, client
<1> QED
  BY <1>1, <1>2, <1>3, <1>4, <1>5, <1>6, <1>7, <1>8, <1>9, <1>10, <1>11,
     <1>12, <1>13, <1>14, <1>15
  DEF Next, Resize, Handle, Convert

\* Every variable keeps its type and exactly the referenced heaps exist, for any
\* number of clients and heaps.
THEOREM TypeCorrect == Spec => []TypeOK
BY TypeInit, TypeStep, PTL DEF Spec
-----------------------------------------------------------------------------
(***************************************************************************)
(* The safety of the buffers.  setSize() replaces them without a lock, so  *)
(* it is safe as long as no other call is in progress while one grows      *)
(* them.  That is the hypothesis []Exclusive of the general theorems; it   *)
(* is then proved for a single client, and for clients that never ask for  *)
(* more than the default size.                                             *)
(***************************************************************************)

Resizing == {"setSize", "allocSrc", "allocDst", "commit"}
Growing == {"allocSrc", "allocDst", "commit"}
Converting == {"fsrc", "fdst", "filter", "store"}

\* The number of bytes of every size in use fits in a word.
NoWrap ==
  \A size \in Size \cup {SAMPLE_NUMBER} : size * CHANNELS * SampleBytes < WordMod

\* No other call is in progress while a thread replaces the buffers.
Exclusive ==
  \A t, u \in Thread : pc[t] \in Growing /\ u # t => pc[u] = "idle"

Holds(h, size) == h # NULL /\ heap[h].bytes >= size * CHANNELS * SampleBytes

\* What the local variables of a handler's thread say about the members.
InStep(t) ==
  /\ pc[t] \in Resizing => frame[t].size \in Size \cup {SAMPLE_NUMBER}
  /\ pc[t] \in Growing => frame[t].size > mSize
  /\ pc[t] \in {"allocDst", "commit"} => Holds(mSrc, frame[t].size)
  /\ pc[t] = "commit" => Holds(mDst, frame[t].size)
  /\ pc[t] = "takeSrc" => frame[t].raw = mSrc
  /\ pc[t] = "takeDst" => frame[t].raw = mDst
  /\ pc[t] \in Converting => mSrc # NULL /\ mDst # NULL
  /\ pc[t] \in {"fdst", "filter", "store"} =>
       frame[t].fsrc = [base |-> mSrc, stride |-> mSize]
  /\ pc[t] \in {"filter", "store"} =>
       frame[t].fdst = [base |-> mDst, stride |-> mSize]
  /\ pc[t] = "store" => frame[t].n = mSize

Granted == \A t \in Thread : asked[t] <= mSize

Core ==
  /\ \A t \in Thread : InStep(t)
  /\ BuffersFit
  /\ Granted
  /\ HandleFits

\* As long as a heap exists its number of bytes does not change.
LEMMA BytesKept ==
  ASSUME TypeOK, [Next]_vars
  PROVE  \A h \in Live : h \in Live' => heap'[h].bytes = heap[h].bytes
<1> SUFFICES ASSUME NEW h \in Live, h \in Live'
             PROVE  heap'[h].bytes = heap[h].bytes
  OBVIOUS
<1>0. DOMAIN heap = Live /\ \A g \in Live : heap[g] \in HeapRec
  BY DEF TypeOK, HeapRec
<1>1. CASE UNCHANGED heap
  BY <1>1
<1>2. CASE \E S : heap' = Restrict(heap, S) /\ h \in S
  BY <1>2 DEF Restrict
<1>3. ASSUME NEW t \in Thread, AllocSrc(t) PROVE heap'[h].bytes = heap[h].bytes
  <2>1. CASE heap' = Restrict(heap, Heaps(NULL, mDst, hSrc, hDst)) /\ mSrc' = NULL
    BY <1>2, <1>3, <2>1 DEF AllocSrc, Live
  <2>2. ASSUME NEW g, Unused(g), mSrc' = g,
               heap' = Allocated(g, Bytes(frame[t].size), g, mDst)
        PROVE  heap'[h].bytes = heap[h].bytes
    <3>1. h # g
      BY <1>0, <2>2 DEF Unused
    <3>2. h \in Heaps(g, mDst, hSrc, hDst)
      BY <1>3, <2>2 DEF AllocSrc, Live
    <3> QED
      BY <2>2, <3>1, <3>2 DEF Allocated
  <2> QED
    BY <1>3, <2>1, <2>2 DEF AllocSrc
<1>4. ASSUME NEW t \in Thread, AllocDst(t) PROVE heap'[h].bytes = heap[h].bytes
  <2>1. CASE heap' = Restrict(heap, Heaps(NULL, NULL, hSrc, hDst)) /\ mSrc' = NULL /\ mDst' = NULL
    BY <1>2, <1>4, <2>1 DEF AllocDst, Live
  <2>2. ASSUME NEW g, Unused(g), mDst' = g, mSrc' = mSrc,
               heap' = Allocated(g, Bytes(frame[t].size), mSrc, g)
        PROVE  heap'[h].bytes = heap[h].bytes
    <3>1. h # g
      BY <1>0, <2>2 DEF Unused
    <3>2. h \in Heaps(mSrc, g, hSrc, hDst)
      BY <1>4, <2>2 DEF AllocDst, Live
    <3> QED
      BY <2>2, <3>1, <3>2 DEF Allocated
  <2> QED
    BY <1>4, <2>1, <2>2 DEF AllocDst
<1>5. ASSUME NEW t \in Thread, SetSize(t) PROVE heap'[h].bytes = heap[h].bytes
  <2>1. Ignored(0)
    BY SMT DEF TypeOK, Ignored
  <2> QED
    BY <1>1, <1>5, <2>1 DEF SetSize, FreeOld
<1>6. ASSUME NEW c \in Client, TakeSrc(c) \/ TakeDst(c) PROVE heap'[h].bytes = heap[h].bytes
  BY <1>2, <1>6 DEF TakeSrc, TakeDst, Live, service
<1>7. ASSUME NEW c \in Client, Exit(c) PROVE heap'[h].bytes = heap[h].bytes
  BY <1>2, <1>7 DEF Exit, Live, service
<1>8. ASSUME NEW g \in Live, NEW d, heap' = [heap EXCEPT ![g].data = d]
      PROVE  heap'[h].bytes = heap[h].bytes
  BY <1>0, <1>8 DEF HeapRec
<1>9. ASSUME NEW c \in Client, Store(c) PROVE heap'[h].bytes = heap[h].bytes
  BY <1>8, <1>9 DEF Store
<1>10. ASSUME NEW c \in Client, Write(c) PROVE heap'[h].bytes = heap[h].bytes
  <2>1. hSrc[c] \in Live
    BY <1>10 DEF Write, Fill, Live, Heaps
  <2> QED
    BY <1>8, <1>10, <2>1 DEF Write, Fill
<1>11. ASSUME NEW t \in Thread, Commit(t) PROVE heap'[h].bytes = heap[h].bytes
  BY <1>1, <1>11 DEF Commit
<1>12. ASSUME NEW c \in Client,
              \/ GetSrc(c) \/ GetDst(c) \/ Reset(c) \/ Process(c)
              \/ FSrc(c) \/ FDst(c) \/ Filter(c) \/ Call(c)
       PROVE  heap'[h].bytes = heap[h].bytes
  BY <1>1, <1>12 DEF GetSrc, GetDst, Reset, Process, FSrc, FDst, Filter, Call, Invoke
<1>13. CASE UNCHANGED vars
  BY <1>1, <1>13 DEF vars
<1> QED
  BY <1>3, <1>4, <1>5, <1>6, <1>7, <1>9, <1>10, <1>11, <1>12, <1>13
  DEF Next, Resize, Handle, Convert

\* A heap that a member refers to before and after a step still holds what it did.
LEMMA HoldsKept ==
  ASSUME TypeOK, [Next]_vars, NEW h, NEW size,
         h \in {mSrc, mDst, mSrc', mDst'}, h \in Live \cup {NULL}, h \in Live' \cup {NULL},
         Holds(h, size)
  PROVE  h # NULL /\ heap'[h].bytes >= size * CHANNELS * SampleBytes
BY BytesKept DEF Holds

\* A step of one thread leaves what it does not touch of the others, unless it
\* changes the members, and then the others are idle.
LEMMA OtherInStep ==
  ASSUME TypeOK, [Next]_vars, NEW u \in Thread, InStep(u),
         pc'[u] = pc[u], frame'[u] = frame[u],
         pc[u] = "idle" \/ UNCHANGED <<mSize, mSrc, mDst>>
  PROVE  InStep(u)'
<1>1. CASE pc[u] = "idle"
  BY <1>1 DEF InStep, Resizing, Growing, Converting
<1>2. CASE UNCHANGED <<mSize, mSrc, mDst>>
  <2>1. /\ mSrc \in Live \cup {NULL} /\ mSrc \in Live' \cup {NULL}
        /\ mDst \in Live \cup {NULL} /\ mDst \in Live' \cup {NULL}
    BY <1>2 DEF Live, Heaps
  <2>2. \A size : /\ Holds(mSrc, size) => Holds(mSrc, size)'
                  /\ Holds(mDst, size) => Holds(mDst, size)'
    BY <1>2, <2>1, BytesKept DEF Holds
  <2> QED
    BY <1>2, <2>2, Zenon DEF InStep
<1> QED
  BY <1>1, <1>2

\* The buffers still fit when the members do not change.
LEMMA BuffersKept ==
  ASSUME TypeOK, [Next]_vars, BuffersFit, UNCHANGED <<mSize, mSrc, mDst>>
  PROVE  BuffersFit'
<1>1. \A h \in {mSrc, mDst} \ {NULL} : h \in Live /\ h \in Live'
  BY DEF Live, Heaps
<1> QED
  BY <1>1, BytesKept DEF BuffersFit

\* Sizes whose bytes fit in a word are computed exactly.
LEMMA BytesExact ==
  ASSUME NoWrap, NEW size \in Size \cup {SAMPLE_NUMBER}
  PROVE  /\ size \in Nat
         /\ Bytes(size) = size * CHANNELS * SampleBytes
BY ConstantsAssumption, SMT DEF NoWrap, Bytes, CHANNELS, SampleBytes

\* The variables of the threads other than the one that takes a step.
OthersStay(t) == \A u \in Thread : u # t => pc'[u] = pc[u] /\ frame'[u] = frame[u]

LEMMA ReturnStays ==
  ASSUME TypeOK, NEW t \in Thread, NEW op, NEW ret, Return(t, op, ret)
  PROVE  OthersStay(t) /\ pc'[t] = "idle" /\ InStep(t)'
BY DEF TypeOK, Return, Goto, OthersStay, InStep, Resizing, Growing, Converting

LEMMA GotoStays ==
  ASSUME TypeOK, NEW t \in Thread, NEW l, Goto(t, l), UNCHANGED frame
  PROVE  OthersStay(t) /\ pc'[t] = l /\ frame'[t] = frame[t]
BY DEF TypeOK, Goto, OthersStay

LEMMA FrameStays ==
  ASSUME TypeOK, NEW t \in Thread, NEW l, NEW fr, Goto(t, l),
         frame' = [frame EXCEPT ![t] = fr]
  PROVE  OthersStay(t) /\ pc'[t] = l /\ frame'[t] = fr
BY DEF TypeOK, Goto, OthersStay

\* A step keeps every thread in step with the members, and keeps the buffers
\* large enough, when it does so for the thread that takes it.
LEMMA StepKeeps ==
  ASSUME TypeOK, [Next]_vars, \A u \in Thread : InStep(u), BuffersFit,
         UNCHANGED <<mSize, mSrc, mDst>>,
         NEW t \in Thread, OthersStay(t), InStep(t)'
  PROVE  (\A u \in Thread : InStep(u))' /\ BuffersFit'
BY OtherInStep, BuffersKept, Zenon DEF OthersStay

\* setSize() allocates and commits while the other threads are idle.
LEMMA AllocSrcStep ==
  ASSUME NoWrap, TypeOK, TypeOK', [Next]_vars, \A u \in Thread : InStep(u), BuffersFit,
         Exclusive, NEW t \in Thread, AllocSrc(t)
  PROVE  (\A u \in Thread : InStep(u))' /\ BuffersFit'
<1>0. /\ pc[t] = "allocSrc" /\ frame[t].size \in Size \cup {SAMPLE_NUMBER}
      /\ frame[t].size > mSize
      /\ \A u \in Thread : u # t => pc[u] = "idle"
  BY DEF AllocSrc, InStep, Resizing, Growing, Exclusive
<1>1. UNCHANGED <<mSize, mDst, hSrc, hDst>>
  BY DEF AllocSrc
<1>2. mDst \in Live \cup {NULL} /\ mDst \in Live' \cup {NULL}
  BY <1>1 DEF Live, Heaps
<1>3. mDst # NULL => heap'[mDst].bytes >= mSize * CHANNELS * SampleBytes
  BY <1>2, BytesKept DEF BuffersFit
<1>4. /\ frame[t].size \in Nat
      /\ Bytes(frame[t].size) = frame[t].size * CHANNELS * SampleBytes
  BY <1>0, BytesExact
<1>5. ASSUME NEW h \in Heap, mSrc' = h,
             heap' = Allocated(h, Bytes(frame[t].size), h, mDst),
             Goto(t, "allocDst"), UNCHANGED frame
      PROVE  (\A u \in Thread : InStep(u))' /\ BuffersFit'
  <2>1. OthersStay(t) /\ pc'[t] = "allocDst" /\ frame'[t] = frame[t]
    BY <1>5, GotoStays
  <2>2. h # NULL /\ heap'[h].bytes = frame[t].size * CHANNELS * SampleBytes
    BY <1>4, <1>5, ConstantsAssumption DEF Allocated, Heaps
  <2>3. heap'[h].bytes >= mSize * CHANNELS * SampleBytes
    BY <1>0, <1>4, <2>2, SMT DEF TypeOK, CHANNELS, SampleBytes
  <2>4. BuffersFit'
    BY <1>1, <1>3, <1>5, <2>3 DEF BuffersFit
  <2>5. heap'[h].bytes >= frame[t].size * CHANNELS * SampleBytes
    BY <1>4, <2>2, SMT DEF CHANNELS, SampleBytes
  <2>6. Holds(mSrc, frame[t].size)'
    BY <1>5, <2>1, <2>2, <2>5 DEF Holds
  <2>7. InStep(t)'
    BY <1>0, <1>1, <2>1, <2>6 DEF InStep, Resizing, Growing, Converting
  <2> QED
    BY <1>0, <2>1, <2>4, <2>7, OtherInStep, Zenon DEF OthersStay
<1>6. ASSUME mSrc' = NULL, Return(t, "setSize", -1)
      PROVE  (\A u \in Thread : InStep(u))' /\ BuffersFit'
  <2>1. OthersStay(t) /\ InStep(t)'
    BY <1>6, ReturnStays
  <2>2. BuffersFit'
    BY <1>1, <1>3, <1>6 DEF BuffersFit
  <2> QED
    BY <1>0, <2>1, <2>2, OtherInStep, Zenon DEF OthersStay
<1> QED
  BY <1>5, <1>6 DEF AllocSrc

LEMMA AllocDstStep ==
  ASSUME NoWrap, TypeOK, TypeOK', [Next]_vars, \A u \in Thread : InStep(u), BuffersFit,
         Exclusive, NEW t \in Thread, AllocDst(t)
  PROVE  (\A u \in Thread : InStep(u))' /\ BuffersFit'
<1>0. /\ pc[t] = "allocDst" /\ frame[t].size \in Size \cup {SAMPLE_NUMBER}
      /\ frame[t].size > mSize
      /\ Holds(mSrc, frame[t].size)
      /\ \A u \in Thread : u # t => pc[u] = "idle"
  BY DEF AllocDst, InStep, Resizing, Growing, Exclusive
<1>1. UNCHANGED <<mSize, hSrc, hDst>>
  BY DEF AllocDst
<1>4. /\ frame[t].size \in Nat
      /\ Bytes(frame[t].size) = frame[t].size * CHANNELS * SampleBytes
  BY <1>0, BytesExact
<1>5. ASSUME NEW h \in Heap, mDst' = h, UNCHANGED mSrc,
             heap' = Allocated(h, Bytes(frame[t].size), mSrc, h),
             Goto(t, "commit"), UNCHANGED frame
      PROVE  (\A u \in Thread : InStep(u))' /\ BuffersFit'
  <2>1. OthersStay(t) /\ pc'[t] = "commit" /\ frame'[t] = frame[t]
    BY <1>5, GotoStays
  <2>2. h # NULL /\ heap'[h].bytes = frame[t].size * CHANNELS * SampleBytes
    BY <1>4, <1>5, ConstantsAssumption DEF Allocated, Heaps
  <2>3. heap'[h].bytes >= mSize * CHANNELS * SampleBytes
    BY <1>0, <1>4, <2>2, SMT DEF TypeOK, CHANNELS, SampleBytes
  <2>4. mSrc # NULL /\ mSrc \in Live /\ mSrc \in Live'
    BY <1>0, <1>5 DEF Live, Heaps, Holds
  <2>5. heap'[mSrc].bytes = heap[mSrc].bytes
    BY <2>4, BytesKept
  <2>6. BuffersFit'
    BY <1>1, <1>5, <2>3, <2>4, <2>5 DEF BuffersFit
  <2>7. heap'[h].bytes >= frame[t].size * CHANNELS * SampleBytes
    BY <1>4, <2>2, SMT DEF CHANNELS, SampleBytes
  <2>8. Holds(mSrc, frame[t].size)' /\ Holds(mDst, frame[t].size)'
    BY <1>0, <1>5, <2>1, <2>2, <2>4, <2>5, <2>7 DEF Holds
  <2>9. InStep(t)'
    BY <1>0, <1>1, <2>1, <2>8 DEF InStep, Resizing, Growing, Converting
  <2> QED
    BY <1>0, <2>1, <2>6, <2>9, OtherInStep, Zenon DEF OthersStay
<1>6. ASSUME mDst' = NULL, mSrc' = NULL, Return(t, "setSize", -1)
      PROVE  (\A u \in Thread : InStep(u))' /\ BuffersFit'
  <2>1. OthersStay(t) /\ InStep(t)'
    BY <1>6, ReturnStays
  <2>2. BuffersFit'
    BY <1>6 DEF BuffersFit
  <2> QED
    BY <1>0, <2>1, <2>2, OtherInStep, Zenon DEF OthersStay
<1> QED
  BY <1>5, <1>6 DEF AllocDst

LEMMA CommitStep ==
  ASSUME TypeOK, [Next]_vars, \A u \in Thread : InStep(u),
         Exclusive, NEW t \in Thread, Commit(t)
  PROVE  (\A u \in Thread : InStep(u))' /\ BuffersFit'
<1>0. /\ pc[t] = "commit"
      /\ Holds(mSrc, frame[t].size) /\ Holds(mDst, frame[t].size)
      /\ \A u \in Thread : u # t => pc[u] = "idle"
  BY DEF Commit, InStep, Growing, Exclusive
<1>1. OthersStay(t) /\ InStep(t)'
  BY ReturnStays DEF Commit
<1>2. BuffersFit'
  BY <1>0 DEF Commit, BuffersFit, Holds
<1> QED
  BY <1>0, <1>1, <1>2, OtherInStep, Zenon DEF OthersStay

\* Every step keeps the threads in step with the members and the buffers large
\* enough, as long as no other call overlaps the replacement of the buffers.
LEMMA BuffersStep ==
  ASSUME NoWrap, TypeOK, TypeOK', [Next]_vars, \A u \in Thread : InStep(u), BuffersFit,
         Exclusive
  PROVE  (\A u \in Thread : InStep(u))' /\ BuffersFit'
<1>0. \A c \in Client : c \in Thread
  BY DEF Thread
<1>1. ASSUME NEW t \in Thread, SetSize(t)
      PROVE  (\A u \in Thread : InStep(u))' /\ BuffersFit'
  <2>1. Ignored(0)
    BY SMT DEF TypeOK, Ignored
  <2>2. UNCHANGED <<mSize, mSrc, mDst>>
    BY <1>1, <2>1 DEF SetSize, FreeOld
  <2>3. CASE Return(t, "setSize", 0)
    BY <2>2, <2>3, ReturnStays, StepKeeps
  <2>4. CASE ~Ignored(frame[t].size) /\ Goto(t, "allocSrc") /\ UNCHANGED frame
    <3>1. OthersStay(t) /\ pc'[t] = "allocSrc" /\ frame'[t] = frame[t]
      BY <2>4, GotoStays
    <3>2. frame[t].size > mSize
      BY <2>4, SMT DEF Ignored, TypeOK, Frame
    <3>3. InStep(t)'
      BY <1>1, <2>2, <3>1, <3>2 DEF SetSize, InStep, Resizing, Growing, Converting
    <3> QED
      BY <2>2, <3>1, <3>3, StepKeeps
  <2> QED
    BY <1>1, <2>3, <2>4 DEF SetSize
<1>2. ASSUME NEW t \in Thread, AllocSrc(t) \/ AllocDst(t) \/ Commit(t)
      PROVE  (\A u \in Thread : InStep(u))' /\ BuffersFit'
  BY <1>2, AllocSrcStep, AllocDstStep, CommitStep
<1>3. ASSUME NEW c \in Client, NEW op, NEW ret, Return(c, op, ret),
             UNCHANGED <<mSize, mSrc, mDst>>
      PROVE  (\A u \in Thread : InStep(u))' /\ BuffersFit'
  BY <1>0, <1>3, ReturnStays, StepKeeps
<1>4. ASSUME NEW c \in Client, TakeSrc(c) \/ TakeDst(c) \/ Reset(c) \/ Store(c)
      PROVE  (\A u \in Thread : InStep(u))' /\ BuffersFit'
  BY <1>3, <1>4 DEF TakeSrc, TakeDst, Reset, Store, service
<1>5. ASSUME NEW c \in Client, GetSrc(c) \/ GetDst(c)
      PROVE  (\A u \in Thread : InStep(u))' /\ BuffersFit'
  <2>1. UNCHANGED <<mSize, mSrc, mDst>>
    BY <1>5 DEF GetSrc, GetDst, service
  <2>2. \/ /\ Goto(c, "takeSrc")
           /\ frame' = [frame EXCEPT ![c] = [frame[c] EXCEPT !.raw = mSrc]]
        \/ /\ Goto(c, "takeDst")
           /\ frame' = [frame EXCEPT ![c] = [frame[c] EXCEPT !.raw = mDst]]
    BY <1>5 DEF GetSrc, GetDst
  <2>3. /\ OthersStay(c)
        /\ \/ pc'[c] = "takeSrc" /\ frame'[c] = [frame[c] EXCEPT !.raw = mSrc]
           \/ pc'[c] = "takeDst" /\ frame'[c] = [frame[c] EXCEPT !.raw = mDst]
    BY <1>0, <2>2, FrameStays
  <2>4. frame[c] \in Frame
    BY <1>0 DEF TypeOK
  <2>5. \/ pc'[c] = "takeSrc" /\ frame'[c].raw = mSrc
        \/ pc'[c] = "takeDst" /\ frame'[c].raw = mDst
    BY <2>3, <2>4 DEF Frame
  <2>6. InStep(c)'
    BY <2>1, <2>5 DEF InStep, Resizing, Growing, Converting
  <2> QED
    BY <1>0, <2>1, <2>3, <2>6, StepKeeps
<1>6. ASSUME NEW c \in Client, Process(c)
      PROVE  (\A u \in Thread : InStep(u))' /\ BuffersFit'
  <2>1. UNCHANGED <<mSize, mSrc, mDst>>
    BY <1>6 DEF Process, service
  <2>2. CASE Return(c, "process", -1)
    BY <1>3, <2>1, <2>2
  <2>3. CASE /\ ~NoBuffers
             /\ Goto(c, "fsrc") /\ UNCHANGED frame
    <3>1. OthersStay(c) /\ pc'[c] = "fsrc" /\ frame'[c] = frame[c]
      BY <1>0, <2>3, GotoStays
    <3>2. InStep(c)'
      BY <2>1, <2>3, <3>1 DEF NoBuffers, InStep, Resizing, Growing, Converting
    <3> QED
      BY <1>0, <2>1, <3>1, <3>2, StepKeeps
  <2> QED
    BY <1>6, <2>2, <2>3 DEF Process
<1>7. ASSUME NEW c \in Client, FSrc(c)
      PROVE  (\A u \in Thread : InStep(u))' /\ BuffersFit'
  <2> DEFINE fr == [frame[c] EXCEPT !.fsrc = [base |-> mSrc, stride |-> mSize]]
  <2>1. UNCHANGED <<mSize, mSrc, mDst>> /\ pc[c] = "fsrc" /\ c \in Thread
    BY <1>0, <1>7 DEF FSrc, service
  <2>2. Goto(c, "fdst") /\ frame' = [frame EXCEPT ![c] = fr]
    BY <1>7 DEF FSrc
  <2>3. OthersStay(c) /\ pc'[c] = "fdst" /\ frame'[c] = fr
    <3> HIDE DEF fr
    <3> QED
      BY <2>1, <2>2, FrameStays
  <2>4. frame[c] \in Frame
    BY <2>1 DEF TypeOK
  <2>5. frame'[c].fsrc = [base |-> mSrc, stride |-> mSize]
    BY <2>3, <2>4 DEF Frame
  <2>6. InStep(c)'
    BY <2>1, <2>3, <2>5 DEF InStep, Resizing, Growing, Converting
  <2> QED
    BY <2>1, <2>3, <2>6, StepKeeps
<1>8. ASSUME NEW c \in Client, FDst(c)
      PROVE  (\A u \in Thread : InStep(u))' /\ BuffersFit'
  <2> DEFINE fr == [frame[c] EXCEPT !.fdst = [base |-> mDst, stride |-> mSize]]
  <2>1. UNCHANGED <<mSize, mSrc, mDst>> /\ pc[c] = "fdst" /\ c \in Thread
    BY <1>0, <1>8 DEF FDst, service
  <2>2. Goto(c, "filter") /\ frame' = [frame EXCEPT ![c] = fr]
    BY <1>8 DEF FDst
  <2>3. OthersStay(c) /\ pc'[c] = "filter" /\ frame'[c] = fr
    <3> HIDE DEF fr
    <3> QED
      BY <2>1, <2>2, FrameStays
  <2>4. frame[c] \in Frame
    BY <2>1 DEF TypeOK
  <2>5. /\ frame'[c].fdst = [base |-> mDst, stride |-> mSize]
        /\ frame'[c].fsrc = frame[c].fsrc
    BY <2>3, <2>4 DEF Frame
  <2>6. InStep(c)'
    BY <2>1, <2>3, <2>5 DEF InStep, Resizing, Growing, Converting
  <2> QED
    BY <2>1, <2>3, <2>6, StepKeeps
<1>9. ASSUME NEW c \in Client, Filter(c)
      PROVE  (\A u \in Thread : InStep(u))' /\ BuffersFit'
  <2> DEFINE fr == [frame[c] EXCEPT !.n = mSize, !.z = filt]
  <2>1. UNCHANGED <<mSize, mSrc, mDst>> /\ pc[c] = "filter" /\ c \in Thread
    BY <1>0, <1>9 DEF Filter, service
  <2>2. Goto(c, "store") /\ frame' = [frame EXCEPT ![c] = fr]
    BY <1>9, <2>1 DEF Filter, TypeOK
  <2>3. OthersStay(c) /\ pc'[c] = "store" /\ frame'[c] = fr
    <3> HIDE DEF fr
    <3> QED
      BY <2>1, <2>2, FrameStays
  <2>4. frame[c] \in Frame
    BY <2>1 DEF TypeOK
  <2>5. /\ frame'[c].n = mSize
        /\ frame'[c].fdst = frame[c].fdst
        /\ frame'[c].fsrc = frame[c].fsrc
    BY <2>3, <2>4 DEF Frame
  <2>6. InStep(c)'
    BY <2>1, <2>3, <2>5 DEF InStep, Resizing, Growing, Converting
  <2> QED
    BY <2>1, <2>3, <2>6, StepKeeps
<1>10. ASSUME NEW c \in Client, Call(c)
       PROVE  (\A u \in Thread : InStep(u))' /\ BuffersFit'
  <2>1. PICK op \in Op : \E size \in IF op = "setSize" THEN Size ELSE {0} : Invoke(c, op, size)
    BY <1>10 DEF Call
  <2>2. PICK size \in IF op = "setSize" THEN Size ELSE {0} : Invoke(c, op, size)
    BY <2>1
  <2>3. UNCHANGED <<mSize, mSrc, mDst>> /\ c \in Thread
    BY <1>0, <2>2 DEF Invoke, service
  <2>4. frame' = [frame EXCEPT ![c] = [frame[c] EXCEPT !.size = size]]
    BY <2>2 DEF Invoke
  <2>5. OthersStay(c) /\ pc'[c] = op /\ frame'[c] = [frame[c] EXCEPT !.size = size]
    BY <2>2, <2>3, <2>4, FrameStays DEF Invoke
  <2>6. frame'[c].size = size
    BY <2>3, <2>5 DEF TypeOK, Frame
  <2>7. InStep(c)'
    BY <2>2, <2>5, <2>6 DEF InStep, Resizing, Growing, Converting, Op
  <2> QED
    BY <2>3, <2>5, <2>7, StepKeeps
<1>11. ASSUME UNCHANGED <<mSize, mSrc, mDst, pc, frame>>
       PROVE  (\A u \in Thread : InStep(u))' /\ BuffersFit'
  BY <1>11, OtherInStep, BuffersKept
<1>12. ASSUME NEW c \in Client, Write(c) \/ Exit(c)
       PROVE  (\A u \in Thread : InStep(u))' /\ BuffersFit'
  BY <1>11, <1>12 DEF Write, Fill, Exit, service
<1>13. CASE UNCHANGED vars
  BY <1>11, <1>13 DEF vars, service
<1> QED
  BY <1>1, <1>2, <1>4, <1>5, <1>6, <1>7, <1>8, <1>9, <1>10, <1>12, <1>13
  DEF Next, Resize, Handle, Convert

\* No step makes mSize smaller, and none grants a client more than mSize.
LEMMA GrantedStep ==
  ASSUME TypeOK, [Next]_vars, \A u \in Thread : InStep(u), Granted
  PROVE  Granted' /\ mSize' >= mSize
<1>0. \A c \in Client : c \in Thread
  BY DEF Thread
<1>1. ASSUME NEW t \in Thread, NEW k \in Nat, asked' = [asked EXCEPT ![t] = k],
             k <= mSize, mSize' = mSize
      PROVE  Granted' /\ mSize' >= mSize
  BY <1>1, SMT DEF Granted, TypeOK
<1>2. CASE UNCHANGED <<asked, mSize>>
  BY <1>2, SMT DEF Granted, TypeOK
<1>3. ASSUME NEW t \in Thread, SetSize(t) PROVE Granted' /\ mSize' >= mSize
  <2>1. Ignored(0)
    BY SMT DEF TypeOK, Ignored
  <2>2. mSize' = mSize
    BY <1>3, <2>1 DEF SetSize, FreeOld
  <2>3. frame[t].size \in Nat
    BY DEF TypeOK, Frame
  <2> QED
    BY <1>1, <1>2, <1>3, <2>2, <2>3 DEF SetSize, Ignored
<1>4. ASSUME NEW t \in Thread, AllocSrc(t) \/ AllocDst(t) PROVE Granted' /\ mSize' >= mSize
  <2>1. mSize' = mSize /\ mSize \in Nat /\ 0 <= mSize
    BY <1>4, SMT DEF AllocSrc, AllocDst, TypeOK
  <2>2. UNCHANGED asked \/ asked' = [asked EXCEPT ![t] = 0]
    BY <1>4 DEF AllocSrc, AllocDst
  <2> QED
    BY <1>1, <1>2, <2>1, <2>2
<1>5. ASSUME NEW t \in Thread, Commit(t) PROVE Granted' /\ mSize' >= mSize
  <2>1. frame[t].size > mSize /\ frame[t].size \in Nat
    BY <1>5 DEF Commit, InStep, Growing, TypeOK, Frame
  <2> QED
    BY <1>5, <2>1, SMT DEF Commit, Granted, TypeOK
<1>6. ASSUME NEW c \in Client, Exit(c) PROVE Granted' /\ mSize' >= mSize
  <2>1. mSize \in Nat /\ 0 <= mSize
    BY SMT DEF TypeOK
  <2> QED
    BY <1>0, <1>1, <1>6, <2>1 DEF Exit, service
<1>7. ASSUME NEW c \in Client,
             \/ Handle(c) \/ Reset(c) \/ Convert(c) \/ Call(c) \/ Write(c)
      PROVE  Granted' /\ mSize' >= mSize
  BY <1>2, <1>7 DEF Handle, Convert, GetSrc, GetDst, TakeSrc, TakeDst, Reset, Process,
     FSrc, FDst, Filter, Store, Call, Invoke, Write, Fill, service, client
<1>8. CASE UNCHANGED vars
  BY <1>2, <1>8 DEF vars, service, client
<1> QED
  BY <1>3, <1>4, <1>5, <1>6, <1>7, <1>8 DEF Next, Resize

\* A handle, once granted, keeps fitting, and the handles are taken from buffers
\* that fit.
LEMMA HandleFitsStep ==
  ASSUME TypeOK, TypeOK', [Next]_vars, \A u \in Thread : InStep(u), BuffersFit, Granted,
         HandleFits
  PROVE  HandleFits'
<1>0. \A c \in Client : c \in Thread
  BY DEF Thread
<1> DEFINE Fit(h, k) == h \in Live /\ heap[h].bytes >= k * CHANNELS * SampleBytes
           FitAfter(h, k) == h \in Live' /\ heap'[h].bytes >= k * CHANNELS * SampleBytes
<1>1. SUFFICES ASSUME NEW c \in Client, reply'[c].status = "NO_ERROR"
               PROVE  /\ reply'[c].op = "getSrc" => FitAfter(hSrc'[c], asked'[c])
                      /\ reply'[c].op = "getDst" => FitAfter(hDst'[c], asked'[c])
  BY DEF HandleFits
<1>2. CASE reply'[c] = reply[c] /\ asked'[c] = asked[c] /\ hSrc'[c] = hSrc[c] /\ hDst'[c] = hDst[c]
  <2>1. /\ hSrc'[c] \in Live' \cup {NULL} /\ hDst'[c] \in Live' \cup {NULL}
        /\ NULL \notin Live
    BY DEF Live, Heaps
  <2>2. /\ reply[c].op = "getSrc" => Fit(hSrc[c], asked[c])
        /\ reply[c].op = "getDst" => Fit(hDst[c], asked[c])
    BY <1>1, <1>2 DEF HandleFits
  <2> QED
    BY <1>2, <2>1, <2>2, BytesKept
<1>3. CASE reply'[c].op \notin {"getSrc", "getDst"}
  BY <1>3
<1>4. ASSUME NEW t \in Thread, NEW op, op \notin {"getSrc", "getDst"}, NEW ret,
             Return(t, op, ret), NEW k, asked' = [asked EXCEPT ![t] = k] \/ UNCHANGED asked,
             UNCHANGED <<hSrc, hDst>>
      PROVE  \/ /\ reply'[c] = reply[c] /\ asked'[c] = asked[c]
                /\ hSrc'[c] = hSrc[c] /\ hDst'[c] = hDst[c]
             \/ reply'[c].op \notin {"getSrc", "getDst"}
  BY <1>0, <1>4 DEF Return, TypeOK
<1>5. ASSUME NEW t \in Thread, SetSize(t) \/ AllocSrc(t) \/ AllocDst(t) \/ Commit(t)
      PROVE  \/ /\ reply'[c] = reply[c] /\ asked'[c] = asked[c]
                /\ hSrc'[c] = hSrc[c] /\ hDst'[c] = hDst[c]
             \/ reply'[c].op \notin {"getSrc", "getDst"}
  BY <1>4, <1>5 DEF SetSize, AllocSrc, AllocDst, Commit
<1>6. ASSUME NEW d \in Client, Reset(d) \/ Process(d) \/ Store(d)
      PROVE  \/ /\ reply'[c] = reply[c] /\ asked'[c] = asked[c]
                /\ hSrc'[c] = hSrc[c] /\ hDst'[c] = hDst[c]
             \/ reply'[c].op \notin {"getSrc", "getDst"}
  BY <1>0, <1>4, <1>6 DEF Reset, Process, Store
<1>7. ASSUME NEW d \in Client, Call(d) \/ Write(d) \/ Exit(d)
      PROVE  \/ /\ reply'[c] = reply[c] /\ asked'[c] = asked[c]
                /\ hSrc'[c] = hSrc[c] /\ hDst'[c] = hDst[c]
             \/ reply'[c].op \notin {"getSrc", "getDst"}
  BY <1>0, <1>7 DEF Call, Invoke, Write, Fill, Exit, NoReply, TypeOK
<1>8. ASSUME NEW d \in Client, GetSrc(d) \/ GetDst(d) \/ FSrc(d) \/ FDst(d) \/ Filter(d)
      PROVE  /\ reply'[c] = reply[c] /\ asked'[c] = asked[c]
             /\ hSrc'[c] = hSrc[c] /\ hDst'[c] = hDst[c]
  BY <1>8 DEF GetSrc, GetDst, FSrc, FDst, Filter, client
<1>9. ASSUME NEW h, h \in {mSrc, mDst}, h # NULL, h \in Live'
      PROVE  FitAfter(h, asked[c])
  <2>1. h \in Live
    BY <1>9 DEF Live, Heaps
  <2>2. heap'[h].bytes = heap[h].bytes /\ heap[h].bytes \in Nat
    BY <1>9, <2>1, BytesKept DEF TypeOK
  <2>3. heap[h].bytes >= mSize * CHANNELS * SampleBytes
    BY <1>9 DEF BuffersFit
  <2>4. asked[c] <= mSize /\ asked[c] \in Nat /\ mSize \in Nat
    BY <1>0 DEF Granted, TypeOK
  <2>5. heap[h].bytes >= asked[c] * CHANNELS * SampleBytes
    BY <2>2, <2>3, <2>4, SMT DEF CHANNELS, SampleBytes
  <2> QED
    BY <1>9, <2>2, <2>5
<1>10. ASSUME NEW d \in Client, TakeSrc(d)
       PROVE  /\ reply'[c].op = "getSrc" => FitAfter(hSrc'[c], asked'[c])
              /\ reply'[c].op = "getDst" => FitAfter(hDst'[c], asked'[c])
  <2>1. CASE d # c
    BY <1>0, <1>2, <1>10, <2>1 DEF TakeSrc, Return, TypeOK
  <2>2. CASE d = c
    <3>1. frame[c].raw = mSrc /\ asked'[c] = asked[c] /\ hSrc'[c] = mSrc
      BY <1>0, <1>10, <2>2 DEF TakeSrc, InStep, TypeOK
    <3>2. reply'[c].op = "getSrc" /\ (mSrc = NULL => reply'[c].status = "BAD_VALUE")
      BY <1>0, <1>10, <2>2, <3>1 DEF TakeSrc, Return, Status, TypeOK
    <3>3. mSrc # NULL /\ mSrc \in Live'
      BY <1>1, <1>10, <3>1, <3>2 DEF Live, Heaps
    <3> QED
      BY <1>9, <3>1, <3>2, <3>3
  <2> QED
    BY <2>1, <2>2
<1>11. ASSUME NEW d \in Client, TakeDst(d)
       PROVE  /\ reply'[c].op = "getSrc" => FitAfter(hSrc'[c], asked'[c])
              /\ reply'[c].op = "getDst" => FitAfter(hDst'[c], asked'[c])
  <2>1. CASE d # c
    BY <1>0, <1>2, <1>11, <2>1 DEF TakeDst, Return, TypeOK
  <2>2. CASE d = c
    <3>1. frame[c].raw = mDst /\ asked'[c] = asked[c] /\ hDst'[c] = mDst
      BY <1>0, <1>11, <2>2 DEF TakeDst, InStep, TypeOK
    <3>2. reply'[c].op = "getDst" /\ (mDst = NULL => reply'[c].status = "BAD_VALUE")
      BY <1>0, <1>11, <2>2, <3>1 DEF TakeDst, Return, Status, TypeOK
    <3>3. mDst # NULL /\ mDst \in Live'
      BY <1>1, <1>11, <3>1, <3>2 DEF Live, Heaps
    <3> QED
      BY <1>9, <3>1, <3>2, <3>3
  <2> QED
    BY <2>1, <2>2
<1>12. CASE UNCHANGED vars
  BY <1>2, <1>12 DEF vars, client
<1> HIDE DEF Fit, FitAfter
<1> QED
  BY <1>2, <1>3, <1>5, <1>6, <1>7, <1>8, <1>10, <1>11, <1>12
  DEF Next, Resize, Handle, Convert
-----------------------------------------------------------------------------
LEMMA CoreInit == ASSUME Init PROVE Core
<1>1. \A t \in Thread : InStep(t)
  BY DEF Init, InStep, NoFrame, Resizing, Growing, Converting
<1>2. BuffersFit
  BY DEF Init, BuffersFit
<1>3. Granted
  BY ConstantsAssumption, SMT DEF Init, Granted
<1>4. HandleFits
  BY DEF Init, HandleFits, NoReply, Thread
<1> QED
  BY <1>1, <1>2, <1>3, <1>4 DEF Core

LEMMA CoreStep ==
  ASSUME NoWrap, TypeOK, TypeOK', Core, Exclusive, [Next]_vars
  PROVE  Core'
<1>1. (\A u \in Thread : InStep(u))' /\ BuffersFit'
  BY BuffersStep DEF Core
<1>2. Granted'
  BY GrantedStep DEF Core
<1>3. HandleFits'
  BY HandleFitsStep DEF Core
<1> QED
  BY <1>1, <1>2, <1>3 DEF Core

\* A conversion about to store works on the current buffers with the current size.
LEMMA CoreInBounds == ASSUME TypeOK, Core PROVE ProcessInBounds /\ HandleLive
<1>1. ASSUME NEW c \in Client, pc[c] = "store"
      PROVE  Fits(frame[c].fsrc, frame[c].n) /\ Fits(frame[c].fdst, frame[c].n)
  <2>1. /\ mSrc # NULL /\ mDst # NULL
        /\ frame[c].fsrc.base = mSrc /\ frame[c].fsrc.stride = mSize
        /\ frame[c].fdst.base = mDst /\ frame[c].fdst.stride = mSize
        /\ frame[c].n = mSize
    BY <1>1 DEF Core, InStep, Converting, Thread
  <2>2. mSrc \in Live /\ mDst \in Live
    BY <2>1 DEF Live, Heaps
  <2>3. /\ heap[mSrc].bytes >= mSize * CHANNELS * SampleBytes
        /\ heap[mDst].bytes >= mSize * CHANNELS * SampleBytes
    BY <2>1 DEF Core, BuffersFit
  <2>4. (3 * mSize + mSize) * SampleBytes = mSize * CHANNELS * SampleBytes
    BY SMT DEF TypeOK, CHANNELS, SampleBytes
  <2> QED
    BY <2>1, <2>2, <2>3, <2>4 DEF Fits
<1>2. HandleLive
  BY DEF HandleLive, Core, InStep, Thread, Live, Heaps
<1> QED
  BY <1>1, <1>2 DEF ProcessInBounds

\* For any number of clients: as long as no other call is in progress while a
\* setSize() replaces the buffers, process() stays within them, getSrc() and
\* getDst() count references of existing heaps only, and a handle that a client
\* is given holds the size it asked for.
THEOREM SafeWhenExclusive ==
  ASSUME NoWrap
  PROVE  Spec /\ []Exclusive => [](ProcessInBounds /\ HandleLive /\ BuffersFit /\ HandleFits)
<1>1. Init => Core
  BY CoreInit
<1>2. TypeOK /\ TypeOK' /\ Core /\ Exclusive /\ [Next]_vars => Core'
  BY CoreStep
<1>3. TypeOK /\ Core => ProcessInBounds /\ HandleLive /\ BuffersFit /\ HandleFits
  BY CoreInBounds DEF Core
<1> QED
  BY <1>1, <1>2, <1>3, TypeCorrect, PTL DEF Spec

\* Under the same condition setSize() never makes the buffers smaller.
THEOREM NeverShrinksWhenExclusive ==
  ASSUME NoWrap
  PROVE  Spec /\ []Exclusive => SizeNeverShrinks
<1>1. Init => Core
  BY CoreInit
<1>2. TypeOK /\ TypeOK' /\ Core /\ Exclusive /\ [Next]_vars => Core'
  BY CoreStep
<1>3. TypeOK /\ Core /\ [Next]_vars => [mSize' >= mSize]_vars
  BY GrantedStep DEF Core
<1> QED
  BY <1>1, <1>2, <1>3, TypeCorrect, PTL DEF Spec, SizeNeverShrinks
-----------------------------------------------------------------------------
\* One client: its calls are synchronous, so at most one thread is not idle.

AtMostOne == \A t, u \in Thread : pc[t] # "idle" /\ pc[u] # "idle" => t = u

LEMMA AtMostOneStep ==
  ASSUME NEW cl, Client = {cl}, TypeOK, AtMostOne, [Next]_vars
  PROVE  AtMostOne'
<1>1. ASSUME NEW t \in Thread, NEW l, Goto(t, l), pc[t] # "idle" PROVE AtMostOne'
  BY <1>1 DEF Goto, AtMostOne, TypeOK
<1>2. ASSUME NEW t \in Thread, NEW op, NEW ret, pc[t] # "idle", Return(t, op, ret)
      PROVE  AtMostOne'
  BY <1>1, <1>2 DEF Return
<1>3. ASSUME NEW t \in Thread, Resize(t) PROVE AtMostOne'
  BY <1>1, <1>2, <1>3 DEF Resize, SetSize, AllocSrc, AllocDst, Commit
<1>4. ASSUME NEW c \in Client, Handle(c) \/ Reset(c) \/ Convert(c) PROVE AtMostOne'
  BY <1>1, <1>2, <1>4 DEF Thread, Handle, Convert, GetSrc, GetDst, TakeSrc, TakeDst, Reset,
     Process, FSrc, FDst, Filter, Store
<1>5. ASSUME NEW c \in Client, Call(c) PROVE AtMostOne'
  <2>1. PICK op \in Op : Goto(c, op)
    BY <1>5 DEF Call, Invoke
  <2>2. \A u \in Thread : u # c => pc[u] = "idle"
    BY <1>5 DEF Call, Invoke, Published, Thread
  <2> QED
    BY <2>1, <2>2 DEF Goto, AtMostOne, TypeOK
<1>6. ASSUME NEW c \in Client, Write(c) \/ Exit(c) PROVE AtMostOne'
  BY <1>6 DEF Write, Fill, Exit, AtMostOne
<1>7. CASE UNCHANGED vars
  BY <1>7 DEF vars, AtMostOne
<1> QED
  BY <1>3, <1>4, <1>5, <1>6, <1>7 DEF Next

\* A single client can use the service in any way, whatever mSize held before
\* the constructor and whichever allocations fail.
THEOREM OneClientSafe ==
  ASSUME NoWrap, NEW cl, Client = {cl}
  PROVE  Spec => /\ [](ProcessInBounds /\ HandleLive /\ BuffersFit /\ HandleFits)
                 /\ SizeNeverShrinks
<1>1. Init => AtMostOne
  BY DEF Init, AtMostOne
<1>2. TypeOK /\ AtMostOne /\ [Next]_vars => AtMostOne'
  BY AtMostOneStep
<1>3. AtMostOne => Exclusive
  BY DEF AtMostOne, Exclusive, Growing
<1> QED
  BY <1>1, <1>2, <1>3, TypeCorrect, SafeWhenExclusive, NeverShrinksWhenExclusive, PTL DEF Spec
-----------------------------------------------------------------------------
\* Clients that never ask for more than the default size: unless the constructor
\* was refused memory, no call of theirs gets beyond the first test of setSize().

DefaultSizes == \A size \in Size : size <= SAMPLE_NUMBER

\* Main is in the constructor's setSize() or has ended it, with the default size
\* or more.  It is more, and there are no buffers, if mSize held more before.
DefaultKept ==
  /\ \A c \in Client :
       /\ pc[c] \notin Growing
       /\ pc[c] = "setSize" => frame[c].size \in Size
       /\ pc[Main] # "idle" => pc[c] = "idle"
  /\ pc[Main] \in Resizing \cup {"idle"}
  /\ pc[Main] # "idle" => frame[Main].size = SAMPLE_NUMBER
  /\ pc[Main] \in Growing => mSize < SAMPLE_NUMBER
  /\ pc[Main] = "idle" => mSize >= SAMPLE_NUMBER

\* Main's last reply does not change except at the end of the constructor's call.
LEMMA MainReply ==
  ASSUME TypeOK, [Next]_vars
  PROVE  \/ Resize(Main)
         \/ reply'[Main] = reply[Main] /\ pc'[Main] = pc[Main]
<1>0. Main \in Thread /\ \A c \in Client : c \in Thread /\ c # Main
  BY ConstantsAssumption DEF Thread
<1>1. ASSUME NEW c \in Client, Resize(c) \/ Handle(c) \/ Reset(c) \/ Convert(c)
      PROVE  reply'[Main] = reply[Main] /\ pc'[Main] = pc[Main]
  BY <1>0, <1>1 DEF TypeOK, Resize, SetSize, AllocSrc, AllocDst, Commit, Handle, GetSrc, TakeSrc,
     GetDst, TakeDst, Reset, Convert, Process, FSrc, FDst, Filter, Store, Return, Goto, client
<1>2. ASSUME NEW c \in Client, Call(c) \/ Write(c) \/ Exit(c)
      PROVE  reply'[Main] = reply[Main] /\ pc'[Main] = pc[Main]
  BY <1>0, <1>2 DEF TypeOK, Call, Invoke, Write, Fill, Exit, Goto
<1>3. CASE UNCHANGED vars
  BY <1>3 DEF vars, client
<1> QED
  BY <1>1, <1>2, <1>3 DEF Next, Thread

\* A constructor's call that has failed stays so, and one that is under way has not.
LEMMA ConstructedBefore ==
  ASSUME TypeOK, Constructed \/ pc[Main] = "idle", [Next]_vars
  PROVE  /\ Constructed' => Constructed
         /\ (Constructed \/ pc[Main] = "idle")'
<1>1. CASE Resize(Main)
  <2>1. Constructed
    BY <1>1 DEF Resize, SetSize, AllocSrc, AllocDst, Commit
  <2>2. UNCHANGED reply \/ pc'[Main] = "idle"
    BY <1>1 DEF Resize, SetSize, AllocSrc, AllocDst, Commit, Return, Goto, TypeOK, Thread
  <2> QED
    BY <2>1, <2>2 DEF Constructed
<1> QED
  BY <1>1, MainReply DEF Constructed

LEMMA DefaultKeptInit == ASSUME Init PROVE DefaultKept /\ Constructed
<1>1. /\ pc[Main] = "setSize"
      /\ \A c \in Client : pc[c] = "idle"
  BY ConstantsAssumption DEF Init, Thread
<1>2. frame[Main].size = SAMPLE_NUMBER /\ reply[Main].ret = 0
  BY DEF Init, NoFrame, NoReply, Thread
<1> QED
  BY <1>1, <1>2 DEF DefaultKept, Constructed, Growing, Resizing

LEMMA DefaultKeptStep ==
  ASSUME DefaultSizes, TypeOK, DefaultKept, Constructed', [Next]_vars
  PROVE  DefaultKept'
<1>0. /\ Main \in Thread /\ Main \notin Client
      /\ \A c \in Client : c \in Thread /\ c # Main
      /\ \A t \in Thread : t = Main \/ t \in Client
  BY ConstantsAssumption DEF Thread
<1>1. ASSUME NEW c \in Client, NEW l, pc[Main] = "idle", OthersStay(c), pc'[c] = l,
             l \notin Growing, l # "setSize" \/ frame'[c].size \in Size, mSize' = mSize
      PROVE  DefaultKept'
  BY <1>0, <1>1 DEF DefaultKept, OthersStay
<1>2. ASSUME NEW c \in Client, NEW op, NEW ret, pc[Main] = "idle",
             Return(c, op, ret), mSize' = mSize
      PROVE  DefaultKept'
  BY <1>0, <1>1, <1>2, ReturnStays DEF Growing
<1>3. ASSUME NEW t \in Thread, SetSize(t) PROVE DefaultKept'
  <2>1. Ignored(0)
    BY SMT DEF TypeOK, Ignored
  <2>2. mSize' = mSize /\ pc[t] = "setSize"
    BY <1>3, <2>1 DEF SetSize, FreeOld
  <2>3. CASE t \in Client
    <3>1. pc[Main] = "idle" /\ frame[t].size \in Size /\ mSize >= SAMPLE_NUMBER
      BY <2>2, <2>3 DEF DefaultKept
    <3>2. Ignored(frame[t].size)
      <4>1. frame[t].size <= SAMPLE_NUMBER /\ frame[t].size \in Nat /\ mSize \in Nat
        BY <3>1, ConstantsAssumption DEF DefaultSizes, TypeOK
      <4> QED
        BY <3>1, <4>1, ConstantsAssumption, SMT DEF Ignored
    <3> QED
      BY <1>2, <1>3, <2>2, <2>3, <3>1, <3>2 DEF SetSize
  <2>4. CASE t = Main
    <3>1. /\ frame[Main].size = SAMPLE_NUMBER /\ frame[Main].size \in Nat /\ mSize \in Nat
          /\ \A c \in Client : pc[c] = "idle"
      BY <1>0, <2>2, <2>4, ConstantsAssumption DEF DefaultKept, TypeOK
    <3>2. CASE Ignored(frame[Main].size)
      <4>1. mSize >= SAMPLE_NUMBER
        BY <3>1, <3>2, SMT DEF Ignored
      <4>2. OthersStay(Main) /\ pc'[Main] = "idle"
        BY <1>0, <1>3, <2>4, <3>2, ReturnStays DEF SetSize
      <4> QED
        BY <1>0, <2>2, <3>1, <4>1, <4>2 DEF DefaultKept, OthersStay, Growing
    <3>3. CASE ~Ignored(frame[Main].size)
      <4>1. mSize < SAMPLE_NUMBER
        BY <3>1, <3>3, SMT DEF Ignored
      <4>2. OthersStay(Main) /\ pc'[Main] = "allocSrc" /\ frame'[Main] = frame[Main]
        BY <1>0, <1>3, <2>4, <3>3, GotoStays DEF SetSize
      <4> QED
        BY <1>0, <2>2, <3>1, <4>1, <4>2 DEF DefaultKept, OthersStay, Resizing, Growing
    <3> QED
      BY <3>2, <3>3
  <2> QED
    BY <1>0, <2>3, <2>4
<1>4. ASSUME NEW t \in Thread, AllocSrc(t) \/ AllocDst(t) PROVE DefaultKept'
  <2>1. t = Main
    BY <1>0, <1>4 DEF AllocSrc, AllocDst, DefaultKept, Growing
  <2>2. ~Return(Main, "setSize", -1)
    <3> SUFFICES ASSUME Return(Main, "setSize", -1) PROVE FALSE
      OBVIOUS
    <3>1. reply'[Main].ret = -1
      BY <1>0 DEF Return, TypeOK
    <3> QED
      BY <3>1 DEF Constructed
  <2>3. /\ OthersStay(Main) /\ pc'[Main] \in {"allocDst", "commit"}
        /\ frame'[Main] = frame[Main] /\ mSize' = mSize /\ pc[Main] \in {"allocSrc", "allocDst"}
    BY <1>0, <1>4, <2>1, <2>2, GotoStays DEF AllocSrc, AllocDst
  <2> QED
    BY <1>0, <2>3 DEF DefaultKept, OthersStay, Resizing, Growing
<1>5. ASSUME NEW t \in Thread, Commit(t) PROVE DefaultKept'
  <2>1. t = Main
    BY <1>0, <1>5 DEF Commit, DefaultKept, Growing
  <2>2. /\ OthersStay(Main) /\ pc'[Main] = "idle" /\ mSize' = SAMPLE_NUMBER
        /\ pc[Main] # "idle"
    BY <1>0, <1>5, <2>1, ReturnStays DEF Commit, DefaultKept
  <2>3. SAMPLE_NUMBER >= SAMPLE_NUMBER
    BY ConstantsAssumption, SMT
  <2> QED
    BY <1>0, <2>2, <2>3 DEF DefaultKept, OthersStay, Growing, Resizing
<1>6. ASSUME NEW c \in Client, TakeSrc(c) \/ TakeDst(c) \/ Reset(c) \/ Store(c)
      PROVE  DefaultKept'
  <2>1. pc[c] # "idle" /\ mSize' = mSize
    BY <1>6 DEF TakeSrc, TakeDst, Reset, Store, service
  <2>2. pc[Main] = "idle"
    BY <2>1 DEF DefaultKept
  <2> QED
    BY <1>2, <1>6, <2>1, <2>2 DEF TakeSrc, TakeDst, Reset, Store
<1>7. ASSUME NEW c \in Client, NEW l, NEW fr, pc[c] # "idle", Goto(c, l),
             l \notin Growing \cup {"setSize"}, mSize' = mSize,
             frame' = [frame EXCEPT ![c] = fr] \/ UNCHANGED frame
      PROVE  DefaultKept'
  <2>1. pc[Main] = "idle" /\ c \in Thread
    BY <1>0, <1>7 DEF DefaultKept
  <2>2. OthersStay(c) /\ pc'[c] = l
    BY <1>7, <2>1, FrameStays, GotoStays
  <2> QED
    BY <1>1, <1>7, <2>1, <2>2
<1>8. ASSUME NEW c \in Client, Process(c) PROVE DefaultKept'
  <2>1. pc[c] # "idle" /\ mSize' = mSize
    BY <1>8 DEF Process, service
  <2>2. pc[Main] = "idle"
    BY <2>1 DEF DefaultKept
  <2>3. "fsrc" \notin Growing \cup {"setSize"}
    BY DEF Growing
  <2> QED
    BY <1>2, <1>7, <1>8, <2>1, <2>2, <2>3 DEF Process
<1>9. ASSUME NEW c \in Client, GetSrc(c) \/ GetDst(c) \/ FSrc(c) \/ FDst(c) \/ Filter(c)
      PROVE  DefaultKept'
  <2>1. pc[c] # "idle" /\ mSize' = mSize
    BY <1>9 DEF GetSrc, GetDst, FSrc, FDst, Filter, service
  <2>2. \E l \in {"takeSrc", "takeDst", "fdst", "filter", "store"} : Goto(c, l)
    BY <1>9 DEF GetSrc, GetDst, FSrc, FDst, Filter
  <2>3. \E fr : frame' = [frame EXCEPT ![c] = fr]
    BY <1>0, <1>9 DEF GetSrc, GetDst, FSrc, FDst, Filter, TypeOK
  <2> QED
    BY <1>7, <2>1, <2>2, <2>3 DEF Growing
<1>10. ASSUME NEW c \in Client, Call(c) PROVE DefaultKept'
  <2>1. PICK op \in Op : \E size \in IF op = "setSize" THEN Size ELSE {0} : Invoke(c, op, size)
    BY <1>10 DEF Call
  <2>2. PICK size \in IF op = "setSize" THEN Size ELSE {0} : Invoke(c, op, size)
    BY <2>1
  <2>3. pc[Main] = "idle" /\ mSize' = mSize /\ c \in Thread
    BY <1>0, <2>2 DEF Invoke, Published, service
  <2>4. frame' = [frame EXCEPT ![c] = [frame[c] EXCEPT !.size = size]]
    BY <2>2 DEF Invoke
  <2>5. OthersStay(c) /\ pc'[c] = op /\ frame'[c] = [frame[c] EXCEPT !.size = size]
    BY <2>2, <2>3, <2>4, FrameStays DEF Invoke
  <2>6. frame'[c].size = size
    BY <2>3, <2>5 DEF TypeOK, Frame
  <2> QED
    BY <1>1, <2>2, <2>3, <2>5, <2>6 DEF Growing, Op
<1>11. ASSUME NEW c \in Client, Write(c) \/ Exit(c) PROVE DefaultKept'
  BY <1>11 DEF Write, Fill, Exit, service, DefaultKept
<1>12. CASE UNCHANGED vars
  BY <1>12 DEF vars, service, DefaultKept
<1> QED
  BY <1>3, <1>4, <1>5, <1>6, <1>8, <1>9, <1>10, <1>11, <1>12
  DEF Next, Resize, Handle, Convert

\* Any number of clients can share the service as long as they stay within the
\* default size and the constructor is not refused memory, whatever mSize held
\* before it.
THEOREM SharedDefaultSafe ==
  ASSUME NoWrap, DefaultSizes
  PROVE  Spec => /\ [](SharedInBounds /\ SharedHandleLive)
                 /\ [](Constructed => BuffersFit /\ HandleFits)
                 /\ SharedNeverShrinks
<1> DEFINE Shared == /\ Constructed => Core /\ DefaultKept
                     /\ Constructed \/ pc[Main] = "idle"
<1>1. Init => Shared
  BY CoreInit, DefaultKeptInit
<1>2. TypeOK /\ TypeOK' /\ Shared /\ [Next]_vars => Shared'
  <2> SUFFICES ASSUME TypeOK, TypeOK', Shared, [Next]_vars PROVE Shared'
    OBVIOUS
  <2>1. ASSUME Constructed' PROVE Core' /\ DefaultKept'
    <3>1. Core /\ DefaultKept
      BY <2>1, ConstructedBefore
    <3>2. Exclusive
      BY <3>1 DEF DefaultKept, Exclusive, Growing, Thread
    <3> QED
      BY <2>1, <3>1, <3>2, CoreStep, DefaultKeptStep
  <2> QED
    BY <2>1, ConstructedBefore
<1>3. TypeOK /\ Shared => /\ SharedInBounds /\ SharedHandleLive
                          /\ Constructed => BuffersFit /\ HandleFits
  BY CoreInBounds DEF Core, SharedInBounds, SharedHandleLive
<1>4. TypeOK /\ Shared /\ [Next]_vars => [Constructed' => mSize' >= mSize]_vars
  BY ConstructedBefore, GrantedStep DEF Core
<1> HIDE DEF Shared
<1> QED
  BY <1>1, <1>2, <1>3, <1>4, TypeCorrect, PTL DEF Spec, SharedNeverShrinks
-----------------------------------------------------------------------------
\* Such clients are not refused a handle if mSize is less than the default size
\* at first: once the service is published it has both buffers and keeps them.

Supplied ==
  /\ pc[Main] = "setSize" => mSize < SAMPLE_NUMBER
  /\ Published => mSize = SAMPLE_NUMBER /\ mSrc # NULL /\ mDst # NULL
  /\ NotRefused

LEMMA SuppliedStep ==
  ASSUME DefaultSizes, TypeOK, DefaultKept, Constructed', Core, Supplied, [Next]_vars
  PROVE  Supplied'
<1>0. /\ Main \in Thread /\ Main \notin Client
      /\ \A c \in Client : c \in Thread /\ c # Main
      /\ \A t \in Thread : t = Main \/ t \in Client
  BY ConstantsAssumption DEF Thread
<1>1. ASSUME NEW t \in Thread, NEW op, NEW ret, op \in {"getSrc", "getDst"} => ret = 0,
             Return(t, op, ret), UNCHANGED asked
      PROVE  NotRefused'
  BY <1>0, <1>1 DEF Supplied, NotRefused, Return, Status, TypeOK
<1>2. ASSUME NEW t \in Thread, NEW k, Return(t, "setSize", k),
             NEW n, asked' = [asked EXCEPT ![t] = n]
      PROVE  NotRefused'
  <2>1. \A c \in Client : c # t => reply'[c] = reply[c] /\ asked'[c] = asked[c]
    BY <1>0, <1>2 DEF Return, TypeOK
  <2>2. reply'[t].op = "setSize"
    BY <1>2 DEF Return, TypeOK
  <2> QED
    BY <2>1, <2>2 DEF Supplied, NotRefused
<1>3. ASSUME UNCHANGED <<mSize, mSrc, mDst>>, pc'[Main] = pc[Main], NotRefused' PROVE Supplied'
  BY <1>3 DEF Supplied, Published
<1>4. ASSUME Resize(Main) PROVE Supplied'
  <2>1. NotRefused'
    <3>1. CASE UNCHANGED <<reply, asked>>
      BY <3>1 DEF Supplied, NotRefused
    <3> QED
      BY <1>0, <1>2, <1>4, <3>1 DEF Resize, SetSize, AllocSrc, AllocDst, Commit
  <2>2. CASE Commit(Main)
    <3>1. mSize' = SAMPLE_NUMBER
      BY <2>2 DEF Commit, DefaultKept
    <3>2. mSrc' # NULL /\ mDst' # NULL /\ pc'[Main] = "idle"
      BY <1>0, <2>2 DEF Commit, Core, InStep, Holds, Return, Goto, TypeOK
    <3> QED
      BY <2>1, <3>1, <3>2 DEF Supplied
  <2>3. CASE SetSize(Main)
    <3>1. ~Ignored(frame[Main].size)
      <4>1. /\ mSize < SAMPLE_NUMBER /\ frame[Main].size = SAMPLE_NUMBER
            /\ mSize \in Nat
        BY <2>3 DEF SetSize, Supplied, DefaultKept, TypeOK
      <4> QED
        BY <4>1, ConstantsAssumption, SMT DEF Ignored
    <3>2. pc'[Main] = "allocSrc"
      BY <1>0, <2>3, <3>1 DEF SetSize, Goto, TypeOK
    <3> QED
      BY <2>1, <3>2 DEF Supplied, Published
  <2>4. CASE AllocSrc(Main) \/ AllocDst(Main)
    <3>1. ~Return(Main, "setSize", -1)
      <4> SUFFICES ASSUME Return(Main, "setSize", -1) PROVE FALSE
        OBVIOUS
      <4>1. reply'[Main].ret = -1
        BY <1>0 DEF Return, TypeOK
      <4> QED
        BY <4>1 DEF Constructed
    <3>2. pc'[Main] \in {"allocDst", "commit"}
      BY <1>0, <2>4, <3>1 DEF AllocSrc, AllocDst, Goto, TypeOK
    <3> QED
      BY <2>1, <3>2 DEF Supplied, Published
  <2> QED
    BY <1>4, <2>2, <2>3, <2>4 DEF Resize
<1>5. ASSUME NEW c \in Client, Resize(c) PROVE Supplied'
  <2>1. SetSize(c) /\ pc[c] = "setSize"
    BY <1>5 DEF Resize, AllocSrc, AllocDst, Commit, SetSize, DefaultKept, Growing
  <2>2. pc[Main] = "idle" /\ frame[c].size \in Size /\ mSize = SAMPLE_NUMBER
    BY <2>1 DEF DefaultKept, Supplied, Published
  <2>3. Ignored(frame[c].size)
    BY <2>2 DEF DefaultSizes, Ignored
  <2>4. NotRefused' /\ UNCHANGED <<mSize, mSrc, mDst>> /\ pc'[Main] = pc[Main]
    BY <1>0, <1>2, <2>1, <2>3 DEF SetSize, Return, Goto, TypeOK
  <2> QED
    BY <1>3, <2>4
<1>6. ASSUME NEW c \in Client, TakeSrc(c) \/ TakeDst(c) PROVE Supplied'
  <2>1. pc[Main] = "idle" /\ mSrc # NULL /\ mDst # NULL
    BY <1>6 DEF TakeSrc, TakeDst, DefaultKept, Supplied, Published
  <2>2. pc[c] = "takeSrc" => frame[c].raw = mSrc
    BY <1>0, <1>6 DEF Core, InStep
  <2>3. pc[c] = "takeDst" => frame[c].raw = mDst
    BY <1>0, <1>6 DEF Core, InStep
  <2>4. NotRefused'
    BY <1>0, <1>1, <1>6, <2>1, <2>2, <2>3 DEF TakeSrc, TakeDst
  <2>5. pc'[Main] = pc[Main]
    BY <1>0, <1>6 DEF TakeSrc, TakeDst, Return, Goto, TypeOK
  <2> QED
    BY <1>3, <1>6, <2>4, <2>5 DEF TakeSrc, TakeDst, service
<1>7. ASSUME NEW c \in Client, Reset(c) \/ Process(c) \/ Store(c) PROVE Supplied'
  <2>1. UNCHANGED <<mSize, mSrc, mDst>> /\ pc'[Main] = pc[Main]
    BY <1>0, <1>7 DEF Reset, Process, Store, Return, Goto, TypeOK, service
  <2>2. NotRefused'
    <3>1. CASE UNCHANGED <<reply, asked>>
      BY <3>1 DEF Supplied, NotRefused
    <3> QED
      BY <1>0, <1>1, <1>7, <3>1 DEF Reset, Process, Store
  <2> QED
    BY <1>3, <2>1, <2>2
<1>8. ASSUME NEW c \in Client, GetSrc(c) \/ GetDst(c) \/ FSrc(c) \/ FDst(c) \/ Filter(c)
      PROVE  Supplied'
  <2>1. UNCHANGED <<mSize, mSrc, mDst, reply, asked>> /\ pc'[Main] = pc[Main]
    BY <1>0, <1>8 DEF GetSrc, GetDst, FSrc, FDst, Filter, Goto, TypeOK, service, client
  <2>2. NotRefused'
    BY <2>1 DEF Supplied, NotRefused
  <2> QED
    BY <1>3, <2>1, <2>2
<1>9. ASSUME NEW c \in Client, Call(c) \/ Write(c) \/ Exit(c) PROVE Supplied'
  <2>1. UNCHANGED <<mSize, mSrc, mDst>> /\ pc'[Main] = pc[Main]
    BY <1>0, <1>9 DEF Call, Invoke, Write, Fill, Exit, service, Goto, Published, TypeOK
  <2>2. /\ reply'[c].op = "none"
        /\ \A d \in Client : d # c => reply'[d] = reply[d] /\ asked'[d] = asked[d]
    BY <1>0, <1>9 DEF Call, Invoke, Write, Fill, Exit, NoReply, TypeOK
  <2>3. NotRefused'
    BY <2>2 DEF Supplied, NotRefused
  <2> QED
    BY <1>3, <2>1, <2>3 DEF Supplied
<1>10. CASE UNCHANGED vars
  BY <1>10 DEF vars, service, client, Supplied, Published, NotRefused
<1> QED
  BY <1>4, <1>5, <1>6, <1>7, <1>8, <1>9, <1>10 DEF Next, Handle, Convert, Thread

\* Any number of clients that stay within the default size: if mSize is less than
\* that at first and the constructor is not refused memory, getSrc() and getDst()
\* give a handle to each whose setSize() was answered NO_ERROR.
THEOREM SharedDefaultAvailable ==
  ASSUME NoWrap, DefaultSizes
  PROVE  Spec => HandleAvailable
<1> DEFINE Served == /\ Constructed => Core /\ DefaultKept /\ Supplied
                     /\ Constructed \/ pc[Main] = "idle"
<1>1. Init /\ mSize < SAMPLE_NUMBER => Served
  <2> SUFFICES ASSUME Init, mSize < SAMPLE_NUMBER PROVE Supplied
    BY DefaultKeptInit, CoreInit
  <2>1. ~Published
    BY DEF Init, Published, Thread
  <2>2. NotRefused
    BY DEF Init, NotRefused, NoReply, Thread
  <2> QED
    BY <2>1, <2>2 DEF Supplied
<1>2. TypeOK /\ TypeOK' /\ Served /\ [Next]_vars => Served'
  <2> SUFFICES ASSUME TypeOK, TypeOK', Served, [Next]_vars PROVE Served'
    OBVIOUS
  <2>1. ASSUME Constructed' PROVE Core' /\ DefaultKept' /\ Supplied'
    <3>1. Core /\ DefaultKept /\ Supplied
      BY <2>1, ConstructedBefore
    <3>2. Exclusive
      BY <3>1 DEF DefaultKept, Exclusive, Growing, Thread
    <3> QED
      BY <2>1, <3>1, <3>2, CoreStep, DefaultKeptStep, SuppliedStep
  <2> QED
    BY <2>1, ConstructedBefore
<1>3. Served => (Constructed => NotRefused)
  BY DEF Supplied
<1> HIDE DEF Served
<1> QED
  BY <1>1, <1>2, <1>3, TypeCorrect, PTL DEF Spec, HandleAvailable
-----------------------------------------------------------------------------
\* One client: for all heaps, sizes, blocks and contents of mSize before the
\* constructor, each statement of a handler is a step of the interface or leaves
\* it alone.

\* What is true of the members and of the handles of the client cl besides Core:
\* the four pointers are to different heaps except where a handle is to the
\* buffer in use; there is a destination if there is a source; the buffers that
\* setSize() has just made are not yet the client's; a conversion starts from
\* the state that the filters have; the client waits for the constructor.
Apart(cl) ==
  /\ mSrc # NULL => mSrc # mDst /\ mSrc # hDst[cl]
  /\ mDst # NULL => mDst # hSrc[cl]
  /\ hSrc[cl] # NULL => hSrc[cl] # hDst[cl]

Paired == (\A t \in Thread : pc[t] # "allocDst") => (mSrc # NULL => mDst # NULL)

Fresh(cl) ==
  \A t \in Thread : /\ pc[t] \in {"allocDst", "commit"} => mSrc # hSrc[cl]
                    /\ pc[t] = "commit" => mDst # hDst[cl]

Converts(cl) ==
  /\ pc[cl] \in Converting => mSize > 0
  /\ pc[cl] = "store" => frame[cl].z = filt

Waits(cl) ==
  /\ pc[Main] \in Resizing \cup {"idle"}
  /\ pc[Main] # "idle" => /\ hSrc[cl] = NULL /\ hDst[cl] = NULL /\ filt = {}
                          /\ frame[Main].size = SAMPLE_NUMBER
  /\ pc[cl] \notin Resizing => frame[cl].size = 0

Steady(cl) == Apart(cl) /\ Paired /\ Fresh(cl) /\ Converts(cl) /\ Waits(cl)

LEMMA SteadyInit == ASSUME NEW cl, Client = {cl}, Init PROVE Steady(cl)
<1>1. cl \in Thread /\ Main \in Thread /\ cl # Main
  BY ConstantsAssumption DEF Thread
<1>2. /\ hSrc[cl] = NULL /\ hDst[cl] = NULL /\ mSrc = NULL /\ mDst = NULL /\ filt = {}
      /\ pc[Main] = "setSize" /\ pc[cl] = "idle"
      /\ frame[Main].size = SAMPLE_NUMBER /\ frame[cl].size = 0
  BY <1>1 DEF Init, NoFrame
<1>3. \A t \in Thread : pc[t] \in {"setSize", "idle"}
  BY DEF Init
<1> QED
  BY <1>1, <1>2, <1>3 DEF Steady, Apart, Paired, Fresh, Converts, Waits, Converting, Resizing

\* With one client there are two threads, and no two of them are in a call.
LEMMA TwoThreads ==
  ASSUME NEW cl, Client = {cl}
  PROVE  /\ Thread = {cl, Main} /\ cl # Main
         /\ TheClient = cl
BY ConstantsAssumption DEF Thread, TheClient

\* setSize() allocates heaps that the client does not hold, and drops both
\* pointers if the second one cannot be had.
LEMMA SteadyResize ==
  ASSUME NEW cl, Client = {cl}, TypeOK, Core, AtMostOne, Steady(cl),
         NEW t \in Thread, Resize(t)
  PROVE  Steady(cl)'
<1>0. Thread = {cl, Main} /\ cl # Main /\ cl \in Client
  BY TwoThreads
<1>1. /\ UNCHANGED <<filt, hSrc, hDst>>
      /\ pc[t] \in Resizing
      /\ \A u \in Thread : u # t => pc[u] = "idle"
  BY DEF Resize, SetSize, AllocSrc, AllocDst, Commit, Resizing, AtMostOne
<1>2. \A h \in Heap : Unused(h) => h # hSrc[cl] /\ h # hDst[cl] /\ h # mSrc /\ h # mDst
  <2>1. DOMAIN heap = Live
    BY DEF TypeOK
  <2> QED
    BY <1>0, <2>1, ConstantsAssumption, Zenon DEF Unused, Live, Heaps
<1>3. NULL \notin Heap
  BY ConstantsAssumption
<1>4. ASSUME NEW l, pc'[t] = l, l \in Growing, frame'[t] = frame[t], OthersStay(t),
             Apart(cl)', Paired', Fresh(cl)', mSize' = mSize
      PROVE  Steady(cl)'
  <2>1. Converts(cl)'
    BY <1>0, <1>1, <1>4 DEF Converts, OthersStay, Growing, Converting
  <2>2. Waits(cl)'
    BY <1>0, <1>1, <1>4 DEF Steady, Waits, OthersStay, Growing, Resizing
  <2> QED
    BY <1>4, <2>1, <2>2 DEF Steady
<1>5. ASSUME NEW ret, Return(t, "setSize", ret), Apart(cl)', mSrc' # NULL => mDst' # NULL
      PROVE  Steady(cl)'
  <2>1. OthersStay(t) /\ pc'[t] = "idle" /\ frame'[t].size = 0
    BY <1>5, ReturnStays DEF Return, TypeOK, NoFrame
  <2>2. \A u \in Thread : pc'[u] = "idle"
    BY <1>1, <2>1 DEF OthersStay
  <2>3. Waits(cl)'
    BY <1>0, <1>1, <2>1, <2>2 DEF Steady, Waits, OthersStay, Growing, Resizing
  <2> QED
    BY <1>0, <1>5, <2>2, <2>3 DEF Steady, Paired, Fresh, Converts, Converting
<1>6. CASE SetSize(t)
  <2>1. Ignored(0)
    BY SMT DEF TypeOK, Ignored
  <2>2. UNCHANGED <<mSize, mSrc, mDst>> /\ pc[t] = "setSize"
    BY <1>6, <2>1 DEF SetSize, FreeOld
  <2>3. Apart(cl)' /\ (mSrc' # NULL => mDst' # NULL)
    BY <1>1, <2>2 DEF Steady, Apart, Paired
  <2>4. CASE Return(t, "setSize", 0)
    BY <1>5, <2>3, <2>4
  <2>5. CASE Goto(t, "allocSrc") /\ UNCHANGED frame
    <3>1. OthersStay(t) /\ pc'[t] = "allocSrc" /\ frame'[t] = frame[t]
      BY <2>5, GotoStays
    <3>2. Paired' /\ Fresh(cl)'
      BY <1>1, <2>3, <3>1 DEF Paired, Fresh, OthersStay
    <3> QED
      BY <1>4, <2>2, <2>3, <3>1, <3>2 DEF Growing
  <2> QED
    BY <1>6, <2>4, <2>5 DEF SetSize
<1>7. CASE AllocSrc(t)
  <2>1. UNCHANGED <<mSize, mDst>> /\ pc[t] = "allocSrc"
    BY <1>7 DEF AllocSrc
  <2>2. ASSUME NEW h \in Heap, Unused(h), mSrc' = h, Goto(t, "allocDst"), UNCHANGED frame
        PROVE  Steady(cl)'
    <3>1. OthersStay(t) /\ pc'[t] = "allocDst" /\ frame'[t] = frame[t]
      BY <2>2, GotoStays
    <3>2. Apart(cl)' /\ Paired' /\ Fresh(cl)'
      BY <1>1, <1>2, <2>1, <2>2, <3>1 DEF Steady, Apart, Paired, Fresh, OthersStay
    <3> QED
      BY <1>4, <2>1, <3>1, <3>2 DEF Growing
  <2>3. ASSUME mSrc' = NULL, Return(t, "setSize", -1) PROVE Steady(cl)'
    BY <1>1, <1>5, <2>1, <2>3 DEF Steady, Apart
  <2> QED
    BY <1>7, <2>2, <2>3 DEF AllocSrc
<1>8. CASE AllocDst(t)
  <2>1. UNCHANGED mSize /\ pc[t] = "allocDst"
    BY <1>8 DEF AllocDst
  <2>2. ASSUME NEW h \in Heap, Unused(h), mDst' = h, UNCHANGED <<mSrc, frame>>, Goto(t, "commit")
        PROVE  Steady(cl)'
    <3>1. OthersStay(t) /\ pc'[t] = "commit" /\ frame'[t] = frame[t]
      BY <2>2, GotoStays
    <3>2. Apart(cl)' /\ Paired'
      BY <1>1, <1>2, <1>3, <2>1, <2>2, <3>1 DEF Steady, Apart, Paired, OthersStay
    <3>3. Fresh(cl)'
      BY <1>1, <1>2, <2>1, <2>2, <3>1 DEF Steady, Fresh, OthersStay
    <3> QED
      BY <1>4, <2>1, <3>1, <3>2, <3>3 DEF Growing
  <2>3. ASSUME mSrc' = NULL, mDst' = NULL, Return(t, "setSize", -1) PROVE Steady(cl)'
    BY <1>1, <1>5, <2>1, <2>3 DEF Steady, Apart
  <2> QED
    BY <1>8, <2>2, <2>3 DEF AllocDst
<1>9. CASE Commit(t)
  <2>1. UNCHANGED <<mSrc, mDst>> /\ Return(t, "setSize", 0) /\ pc[t] = "commit"
    BY <1>9 DEF Commit
  <2>2. Holds(mDst, frame[t].size)
    BY <2>1 DEF Core, InStep
  <2> QED
    BY <1>1, <1>5, <2>1, <2>2 DEF Steady, Apart, Holds
<1> QED
  BY <1>6, <1>7, <1>8, <1>9 DEF Resize

\* A step of the client that is not part of setSize(): it happens when the
\* service is published, and takes its handles from the buffers in use.
LEMMA SteadyStep ==
  ASSUME NEW cl, Client = {cl}, TypeOK, Core, AtMostOne, Steady(cl), [Next]_vars
  PROVE  Steady(cl)'
<1>0. Thread = {cl, Main} /\ cl # Main /\ cl \in Client
  BY TwoThreads
<1>1. ASSUME NEW l, OthersStay(cl), pc'[cl] = l, l \notin Growing,
             pc[Main] = "idle", pc[cl] \notin Growing,
             UNCHANGED <<mSize, mSrc, mDst>>,
             Apart(cl)', Converts(cl)', l \notin Resizing => frame'[cl].size = 0
      PROVE  Steady(cl)'
  <2>1. pc'[Main] = "idle"
    BY <1>0, <1>1 DEF OthersStay
  <2>2. Paired' /\ Fresh(cl)'
    BY <1>0, <1>1, <2>1 DEF Steady, Paired, Fresh, Growing
  <2>3. Waits(cl)'
    BY <1>0, <1>1, <2>1 DEF Waits, Resizing
  <2> QED
    BY <1>1, <2>2, <2>3 DEF Steady
<1>2. ASSUME NEW op, NEW ret, Return(cl, op, ret), pc[cl] \notin Resizing \cup {"idle"},
             UNCHANGED <<mSize, mSrc, mDst>>, Apart(cl)'
      PROVE  Steady(cl)'
  <2>1. OthersStay(cl) /\ pc'[cl] = "idle" /\ frame'[cl].size = 0 /\ pc[Main] = "idle"
    BY <1>0, <1>2, ReturnStays DEF Return, TypeOK, NoFrame, AtMostOne
  <2>2. Converts(cl)'
    BY <2>1 DEF Converts, Converting
  <2> QED
    BY <1>1, <1>2, <2>1, <2>2 DEF Growing, Resizing
<1>3. ASSUME NEW l, OthersStay(cl), pc'[cl] = l, l \notin Resizing, frame'[cl].size = frame[cl].size,
             pc[cl] \notin Resizing \cup {"idle"}, Converts(cl)',
             UNCHANGED <<mSize, mSrc, mDst, hSrc, hDst>>
      PROVE  Steady(cl)'
  <2>1. pc[Main] = "idle"
    BY <1>0, <1>3 DEF AtMostOne
  <2>2. frame'[cl].size = 0
    BY <1>3 DEF Steady, Waits
  <2>3. Apart(cl)'
    BY <1>3 DEF Steady, Apart
  <2> QED
    BY <1>1, <1>3, <2>1, <2>2, <2>3 DEF Growing, Resizing
<1>4. ASSUME NEW t \in Thread, Resize(t) PROVE Steady(cl)'
  BY <1>4, SteadyResize
<1>5. ASSUME TakeSrc(cl) \/ TakeDst(cl) PROVE Steady(cl)'
  <2>1. pc[cl] \in {"takeSrc", "takeDst"} /\ UNCHANGED <<mSize, mSrc, mDst>>
    BY <1>5 DEF TakeSrc, TakeDst, service
  <2>2. CASE TakeSrc(cl)
    <3>1. hSrc'[cl] = mSrc /\ hDst' = hDst
      BY <1>0, <2>2 DEF TakeSrc, Core, InStep, TypeOK
    <3>2. Apart(cl)'
      BY <2>1, <3>1 DEF Steady, Apart
    <3> QED
      BY <1>2, <2>1, <2>2, <3>2 DEF TakeSrc, Resizing
  <2>3. CASE TakeDst(cl)
    <3>1. hDst'[cl] = mDst /\ hSrc' = hSrc
      BY <1>0, <2>3 DEF TakeDst, Core, InStep, TypeOK
    <3>2. Apart(cl)'
      BY <2>1, <3>1 DEF Steady, Apart
    <3> QED
      BY <1>2, <2>1, <2>3, <3>2 DEF TakeDst, Resizing
  <2> QED
    BY <1>5, <2>2, <2>3
<1>6. ASSUME GetSrc(cl) \/ GetDst(cl) \/ FSrc(cl) \/ FDst(cl) PROVE Steady(cl)'
  <2> DEFINE Taken ==
        {[frame[cl] EXCEPT !.raw = mSrc], [frame[cl] EXCEPT !.raw = mDst],
         [frame[cl] EXCEPT !.fsrc = [base |-> mSrc, stride |-> mSize]],
         [frame[cl] EXCEPT !.fdst = [base |-> mDst, stride |-> mSize]]}
  <2>1. PICK l \in {"takeSrc", "takeDst", "fdst", "filter"}, fr \in Taken :
          /\ Goto(cl, l) /\ frame' = [frame EXCEPT ![cl] = fr]
          /\ fr.size = frame[cl].size
          /\ l \in {"fdst", "filter"} => pc[cl] \in {"fsrc", "fdst"}
    <3>1. frame[cl] \in Frame
      BY <1>0 DEF TypeOK
    <3>2. /\ [frame[cl] EXCEPT !.raw = mSrc].size = frame[cl].size
          /\ [frame[cl] EXCEPT !.raw = mDst].size = frame[cl].size
          /\ [frame[cl] EXCEPT !.fsrc = [base |-> mSrc, stride |-> mSize]].size = frame[cl].size
          /\ [frame[cl] EXCEPT !.fdst = [base |-> mDst, stride |-> mSize]].size = frame[cl].size
      BY <3>1 DEF Frame
    <3> QED
      BY <1>6, <3>2 DEF GetSrc, GetDst, FSrc, FDst
  <2>2. UNCHANGED <<mSize, mSrc, mDst, hSrc, hDst>>
        /\ pc[cl] \in {"getSrc", "getDst", "fsrc", "fdst"}
    BY <1>6 DEF GetSrc, GetDst, FSrc, FDst, service, client
  <2>3. OthersStay(cl) /\ pc'[cl] = l /\ frame'[cl] = fr
    BY <1>0, <2>1, FrameStays
  <2>4. Converts(cl)'
    BY <2>1, <2>2, <2>3 DEF Steady, Converts, Converting
  <2> QED
    BY <1>3, <2>1, <2>2, <2>3, <2>4 DEF Resizing
<1>7. ASSUME Filter(cl) PROVE Steady(cl)'
  <2> DEFINE fr == [frame[cl] EXCEPT !.n = mSize, !.z = filt]
  <2>1. UNCHANGED <<mSize, mSrc, mDst, hSrc, hDst, filt>> /\ pc[cl] = "filter" /\ mSize > 0
    BY <1>7 DEF Filter, service, client, Steady, Converts, Converting
  <2>2. Goto(cl, "store") /\ frame' = [frame EXCEPT ![cl] = fr]
    BY <1>0, <1>7 DEF Filter, TypeOK
  <2>3. OthersStay(cl) /\ pc'[cl] = "store" /\ frame'[cl] = fr
    <3> HIDE DEF fr
    <3> QED
      BY <1>0, <2>2, FrameStays
  <2>4. frame'[cl].size = frame[cl].size /\ frame'[cl].z = filt
    BY <1>0, <2>3 DEF TypeOK, Frame
  <2>5. Converts(cl)'
    BY <2>1, <2>3, <2>4 DEF Converts, Converting
  <2> QED
    BY <1>3, <2>1, <2>3, <2>4, <2>5 DEF Resizing
<1>8. ASSUME Reset(cl) \/ Store(cl) PROVE Steady(cl)'
  <2>1. UNCHANGED <<mSize, mSrc, mDst, hSrc, hDst>> /\ pc[cl] \in {"reset", "store"}
    BY <1>8 DEF Reset, Store
  <2>2. Apart(cl)'
    BY <2>1 DEF Steady, Apart
  <2> QED
    BY <1>2, <1>8, <2>1, <2>2 DEF Reset, Store, Resizing
<1>9. ASSUME Process(cl) PROVE Steady(cl)'
  <2>1. UNCHANGED <<mSize, mSrc, mDst, hSrc, hDst>> /\ pc[cl] = "process"
    BY <1>9 DEF Process, service
  <2>2. Apart(cl)'
    BY <2>1 DEF Steady, Apart
  <2>3. CASE Return(cl, "process", -1)
    BY <1>2, <2>1, <2>2, <2>3 DEF Resizing
  <2>4. CASE ~NoBuffers /\ Goto(cl, "fsrc") /\ UNCHANGED frame
    <3>1. OthersStay(cl) /\ pc'[cl] = "fsrc" /\ frame'[cl] = frame[cl]
      BY <1>0, <2>4, GotoStays
    <3>2. mSize' > 0
      BY <2>1, <2>4 DEF NoBuffers, TypeOK
    <3>3. Converts(cl)'
      BY <3>1, <3>2 DEF Converts
    <3> QED
      BY <1>3, <2>1, <3>1, <3>3 DEF Resizing
  <2> QED
    BY <1>9, <2>3, <2>4 DEF Process
<1>10. ASSUME Call(cl) PROVE Steady(cl)'
  <2>1. PICK op \in Op : \E size \in IF op = "setSize" THEN Size ELSE {0} : Invoke(cl, op, size)
    BY <1>10 DEF Call
  <2>2. PICK size \in IF op = "setSize" THEN Size ELSE {0} : Invoke(cl, op, size)
    BY <2>1
  <2>3. UNCHANGED <<mSize, mSrc, mDst, hSrc, hDst>> /\ pc[Main] = "idle" /\ pc[cl] = "idle"
    BY <2>2 DEF Invoke, Published, service
  <2>4. frame' = [frame EXCEPT ![cl] = [frame[cl] EXCEPT !.size = size]]
    BY <2>2 DEF Invoke
  <2>5. OthersStay(cl) /\ pc'[cl] = op /\ frame'[cl] = [frame[cl] EXCEPT !.size = size]
    BY <1>0, <2>2, <2>4, FrameStays DEF Invoke
  <2>6. frame'[cl].size = size
    BY <1>0, <2>5 DEF TypeOK, Frame
  <2>7. Apart(cl)' /\ Converts(cl)'
    BY <2>3, <2>5 DEF Steady, Apart, Converts, Converting, Op
  <2> QED
    BY <1>1, <2>2, <2>3, <2>5, <2>6, <2>7 DEF Op, Growing, Resizing
<1>11. ASSUME Write(cl) PROVE Steady(cl)'
  <2>1. UNCHANGED <<service, pc, frame, hSrc, hDst>>
    BY <1>11 DEF Write, Fill
  <2> QED
    BY <2>1 DEF service, Steady, Apart, Paired, Fresh, Converts, Waits
<1>12. ASSUME Exit(cl) PROVE Steady(cl)'
  <2>1. UNCHANGED <<service, pc, frame>> /\ pc[cl] = "idle" /\ pc[Main] = "idle"
    BY <1>12 DEF Exit, Published
  <2>2. hSrc'[cl] = NULL /\ hDst'[cl] = NULL
    BY <1>0, <1>12 DEF Exit, TypeOK
  <2>3. Apart(cl)'
    BY <2>1, <2>2 DEF Steady, Apart, service
  <2> QED
    BY <1>0, <2>1, <2>3 DEF service, Steady, Paired, Fresh, Converts, Waits
<1>13. CASE UNCHANGED vars
  BY <1>13 DEF vars, service, client, Steady, Apart, Paired, Fresh, Converts, Waits
<1> QED
  BY <1>0, <1>4, <1>5, <1>6, <1>7, <1>8, <1>9, <1>10, <1>11, <1>12, <1>13
  DEF Next, Handle, Convert
-----------------------------------------------------------------------------
(***************************************************************************)
(* Every step of the service is a step of the interface, or leaves alone   *)
(* what the client sees.                                                   *)
(***************************************************************************)

\* A heap stays as it is when others are released or allocated.
LEMMA ReleaseKeeps ==
  ASSUME NEW S, NEW h \in S, heap' = Restrict(heap, S)
  PROVE  heap'[h] = heap[h]
BY DEF Restrict

LEMMA AllocationKeeps ==
  ASSUME TypeOK, NEW g, Unused(g), NEW k, NEW p, NEW q, heap' = Allocated(g, k, p, q),
         NEW h \in Live, h \in Heaps(p, q, hSrc, hDst)
  PROVE  heap'[h] = heap[h]
<1>1. h # g
  BY DEF TypeOK, Unused
<1> QED
  BY <1>1 DEF Allocated

\* What the client sees of a handle that it keeps.
LEMMA SeenKept ==
  ASSUME NEW h, NEW m, NEW n, h # NULL => heap'[h] = heap[h],
         NEW seen, seen = (IF h = NULL THEN [use |-> "none", bytes |-> 0, data |-> {}]
           ELSE [use |-> IF h = n THEN "current" ELSE "old",
                 bytes |-> heap'[h].bytes, data |-> heap'[h].data])
  PROVE  /\ m = n => seen = Seen(h, m)
         /\ h # n => seen = Interface!Retired(Seen(h, m))
<1>1. m = n => seen = Seen(h, m)
  BY DEF Seen
<1>2. ASSUME h # n PROVE seen = Interface!Retired(Seen(h, m))
  <2>1. CASE h = NULL
    BY <2>1 DEF Seen, Interface!Retired
  <2>2. CASE h # NULL
    <3>1. seen = [use |-> "old", bytes |-> heap[h].bytes, data |-> heap[h].data]
      BY <1>2, <2>2
    <3>2. CASE h = m
      <4>1. Seen(h, m) = [use |-> "current", bytes |-> heap[h].bytes, data |-> heap[h].data]
        BY <2>2, <3>2 DEF Seen
      <4> QED
        BY <3>1, <4>1 DEF Interface!Retired
    <3>3. CASE h # m
      <4>1. Seen(h, m) = [use |-> "old", bytes |-> heap[h].bytes, data |-> heap[h].data]
        BY <2>2, <3>3 DEF Seen
      <4> QED
        BY <3>1, <4>1 DEF Interface!Retired
    <3> QED
      BY <3>2, <3>3
  <2> QED
    BY <2>1, <2>2
<1> QED
  BY <1>1, <1>2

\* The client's handles are to heaps that exist.
LEMMA HandlesExist ==
  ASSUME TypeOK, NEW cl, Client = {cl}, NEW p, NEW q
  PROVE  /\ hSrc[cl] # NULL => hSrc[cl] \in Live /\ hSrc[cl] \in Heaps(p, q, hSrc, hDst)
         /\ hDst[cl] # NULL => hDst[cl] \in Live /\ hDst[cl] \in Heaps(p, q, hSrc, hDst)
BY DEF Live, Heaps
\* The client's handles, in any set of heaps, to buffers that a step leaves alone.
LEMMA BuffersSeen ==
  ASSUME NEW cl, Client = {cl},
         hSrc[cl] # NULL => heap'[hSrc[cl]] = heap[hSrc[cl]],
         hDst[cl] # NULL => heap'[hDst[cl]] = heap[hDst[cl]]
  PROVE  /\ hSrc'[cl] = hSrc[cl] /\ mSrc' = mSrc => SeenSrc' = SeenSrc
         /\ hDst'[cl] = hDst[cl] /\ mDst' = mDst => SeenDst' = SeenDst
         /\ hSrc'[cl] = hSrc[cl] /\ mSrc' # hSrc[cl] => SeenSrc' = Interface!Retired(SeenSrc)
         /\ hDst'[cl] = hDst[cl] /\ mDst' # hDst[cl] => SeenDst' = Interface!Retired(SeenDst)
<1>1. TheClient = cl
  BY TwoThreads
<1> DEFINE Shown(h, n) == IF h = NULL THEN [use |-> "none", bytes |-> 0, data |-> {}]
                          ELSE [use |-> IF h = n THEN "current" ELSE "old",
                                bytes |-> heap'[h].bytes, data |-> heap'[h].data]
<1>2. SeenSrc' = Shown(hSrc'[cl], mSrc') /\ SeenDst' = Shown(hDst'[cl], mDst')
  BY <1>1 DEF SeenSrc, SeenDst, Seen
<1>3. SeenSrc = Seen(hSrc[cl], mSrc) /\ SeenDst = Seen(hDst[cl], mDst)
  BY <1>1 DEF SeenSrc, SeenDst
<1>4. /\ mSrc' = mSrc => Shown(hSrc[cl], mSrc') = Seen(hSrc[cl], mSrc)
      /\ hSrc[cl] # mSrc' => Shown(hSrc[cl], mSrc') = Interface!Retired(Seen(hSrc[cl], mSrc))
  BY SeenKept
<1>5. /\ mDst' = mDst => Shown(hDst[cl], mDst') = Seen(hDst[cl], mDst)
      /\ hDst[cl] # mDst' => Shown(hDst[cl], mDst') = Interface!Retired(Seen(hDst[cl], mDst))
  BY SeenKept
<1> HIDE DEF Shown
<1> QED
  BY <1>2, <1>3, <1>4, <1>5

\* A return from a handler is the return of the call.
LEMMA ReturnSeen ==
  ASSUME TypeOK, NEW cl, Client = {cl}, pc[Main] = "idle",
         NEW op \in Op, NEW ret, op = "reset" => ret = 0,
         Return(cl, op, ret), Pending(pc[cl]) = op
  PROVE  Interface!Return(op, ret)
<1>1. Thread = {cl, Main} /\ cl # Main /\ TheClient = cl
  BY TwoThreads
<1>2. pc'[cl] = "idle" /\ pc'[Main] = "idle" /\ frame'[cl] = NoFrame
      /\ reply'[cl] = [op |-> op, ret |-> ret, status |-> Status(op, ret)]
  BY <1>1 DEF Return, Goto, TypeOK
<1>3. InCall = op /\ InCall' = "none"
  BY <1>1, <1>2 DEF InCall, Published, Pending
<1>4. Wanted' = 0
  BY <1>1, <1>2 DEF Wanted, NoFrame
<1>5. Status(op, ret) = IF ret = 0 \/ op = "process" THEN "NO_ERROR" ELSE "BAD_VALUE"
  BY DEF Status, Op
<1>6. Answer' = [op |-> op, ret |-> ret,
                 status |-> IF ret = 0 \/ op = "process" THEN "NO_ERROR" ELSE "BAD_VALUE"]
  BY <1>1, <1>2, <1>5 DEF Answer
<1> QED
  BY <1>3, <1>4, <1>6 DEF Interface!Return

\* A step of a handler that does not return leaves the call in progress.
LEMMA InProgress ==
  ASSUME TypeOK, NEW cl, Client = {cl}, pc[Main] = "idle", OthersStay(cl),
         NEW l, pc'[cl] = l, Pending(l) = Pending(pc[cl]),
         frame'[cl].size = frame[cl].size, UNCHANGED reply
  PROVE  UNCHANGED <<InCall, Wanted, Answer>>
<1>1. Thread = {cl, Main} /\ cl # Main /\ TheClient = cl
  BY TwoThreads
<1> QED
  BY <1>1 DEF InCall, Published, Wanted, Answer, OthersStay
\* setSize(), allocation by allocation, is Enough, or Renew and then Renewed or
\* NoMemory.
LEMMA SetSizeStep ==
  ASSUME NoWrap, NEW cl, Client = {cl}, TypeOK, Core, AtMostOne, Steady(cl), Steady(cl)',
         pc[Main] = "idle", Resize(cl)
  PROVE  Interface!SetSize \/ UNCHANGED Interface!vars
<1>0. Thread = {cl, Main} /\ cl # Main /\ cl \in Client /\ TheClient = cl /\ "setSize" \in Op
  BY TwoThreads DEF Op
<1>1. Wanted = frame[cl].size /\ Wanted \in Nat /\ mSize \in Nat
  BY <1>0 DEF Wanted, TypeOK, Frame
<1>2. UNCHANGED <<filt, hSrc, hDst>> /\ pc[cl] \in Resizing
  BY DEF Resize, SetSize, AllocSrc, AllocDst, Commit, Resizing
<1>3. Pending(pc[cl]) = "setSize" /\ InCall = "setSize"
  BY <1>0, <1>2 DEF Pending, Resizing, InCall, Published
<1>4. ASSUME NEW l \in Growing, Goto(cl, l), UNCHANGED <<frame, reply>>
      PROVE  UNCHANGED <<InCall, Wanted, Answer>>
  <2>1. OthersStay(cl) /\ pc'[cl] = l /\ frame'[cl] = frame[cl]
    BY <1>0, <1>4, GotoStays
  <2>2. Pending(l) = Pending(pc[cl])
    BY <1>3 DEF Pending, Growing
  <2> QED
    BY <1>0, <1>4, <2>1, <2>2, InProgress
<1>5. ASSUME NEW ret, Return(cl, "setSize", ret) PROVE Interface!Return("setSize", ret)
  BY <1>0, <1>3, <1>5, ReturnSeen
<1>6. \A p, q : /\ hSrc[cl] # NULL => hSrc[cl] \in Live /\ hSrc[cl] \in Heaps(p, q, hSrc, hDst)
                /\ hDst[cl] # NULL => hDst[cl] \in Live /\ hDst[cl] \in Heaps(p, q, hSrc, hDst)
  BY <1>0, HandlesExist
<1> DEFINE Kept == /\ hSrc[cl] # NULL => heap'[hSrc[cl]] = heap[hSrc[cl]]
                   /\ hDst[cl] # NULL => heap'[hDst[cl]] = heap[hDst[cl]]
<1>7. CASE SetSize(cl)
  <2>1. Ignored(0)
    BY SMT DEF TypeOK, Ignored
  <2>2. UNCHANGED <<mSize, mSrc, mDst, heap>> /\ pc[cl] = "setSize"
    BY <1>7, <2>1 DEF SetSize, FreeOld
  <2>3. UNCHANGED <<SeenSrc, SeenDst>>
    BY <1>2, <2>2 DEF SeenSrc, SeenDst, Seen
  <2>4. CASE Ignored(frame[cl].size) /\ Return(cl, "setSize", 0)
    <3>1. Interface!Enough
      BY <1>1, <1>2, <1>5, <2>2, <2>3, <2>4 DEF Interface!Enough, Interface!state, Ignored
    <3> QED
      BY <3>1 DEF Interface!SetSize
  <2>5. CASE Goto(cl, "allocSrc") /\ UNCHANGED <<frame, reply>>
    <3>1. UNCHANGED <<InCall, Wanted, Answer>>
      BY <1>4, <2>5 DEF Growing
    <3> QED
      BY <1>2, <2>2, <2>3, <3>1 DEF Interface!vars, Interface!state
  <2> QED
    BY <1>7, <2>4, <2>5 DEF SetSize
<1>8. ASSUME AllocSrc(cl) \/ AllocDst(cl) PROVE Wanted > mSize /\ UNCHANGED <<mSize, filt>>
  BY <1>0, <1>1, <1>8 DEF AllocSrc, AllocDst, Core, InStep, Growing
<1>9. CASE AllocSrc(cl)
  <2>1. UNCHANGED mDst /\ pc[cl] = "allocSrc"
    BY <1>9 DEF AllocSrc
  <2>2. ASSUME NEW h \in Heap, Unused(h), mSrc' = h, Goto(cl, "allocDst"), UNCHANGED <<frame, reply>>,
               heap' = Allocated(h, Bytes(frame[cl].size), h, mDst)
        PROVE  Interface!Renew
    <3>1. UNCHANGED <<InCall, Wanted, Answer>>
      BY <1>4, <2>2 DEF Growing
    <3>2. Kept
      BY <1>6, <2>2, AllocationKeeps
    <3>3. mSrc' # hSrc[cl]
      BY <1>0, <1>2, <2>2, GotoStays DEF Steady, Fresh
    <3>4. SeenSrc' = Interface!Retired(SeenSrc) /\ SeenDst' = SeenDst
      BY <1>2, <2>1, <3>2, <3>3, BuffersSeen
    <3>5. (mSrc # NULL)' \in BOOLEAN
      OBVIOUS
    <3> QED
      BY <1>3, <1>8, <1>9, <3>1, <3>4, <3>5 DEF Interface!Renew
  <2>3. ASSUME mSrc' = NULL, Return(cl, "setSize", -1),
               heap' = Restrict(heap, Heaps(NULL, mDst, hSrc, hDst))
        PROVE  Interface!NoMemory
    <3>1. Kept
      BY <1>6, <2>3, ReleaseKeeps
    <3>2. SeenSrc' = Interface!Retired(SeenSrc) /\ SeenDst' = SeenDst
      <4>1. SeenDst' = SeenDst
        BY <1>2, <2>1, <3>1, BuffersSeen
      <4>2. CASE hSrc[cl] # NULL
        BY <1>2, <2>3, <3>1, <4>1, <4>2, BuffersSeen
      <4>3. CASE hSrc[cl] = NULL
        BY <1>0, <1>2, <4>1, <4>3 DEF SeenSrc, Seen, Interface!Retired
      <4> QED
        BY <4>2, <4>3
    <3> QED
      BY <1>5, <1>8, <1>9, <2>3, <3>2 DEF Interface!NoMemory
  <2> QED
    BY <1>9, <2>2, <2>3 DEF AllocSrc, Interface!SetSize
<1>10. CASE AllocDst(cl)
  <2>1. pc[cl] = "allocDst"
    BY <1>10 DEF AllocDst
  <2>2. ASSUME NEW h \in Heap, Unused(h), mDst' = h, Goto(cl, "commit"), UNCHANGED <<mSrc, frame, reply>>,
               heap' = Allocated(h, Bytes(frame[cl].size), mSrc, h)
        PROVE  Interface!Renew
    <3>1. UNCHANGED <<InCall, Wanted, Answer>>
      BY <1>4, <2>2 DEF Growing
    <3>2. Kept
      BY <1>6, <2>2, AllocationKeeps
    <3>3. mDst' # hDst[cl]
      BY <1>0, <1>2, <2>2, GotoStays DEF Steady, Fresh
    <3>4. SeenDst' = Interface!Retired(SeenDst) /\ SeenSrc' = SeenSrc
      BY <1>2, <2>2, <3>2, <3>3, BuffersSeen
    <3>5. (mSrc # NULL)' \in BOOLEAN
      OBVIOUS
    <3> QED
      BY <1>3, <1>8, <1>10, <3>1, <3>4, <3>5 DEF Interface!Renew
  <2>3. ASSUME mDst' = NULL, mSrc' = NULL, Return(cl, "setSize", -1),
               heap' = Restrict(heap, Heaps(NULL, NULL, hSrc, hDst))
        PROVE  Interface!NoMemory
    <3>1. Kept
      BY <1>6, <2>3, ReleaseKeeps
    <3>2. SeenSrc' = Interface!Retired(SeenSrc)
      <4>1. CASE hSrc[cl] # NULL
        BY <1>2, <2>3, <3>1, <4>1, BuffersSeen
      <4>2. CASE hSrc[cl] = NULL
        BY <1>0, <1>2, <4>2 DEF SeenSrc, Seen, Interface!Retired
      <4> QED
        BY <4>1, <4>2
    <3>3. SeenDst' = Interface!Retired(SeenDst)
      <4>1. CASE hDst[cl] # NULL
        BY <1>2, <2>3, <3>1, <4>1, BuffersSeen
      <4>2. CASE hDst[cl] = NULL
        BY <1>0, <1>2, <4>2 DEF SeenDst, Seen, Interface!Retired
      <4> QED
        BY <4>1, <4>2
    <3> QED
      BY <1>5, <1>8, <1>10, <2>3, <3>2, <3>3 DEF Interface!NoMemory
  <2> QED
    BY <1>10, <2>2, <2>3 DEF AllocDst, Interface!SetSize
<1>11. CASE Commit(cl)
  <2>1. UNCHANGED <<mSrc, mDst, heap>> /\ Return(cl, "setSize", 0) /\ pc[cl] = "commit"
        /\ mSize' = frame[cl].size
    BY <1>11 DEF Commit
  <2>2. Wanted > mSize /\ mSrc # NULL /\ mSrc # hSrc[cl] /\ mDst # hDst[cl]
    BY <1>0, <1>1, <2>1 DEF Core, InStep, Growing, Holds, Steady, Fresh
  <2>3. SeenSrc.use # "current" /\ SeenDst.use # "current"
    BY <1>0, <2>2 DEF SeenSrc, SeenDst, Seen
  <2>4. UNCHANGED <<SeenSrc, SeenDst>>
    BY <1>2, <2>1 DEF SeenSrc, SeenDst, Seen
  <2>5. UNCHANGED (mSrc # NULL)
    BY <2>1
  <2>6. Interface!Renewed
    BY <1>1, <1>2, <1>5, <2>1, <2>2, <2>3, <2>4, <2>5 DEF Interface!Renewed
  <2> QED
    BY <2>6 DEF Interface!SetSize
<1> QED
  BY <1>7, <1>9, <1>10, <1>11 DEF Resize
\* The constructor's setSize() is the start.
LEMMA StartStep ==
  ASSUME NEW cl, Client = {cl}, TypeOK, TypeOK', Core, AtMostOne, Steady(cl), Steady(cl)',
         Resize(Main)
  PROVE  Interface!Start
<1>0. Thread = {cl, Main} /\ cl # Main /\ cl \in Client /\ TheClient = cl
  BY TwoThreads
<1>1. pc[Main] # "idle" /\ UNCHANGED <<filt, hSrc, hDst>>
  BY DEF Resize, SetSize, AllocSrc, AllocDst, Commit
<1>2. /\ hSrc[cl] = NULL /\ hDst[cl] = NULL
      /\ frame[Main].size = SAMPLE_NUMBER
  BY <1>1 DEF Steady, Waits
<1>3. UNCHANGED <<SeenSrc, SeenDst>>
  BY <1>0, <1>1, <1>2 DEF SeenSrc, SeenDst, Seen
<1>4. /\ OthersStay(Main)
      /\ reply'[cl] = reply[cl]
  <2>1. CASE Goto(Main, "allocSrc") \/ Goto(Main, "allocDst") \/ Goto(Main, "commit")
    <3>1. UNCHANGED <<frame, reply>>
      BY <1>0, <2>1 DEF Resize, SetSize, AllocSrc, AllocDst, Commit, Return, Goto, TypeOK
    <3> QED
      BY <1>0, <2>1, <3>1, GotoStays
  <2>2. ASSUME NEW ret, Return(Main, "setSize", ret) PROVE OthersStay(Main) /\ reply'[cl] = reply[cl]
    BY <1>0, <2>2, ReturnStays DEF Return, TypeOK
  <2> QED
    BY <2>1, <2>2 DEF Resize, SetSize, AllocSrc, AllocDst, Commit
<1>5. pc'[cl] = pc[cl] /\ frame'[cl] = frame[cl] /\ pc[cl] = "idle"
  BY <1>0, <1>1, <1>4 DEF OthersStay, AtMostOne
<1>6. InCall = "start" /\ InCall' \in {"start", "none"}
  BY <1>0, <1>1, <1>5 DEF InCall, Published, Pending
<1>7. UNCHANGED <<Wanted, Answer>>
  BY <1>0, <1>4, <1>5 DEF Wanted, Answer
<1>8. mSize' = mSize \/ (mSize' = SAMPLE_NUMBER /\ mSrc' # NULL)
  <2>1. Ignored(0)
    BY SMT DEF TypeOK, Ignored
  <2>2. CASE Commit(Main)
    BY <1>0, <1>2, <2>2 DEF Commit, Core, InStep, Holds
  <2> QED
    BY <2>1, <2>2 DEF Resize, SetSize, FreeOld, AllocSrc, AllocDst
<1>9. (mSrc # NULL)' \in BOOLEAN
  OBVIOUS
<1> QED
  BY <1>1, <1>3, <1>6, <1>7, <1>8, <1>9 DEF Interface!Start

\* The statements that only prepare the effect of a call show nothing.
LEMMA SilentStep ==
  ASSUME NEW cl, Client = {cl}, TypeOK, pc[Main] = "idle",
         GetSrc(cl) \/ GetDst(cl) \/ FSrc(cl) \/ FDst(cl) \/ Filter(cl)
  PROVE  UNCHANGED Interface!vars
<1>0. Thread = {cl, Main} /\ cl # Main /\ cl \in Client /\ TheClient = cl
  BY TwoThreads
<1>1. UNCHANGED <<service, heap, client>>
  BY DEF GetSrc, GetDst, FSrc, FDst, Filter
<1>2. frame[cl] \in Frame
  BY <1>0 DEF TypeOK
<1>3. PICK l, fr : /\ Goto(cl, l) /\ frame' = [frame EXCEPT ![cl] = fr]
                   /\ fr.size = frame[cl].size
                   /\ Pending(l) = Pending(pc[cl])
  <2>1. CASE GetSrc(cl)
    <3>1. [frame[cl] EXCEPT !.raw = mSrc].size = frame[cl].size
      BY <1>2 DEF Frame
    <3>2. Pending("takeSrc") = Pending("getSrc")
      BY DEF Pending
    <3> QED
      BY <2>1, <3>1, <3>2 DEF GetSrc
  <2>2. CASE GetDst(cl)
    <3>1. [frame[cl] EXCEPT !.raw = mDst].size = frame[cl].size
      BY <1>2 DEF Frame
    <3>2. Pending("takeDst") = Pending("getDst")
      BY DEF Pending
    <3> QED
      BY <2>2, <3>1, <3>2 DEF GetDst
  <2>3. CASE FSrc(cl)
    <3>1. [frame[cl] EXCEPT !.fsrc = [base |-> mSrc, stride |-> mSize]].size = frame[cl].size
      BY <1>2 DEF Frame
    <3>2. Pending("fdst") = Pending("fsrc")
      BY DEF Pending
    <3> QED
      BY <2>3, <3>1, <3>2 DEF FSrc
  <2>4. CASE FDst(cl)
    <3>1. [frame[cl] EXCEPT !.fdst = [base |-> mDst, stride |-> mSize]].size = frame[cl].size
      BY <1>2 DEF Frame
    <3>2. Pending("filter") = Pending("fdst")
      BY DEF Pending
    <3> QED
      BY <2>4, <3>1, <3>2 DEF FDst
  <2>5. CASE Filter(cl)
    <3>1. [frame[cl] EXCEPT !.n = mSize, !.z = filt].size = frame[cl].size
      BY <1>2 DEF Frame
    <3>2. Pending("store") = Pending("filter")
      BY DEF Pending
    <3>3. frame' = [frame EXCEPT ![cl] = [frame[cl] EXCEPT !.n = mSize, !.z = filt]]
      BY <1>0, <2>5 DEF Filter, TypeOK
    <3> QED
      BY <2>5, <3>1, <3>2, <3>3 DEF Filter
  <2> QED
    BY <2>1, <2>2, <2>3, <2>4, <2>5
<1>4. OthersStay(cl) /\ pc'[cl] = l /\ frame'[cl] = fr
  BY <1>0, <1>3, FrameStays
<1>5. UNCHANGED <<InCall, Wanted, Answer>>
  BY <1>0, <1>1, <1>3, <1>4, InProgress DEF client
<1>6. UNCHANGED <<SeenSrc, SeenDst>>
  BY <1>1 DEF SeenSrc, SeenDst, Seen, service, client
<1> QED
  BY <1>1, <1>5, <1>6 DEF Interface!vars, Interface!state, service

\* getSrc() and getDst() give the buffer in use, or none.
LEMMA HandleStep ==
  ASSUME NEW cl, Client = {cl}, TypeOK, TypeOK', Core, AtMostOne, Steady(cl), Steady(cl)',
         pc[Main] = "idle", TakeSrc(cl) \/ TakeDst(cl)
  PROVE  Interface!GetSrc \/ Interface!GetDst
<1>0. Thread = {cl, Main} /\ cl # Main /\ cl \in Client /\ TheClient = cl
      /\ {"getSrc", "getDst"} \subseteq Op
  BY TwoThreads DEF Op
<1>1. UNCHANGED <<mSize, mSrc, mDst, filt>>
  BY DEF TakeSrc, TakeDst, service
<1>2. ASSUME NEW h, h \in Live', h # NULL,
             heap' = Restrict(heap, Live'), h \in {mSrc, mDst}
      PROVE  /\ heap'[h] = heap[h]
             /\ heap[h].bytes >= mSize * (CHANNELS * SampleBytes)
             /\ heap[h].data \subseteq Block
  <2>1. heap'[h] = heap[h]
    BY <1>2, ReleaseKeeps
  <2>2. h \in Live
    BY <1>2 DEF Live, Heaps
  <2>3. heap[h].bytes >= mSize * CHANNELS * SampleBytes /\ heap[h] \in HeapRec /\ mSize \in Nat
    BY <1>2, <2>2 DEF Core, BuffersFit, TypeOK, HeapRec
  <2> QED
    BY <2>1, <2>3, SMT DEF CHANNELS, SampleBytes, HeapRec
<1>3. CASE TakeSrc(cl)
  <2>1. /\ hSrc'[cl] = mSrc /\ hDst' = hDst
        /\ Return(cl, "getSrc", IF mSrc = NULL THEN -1 ELSE 0)
        /\ Live' = Heaps(mSrc, mDst, hSrc', hDst)
        /\ pc[cl] = "takeSrc"
    BY <1>0, <1>1, <1>3 DEF TakeSrc, Core, InStep, TypeOK, Live
  <2>2. heap' = Restrict(heap, Live')
    BY <1>3, <2>1 DEF TakeSrc
  <2>3. Interface!Return("getSrc", IF mSrc = NULL THEN -1 ELSE 0)
    <3>1. Pending(pc[cl]) = "getSrc"
      BY <2>1 DEF Pending
    <3> QED
      BY <1>0, <2>1, <3>1, ReturnSeen
  <2>4. hDst[cl] # NULL => heap'[hDst[cl]] = heap[hDst[cl]]
    BY <1>0, <2>1, <2>2, ReleaseKeeps DEF Heaps
  <2>5. SeenDst' = SeenDst
    BY <1>0, <1>1, <2>1, <2>4 DEF SeenDst, Seen
  <2>6. CASE mSrc = NULL
    <3>1. SeenSrc' = Interface!NoBuffer
      BY <1>0, <1>1, <2>1, <2>6 DEF SeenSrc, Seen, Interface!NoBuffer
    <3> QED
      BY <1>1, <2>3, <2>5, <2>6, <3>1 DEF Interface!GetSrc
  <2>7. CASE mSrc # NULL
    <3>1. mSrc \in Live'
      BY <2>1, <2>7 DEF Heaps
    <3>2. /\ heap'[mSrc] = heap[mSrc]
          /\ heap[mSrc].bytes >= mSize * (CHANNELS * SampleBytes)
          /\ heap[mSrc].data \subseteq Block
      BY <1>2, <2>2, <2>7, <3>1
    <3>3. SeenSrc' = [use |-> "current", bytes |-> heap[mSrc].bytes, data |-> heap[mSrc].data]
      BY <1>0, <1>1, <2>1, <2>7, <3>2 DEF SeenSrc, Seen
    <3>4. SeenSrc.use = "current" => SeenSrc' = SeenSrc
      BY <1>0, <3>3 DEF SeenSrc, Seen
    <3>5. Interface!Granted(SeenSrc, SeenSrc')
      BY <3>2, <3>3, <3>4 DEF Interface!Granted
    <3> QED
      BY <1>1, <2>3, <2>5, <2>7, <3>5 DEF Interface!GetSrc
  <2> QED
    BY <2>6, <2>7
<1>4. CASE TakeDst(cl)
  <2>1. /\ hDst'[cl] = mDst /\ hSrc' = hSrc
        /\ Return(cl, "getDst", IF mDst = NULL THEN -1 ELSE 0)
        /\ Live' = Heaps(mSrc, mDst, hSrc, hDst')
        /\ pc[cl] = "takeDst"
    BY <1>0, <1>1, <1>4 DEF TakeDst, Core, InStep, TypeOK, Live
  <2>2. heap' = Restrict(heap, Live')
    BY <1>4, <2>1 DEF TakeDst
  <2>3. Interface!Return("getDst", IF mDst = NULL THEN -1 ELSE 0)
    <3>1. Pending(pc[cl]) = "getDst"
      BY <2>1 DEF Pending
    <3> QED
      BY <1>0, <2>1, <3>1, ReturnSeen
  <2>4. hSrc[cl] # NULL => heap'[hSrc[cl]] = heap[hSrc[cl]]
    BY <1>0, <2>1, <2>2, ReleaseKeeps DEF Heaps
  <2>5. SeenSrc' = SeenSrc
    BY <1>0, <1>1, <2>1, <2>4 DEF SeenSrc, Seen
  <2>6. CASE mDst = NULL
    <3>1. SeenDst' = Interface!NoBuffer
      BY <1>0, <1>1, <2>1, <2>6 DEF SeenDst, Seen, Interface!NoBuffer
    <3>2. mSrc = NULL
      BY <1>0, <2>1, <2>6 DEF Steady, Paired
    <3> QED
      BY <1>1, <2>3, <2>5, <2>6, <3>1, <3>2 DEF Interface!GetDst
  <2>7. CASE mDst # NULL
    <3>1. mDst \in Live'
      BY <2>1, <2>7 DEF Heaps
    <3>2. /\ heap'[mDst] = heap[mDst]
          /\ heap[mDst].bytes >= mSize * (CHANNELS * SampleBytes)
          /\ heap[mDst].data \subseteq Block
      BY <1>2, <2>2, <2>7, <3>1
    <3>3. SeenDst' = [use |-> "current", bytes |-> heap[mDst].bytes, data |-> heap[mDst].data]
      BY <1>0, <1>1, <2>1, <2>7, <3>2 DEF SeenDst, Seen
    <3>4. SeenDst.use = "current" => SeenDst' = SeenDst
      BY <1>0, <3>3 DEF SeenDst, Seen
    <3>5. Interface!Granted(SeenDst, SeenDst')
      BY <3>2, <3>3, <3>4 DEF Interface!Granted
    <3> QED
      BY <1>1, <2>3, <2>5, <2>7, <3>5 DEF Interface!GetDst
  <2> QED
    BY <2>6, <2>7
<1> QED
  BY <1>3, <1>4
\* The conversion adds what is in the source to what has been heard, and shows
\* all of it in the destination.
LEMMA StoreSeen ==
  ASSUME TypeOK, TheClient \in Client, mSize > 0, mSrc # NULL,
         filt' = filt \cup heap[mSrc].data, heap[mSrc] \in HeapRec,
         UNCHANGED <<mSize, SeenSrc>>, UNCHANGED (mSrc # NULL), Interface!Return("process", 0),
         \/ /\ SeenDst = [use |-> "current", bytes |-> heap[mDst].bytes, data |-> heap[mDst].data]
            /\ SeenDst' = [use |-> "current", bytes |-> heap[mDst].bytes, data |-> filt']
         \/ SeenDst.use # "current" /\ SeenDst' = SeenDst
  PROVE  Interface!Process
<1>1. heap[mSrc].data \in SUBSET Block
  BY DEF HeapRec
<1>2. SeenSrc.use = "current" => SeenSrc.data = heap[mSrc].data
  BY DEF SeenSrc, Seen
<1>3. \E new \in IF SeenSrc.use = "current" THEN {SeenSrc.data} ELSE SUBSET Block :
         filt' = filt \cup new
  BY <1>1, <1>2
<1>4. SeenDst' = IF SeenDst.use = "current" THEN [SeenDst EXCEPT !.data = filt'] ELSE SeenDst
  <2>1. CASE SeenDst = [use |-> "current", bytes |-> heap[mDst].bytes, data |-> heap[mDst].data]
             /\ SeenDst' = [use |-> "current", bytes |-> heap[mDst].bytes, data |-> filt']
    BY <2>1
  <2> QED
    BY <2>1
<1> QED
  BY <1>3, <1>4 DEF Interface!Process

\* process() fails, begins, or ends; reset() forgets what has been heard.
LEMMA ProcessStep ==
  ASSUME NEW cl, Client = {cl}, TypeOK, TypeOK', Core, AtMostOne, Steady(cl),
         pc[Main] = "idle", Reset(cl) \/ Process(cl) \/ Store(cl)
  PROVE  \/ Interface!Reset \/ Interface!Process \/ Interface!CannotProcess
         \/ UNCHANGED Interface!vars
<1>0. Thread = {cl, Main} /\ cl # Main /\ cl \in Client /\ TheClient = cl
      /\ {"reset", "process"} \subseteq Op
  BY TwoThreads DEF Op
<1>1. UNCHANGED <<mSize, mSrc, mDst, hSrc, hDst>>
  BY DEF Reset, Process, Store, service
<1>2. UNCHANGED (mSrc # NULL)
  BY <1>1
<1>3. CASE Reset(cl)
  <2>1. Interface!Return("reset", 0)
    <3>1. Pending(pc[cl]) = "reset"
      BY <1>3 DEF Reset, Pending
    <3> QED
      BY <1>0, <1>3, <3>1, ReturnSeen DEF Reset
  <2>2. UNCHANGED <<SeenSrc, SeenDst>>
    BY <1>1, <1>3 DEF Reset, SeenSrc, SeenDst, Seen
  <2> QED
    BY <1>1, <1>2, <1>3, <2>1, <2>2 DEF Reset, Interface!Reset
<1>4. CASE Process(cl)
  <2>1. UNCHANGED <<SeenSrc, SeenDst, filt>> /\ pc[cl] = "process"
    BY <1>1, <1>4 DEF Process, service, SeenSrc, SeenDst, Seen
  <2>2. CASE NoBuffers /\ Return(cl, "process", -1)
    <3>1. Interface!Return("process", -1)
      <4>1. Pending(pc[cl]) = "process"
        BY <2>1 DEF Pending
      <4> QED
        BY <1>0, <2>2, <4>1, ReturnSeen
    <3>2. ~(mSrc # NULL) \/ mSize = 0
      BY <1>0, <2>1, <2>2 DEF NoBuffers, Steady, Paired
    <3> QED
      BY <1>1, <1>2, <2>1, <3>1, <3>2 DEF Interface!CannotProcess, Interface!state
  <2>3. CASE Goto(cl, "fsrc") /\ UNCHANGED <<frame, reply>>
    <3>1. OthersStay(cl) /\ pc'[cl] = "fsrc" /\ frame'[cl] = frame[cl]
      BY <1>0, <2>3, GotoStays
    <3>2. Pending("fsrc") = Pending(pc[cl])
      BY <2>1 DEF Pending
    <3>3. UNCHANGED <<InCall, Wanted, Answer>>
      BY <1>0, <2>3, <3>1, <3>2, InProgress
    <3> QED
      BY <1>1, <1>2, <2>1, <3>3 DEF Interface!vars, Interface!state
  <2> QED
    BY <1>4, <2>2, <2>3 DEF Process
<1>5. CASE Store(cl)
  <2>1. /\ frame[cl].fsrc.base = mSrc /\ frame[cl].fdst.base = mDst /\ frame[cl].z = filt
        /\ mSize > 0 /\ mSrc # NULL /\ mDst # NULL
        /\ pc[cl] = "store"
    BY <1>0, <1>5 DEF Store, Core, InStep, Steady, Converts, Converting
  <2>2. /\ filt' = filt \cup heap[mSrc].data
        /\ heap' = [heap EXCEPT ![mDst].data = filt \cup heap[mSrc].data]
        /\ Return(cl, "process", 0)
    BY <1>5, <2>1 DEF Store
  <2>3. Interface!Return("process", 0)
    <3>1. Pending(pc[cl]) = "process"
      BY <2>1 DEF Pending
    <3> QED
      BY <1>0, <2>2, <3>1, ReturnSeen
  <2>4. mSrc \in Live /\ mDst \in Live /\ mDst # hSrc[cl]
    BY <2>1 DEF Live, Heaps, Steady, Apart
  <2>5. DOMAIN heap = Live /\ heap[mDst] \in HeapRec /\ heap[mSrc] \in HeapRec
    BY <2>4 DEF TypeOK, HeapRec
  <2>6. \A h : h # mDst => heap'[h] = heap[h]
    BY <2>2
  <2>7. SeenSrc' = SeenSrc
    BY <1>0, <1>1, <2>4, <2>6 DEF SeenSrc, Seen
  <2>8. /\ heap'[mDst].bytes = heap[mDst].bytes
        /\ heap'[mDst].data = filt'
    BY <2>2, <2>4, <2>5 DEF HeapRec
  <2>9. CASE hDst[cl] = mDst
    <3>1. SeenDst = [use |-> "current", bytes |-> heap[mDst].bytes, data |-> heap[mDst].data]
      BY <1>0, <2>1, <2>9 DEF SeenDst, Seen
    <3>2. SeenDst' = [use |-> "current", bytes |-> heap[mDst].bytes, data |-> filt']
      BY <1>0, <1>1, <2>1, <2>8, <2>9 DEF SeenDst, Seen
    <3> QED
      BY <1>0, <3>1, <3>2, <2>1, <2>2, <2>3, <2>7, <1>1, <1>2, <2>5, StoreSeen
  <2>10. CASE hDst[cl] # mDst
    <3>1. SeenDst' = SeenDst
      BY <1>0, <1>1, <2>6, <2>10 DEF SeenDst, Seen
    <3>2. SeenDst.use # "current"
      BY <1>0, <2>10 DEF SeenDst, Seen
    <3> QED
      BY <1>0, <3>1, <3>2, <2>1, <2>2, <2>3, <2>7, <1>1, <1>2, <2>5, StoreSeen
  <2> QED
    BY <2>9, <2>10
<1> QED
  BY <1>3, <1>4, <1>5
\* What the program does between two calls, and its calls.
LEMMA ProgramStep ==
  ASSUME NEW cl, Client = {cl}, TypeOK, TypeOK', Core, AtMostOne, Steady(cl), Steady(cl)',
         Call(cl) \/ Write(cl) \/ Exit(cl)
  PROVE  Interface!Call \/ (\E b \in Block : Interface!Write(b)) \/ Interface!Exit
<1>0. Thread = {cl, Main} /\ cl # Main /\ cl \in Client /\ TheClient = cl
  BY TwoThreads
<1>1. UNCHANGED <<mSize, mSrc, mDst, filt>> /\ UNCHANGED (mSrc # NULL)
  BY DEF Call, Invoke, Write, Fill, Exit, service
<1>2. CASE Call(cl)
  <2>1. PICK op \in Op : \E size \in IF op = "setSize" THEN Size ELSE {0} : Invoke(cl, op, size)
    BY <1>2 DEF Call
  <2>2. PICK size \in IF op = "setSize" THEN Size ELSE {0} : Invoke(cl, op, size)
    BY <2>1
  <2>3. pc[Main] = "idle" /\ pc[cl] = "idle" /\ UNCHANGED <<heap, hSrc, hDst>>
    BY <2>2 DEF Invoke, Published
  <2>4. frame' = [frame EXCEPT ![cl] = [frame[cl] EXCEPT !.size = size]]
    BY <2>2 DEF Invoke
  <2>5. OthersStay(cl) /\ pc'[cl] = op /\ frame'[cl] = [frame[cl] EXCEPT !.size = size]
    BY <1>0, <2>2, <2>4, FrameStays DEF Invoke
  <2>6. Wanted' = size
    BY <1>0, <2>5 DEF TypeOK, Frame, Wanted
  <2>7. InCall = "none" /\ InCall' = op
    BY <1>0, <2>3, <2>5 DEF InCall, Published, Pending, OthersStay, Op
  <2>8. Answer' = [op |-> "none", ret |-> 0, status |-> "NO_ERROR"]
    BY <1>0, <2>2 DEF Answer, Invoke, NoReply, TypeOK
  <2>9. UNCHANGED <<SeenSrc, SeenDst>>
    BY <1>1, <2>3 DEF SeenSrc, SeenDst, Seen
  <2>10. \/ op = "setSize" /\ size \in Nat
         \/ op \in {"getSrc", "getDst", "reset", "process"} /\ size = 0
    BY ConstantsAssumption DEF Op
  <2> QED
    BY <1>1, <2>6, <2>7, <2>8, <2>9, <2>10 DEF Interface!Call, Interface!state
<1>3. CASE Write(cl)
  <2>1. PICK b \in Block : Fill(cl, b)
    BY <1>3 DEF Write
  <2>2. /\ pc[cl] = "idle" /\ hSrc[cl] # NULL
        /\ heap' = [heap EXCEPT ![hSrc[cl]].data = {b}]
        /\ UNCHANGED <<pc, frame, hSrc, hDst>>
    BY <2>1 DEF Fill
  <2>3. pc[Main] = "idle" /\ hSrc[cl] # hDst[cl]
    BY <2>2 DEF Steady, Waits, Apart
  <2>4. InCall = "none" /\ UNCHANGED <<InCall, Wanted>>
    BY <1>0, <2>2, <2>3 DEF InCall, Published, Pending, Wanted
  <2>5. Answer' = [op |-> "none", ret |-> 0, status |-> "NO_ERROR"]
    BY <1>0, <2>1 DEF Answer, Fill, NoReply, TypeOK
  <2>6. hSrc[cl] \in Live /\ heap[hSrc[cl]] \in HeapRec /\ DOMAIN heap = Live
    BY <2>2 DEF Live, Heaps, TypeOK, HeapRec
  <2>7. heap'[hSrc[cl]].bytes = heap[hSrc[cl]].bytes /\ heap'[hSrc[cl]].data = {b}
    BY <2>2, <2>6 DEF HeapRec
  <2>8. SeenDst' = SeenDst
    BY <1>0, <1>1, <2>2, <2>3 DEF SeenDst, Seen
  <2>9. /\ SeenSrc = [use |-> IF hSrc[cl] = mSrc THEN "current" ELSE "old",
                      bytes |-> heap[hSrc[cl]].bytes, data |-> heap[hSrc[cl]].data]
        /\ SeenSrc' = [use |-> IF hSrc[cl] = mSrc THEN "current" ELSE "old",
                       bytes |-> heap[hSrc[cl]].bytes, data |-> {b}]
    BY <1>0, <1>1, <2>2, <2>7 DEF SeenSrc, Seen
  <2>10. SeenSrc.use # "none" /\ SeenSrc' = [SeenSrc EXCEPT !.data = {b}]
    BY <2>9
  <2>11. Interface!Write(b)
    BY <1>1, <2>4, <2>5, <2>8, <2>10 DEF Interface!Write
  <2> QED
    BY <2>11
<1>4. CASE Exit(cl)
  <2>1. pc[cl] = "idle" /\ pc[Main] = "idle" /\ UNCHANGED <<pc, frame>>
    BY <1>4 DEF Exit, Published
  <2>2. InCall = "none" /\ UNCHANGED <<InCall, Wanted>>
    BY <1>0, <2>1 DEF InCall, Published, Pending, Wanted
  <2>3. Answer' = [op |-> "none", ret |-> 0, status |-> "NO_ERROR"]
    BY <1>0, <1>4 DEF Answer, Exit, NoReply, TypeOK
  <2>4. hSrc'[cl] = NULL /\ hDst'[cl] = NULL
    BY <1>0, <1>4 DEF Exit, TypeOK
  <2>5. SeenSrc' = Interface!NoBuffer /\ SeenDst' = Interface!NoBuffer
    BY <1>0, <2>4 DEF SeenSrc, SeenDst, Seen, Interface!NoBuffer
  <2> QED
    BY <1>1, <2>2, <2>3, <2>5 DEF Interface!Exit
<1> QED
  BY <1>2, <1>3, <1>4

Inv(cl) == TypeOK /\ Core /\ AtMostOne /\ Steady(cl)

LEMMA InterfaceInit == ASSUME NEW cl, Client = {cl}, Init PROVE Interface!Init
<1>0. Thread = {cl, Main} /\ cl # Main /\ cl \in Client /\ TheClient = cl
  BY TwoThreads
<1>1. InCall = "start" /\ Wanted = 0 /\ Answer = [op |-> "none", ret |-> 0, status |-> "NO_ERROR"]
  BY <1>0 DEF Init, InCall, Published, Wanted, Answer, NoFrame, NoReply
<1>2. SeenSrc = Interface!NoBuffer /\ SeenDst = Interface!NoBuffer
  BY <1>0 DEF Init, SeenSrc, SeenDst, Seen, Interface!NoBuffer
<1>3. mSize \in Nat /\ mSrc = NULL /\ filt = {}
  BY ConstantsAssumption DEF Init
<1> QED
  BY <1>1, <1>2, <1>3 DEF Interface!Init

LEMMA InterfaceStep ==
  ASSUME NoWrap, NEW cl, Client = {cl}, Inv(cl), Inv(cl)', [Next]_vars
  PROVE  [Interface!Next]_Interface!vars
<1>0. Thread = {cl, Main} /\ cl # Main
  BY TwoThreads
<1>1. pc[cl] # "idle" => pc[Main] = "idle"
  BY <1>0 DEF Inv, AtMostOne
<1>2. CASE Resize(Main)
  BY <1>2, StartStep DEF Inv, Interface!Next
<1>3. CASE Resize(cl)
  <2>1. pc[Main] = "idle"
    BY <1>1, <1>3 DEF Resize, SetSize, AllocSrc, AllocDst, Commit
  <2> QED
    BY <1>3, <2>1, SetSizeStep DEF Inv, Interface!Next
<1>4. CASE Handle(cl) \/ Reset(cl) \/ Convert(cl)
  <2>1. pc[Main] = "idle"
    BY <1>1, <1>4 DEF Handle, Convert, GetSrc, TakeSrc, GetDst, TakeDst, Reset, Process,
       FSrc, FDst, Filter, Store
  <2>2. CASE TakeSrc(cl) \/ TakeDst(cl)
    BY <2>1, <2>2, HandleStep DEF Inv, Interface!Next
  <2>3. CASE Reset(cl) \/ Process(cl) \/ Store(cl)
    BY <2>1, <2>3, ProcessStep DEF Inv, Interface!Next
  <2>4. CASE GetSrc(cl) \/ GetDst(cl) \/ FSrc(cl) \/ FDst(cl) \/ Filter(cl)
    BY <2>1, <2>4, SilentStep DEF Inv
  <2> QED
    BY <1>4, <2>2, <2>3, <2>4 DEF Handle, Convert
<1>5. CASE Call(cl) \/ Write(cl) \/ Exit(cl)
  BY <1>5, ProgramStep DEF Inv, Interface!Next
<1>6. CASE UNCHANGED vars
  <2>1. UNCHANGED <<InCall, Wanted, Answer, mSize, filt, SeenSrc, SeenDst>> /\ UNCHANGED (mSrc # NULL)
    BY <1>6 DEF vars, service, client, InCall, Published, Wanted, Answer, SeenSrc, SeenDst, Seen
  <2> QED
    BY <2>1 DEF Interface!vars, Interface!state
<1> QED
  BY <1>0, <1>2, <1>3, <1>4, <1>5, <1>6 DEF Next

\* The service implements its interface for a single client: whatever mSize held
\* before the constructor, whichever allocations fail and whatever the client
\* calls, it sees each call take effect at once and as ITetraudio says.
THEOREM OneClientRefines ==
  ASSUME NoWrap, NEW cl, Client = {cl}
  PROVE  Spec => KeepsPromises
<1>1. Init => AtMostOne /\ Core /\ Steady(cl)
  BY CoreInit, SteadyInit DEF Init, AtMostOne
<1>2. TypeOK /\ AtMostOne /\ [Next]_vars => AtMostOne'
  BY AtMostOneStep
<1>3. AtMostOne => Exclusive
  BY DEF AtMostOne, Exclusive, Growing
<1>4. TypeOK /\ TypeOK' /\ Core /\ Exclusive /\ [Next]_vars => Core'
  BY CoreStep
<1>5. TypeOK /\ Core /\ AtMostOne /\ Steady(cl) /\ [Next]_vars => Steady(cl)'
  BY SteadyStep
<1>6. Init => Interface!Init
  BY InterfaceInit
<1>7. /\ TypeOK /\ Core /\ AtMostOne /\ Steady(cl)
      /\ TypeOK' /\ Core' /\ AtMostOne' /\ Steady(cl)'
      /\ [Next]_vars
      => [Interface!Next]_Interface!vars
  BY InterfaceStep DEF Inv
<1> QED
  BY <1>1, <1>2, <1>3, <1>4, <1>5, <1>6, <1>7, TypeCorrect, PTL
  DEF Spec, KeepsPromises, Interface!Spec
-----------------------------------------------------------------------------
(***************************************************************************)
(* What process() has answered is in the destination, as long as the       *)
(* client makes no other call and writes nothing: a reply is only there    *)
(* while no handler runs.                                                  *)
(***************************************************************************)

Quiet(cl) == reply[cl].op # "none" => \A t \in Thread : pc[t] = "idle"

LEMMA ConvertedStep ==
  ASSUME NEW cl, Client = {cl}, TypeOK, Core, AtMostOne, Quiet(cl), Converted, [Next]_vars
  PROVE  Quiet(cl)' /\ Converted'
<1>0. Thread = {cl, Main} /\ cl # Main /\ cl \in Client
  BY TwoThreads
<1>1. CASE reply'[cl].op = "none"
  BY <1>0, <1>1 DEF Quiet, Converted
<1>2. ASSUME NEW t \in Thread, NEW op, NEW ret, pc[t] # "idle", Return(t, op, ret),
             op = "process" /\ ret = 0 /\ t = cl => Converted'
      PROVE  Quiet(cl)' /\ Converted'
  <2>1. \A u \in Thread : pc'[u] = "idle"
    BY <1>2, ReturnStays DEF AtMostOne, OthersStay
  <2>2. CASE t = cl
    <3>1. reply'[cl].op = op /\ reply'[cl].ret = ret
      BY <1>0, <1>2, <2>2 DEF Return, TypeOK
    <3> QED
      BY <1>0, <1>2, <2>1, <2>2, <3>1 DEF Quiet, Converted
  <2>3. CASE t # cl
    <3>1. reply'[cl] = reply[cl]
      BY <1>2, <2>3 DEF Return, TypeOK
    <3>2. reply[cl].op = "none"
      BY <1>2 DEF Quiet
    <3> QED
      BY <1>1, <3>1, <3>2
  <2> QED
    BY <2>2, <2>3
<1>3. ASSUME NEW t \in Thread, pc[t] # "idle", UNCHANGED reply PROVE Quiet(cl)' /\ Converted'
  BY <1>1, <1>3 DEF Quiet
<1>4. ASSUME NEW t \in Thread, Resize(t) PROVE Quiet(cl)' /\ Converted'
  BY <1>2, <1>3, <1>4 DEF Resize, SetSize, AllocSrc, AllocDst, Commit
<1>5. CASE Handle(cl) \/ Reset(cl)
  BY <1>0, <1>2, <1>3, <1>5 DEF Handle, GetSrc, TakeSrc, GetDst, TakeDst, Reset, client
<1>6. CASE Process(cl) \/ FSrc(cl) \/ FDst(cl) \/ Filter(cl)
  BY <1>0, <1>2, <1>3, <1>6 DEF Process, FSrc, FDst, Filter, client
<1>7. CASE Store(cl)
  <2>1. /\ frame[cl].fsrc.base = mSrc /\ frame[cl].fdst.base = mDst
        /\ mSrc # NULL /\ mDst # NULL
        /\ UNCHANGED <<mSrc, mDst, hSrc, hDst>>
    BY <1>0, <1>7 DEF Store, Core, InStep, Converting
  <2>2. heap' = [heap EXCEPT ![mDst].data = frame[cl].z \cup heap[mSrc].data]
    BY <1>7, <2>1 DEF Store
  <2>3. mSrc \in Live /\ mDst \in Live
    BY <2>1 DEF Live, Heaps
  <2>4. heap'[mSrc].data \subseteq heap'[mDst].data
    BY <2>2, <2>3 DEF TypeOK
  <2>5. Converted'
    BY <1>0, <2>1, <2>4 DEF Converted
  <2> QED
    BY <1>0, <1>2, <1>7, <2>5 DEF Store
<1>8. CASE Call(cl) \/ Write(cl) \/ Exit(cl)
  <2>1. reply'[cl].op = "none"
    BY <1>0, <1>8 DEF Call, Invoke, Write, Fill, Exit, NoReply, TypeOK
  <2> QED
    BY <1>1, <2>1
<1>9. CASE UNCHANGED vars
  BY <1>9 DEF vars, service, client, Quiet, Converted
<1> QED
  BY <1>0, <1>4, <1>5, <1>6, <1>7, <1>8, <1>9 DEF Next, Convert

\* When process() has answered 0 to the only client and it holds the buffers in
\* use, its destination holds the conversion of what it wrote into its source.
THEOREM OneClientConverts ==
  ASSUME NoWrap, NEW cl, Client = {cl}
  PROVE  Spec => []Converted
<1>1. Init => AtMostOne /\ Core /\ Quiet(cl) /\ Converted
  <2> SUFFICES ASSUME Init PROVE AtMostOne /\ Core /\ Quiet(cl) /\ Converted
    OBVIOUS
  <2>1. \A c \in Thread : reply[c].op = "none"
    BY DEF Init, NoReply
  <2> QED
    BY <2>1, CoreInit, TwoThreads DEF Init, AtMostOne, Quiet, Converted
<1>2. TypeOK /\ AtMostOne /\ [Next]_vars => AtMostOne'
  BY AtMostOneStep
<1>3. AtMostOne => Exclusive
  BY DEF AtMostOne, Exclusive, Growing
<1>4. TypeOK /\ TypeOK' /\ Core /\ Exclusive /\ [Next]_vars => Core'
  BY CoreStep
<1>5. TypeOK /\ Core /\ AtMostOne /\ Quiet(cl) /\ Converted /\ [Next]_vars
      => Quiet(cl)' /\ Converted'
  BY ConvertedStep
<1> QED
  BY <1>1, <1>2, <1>3, <1>4, <1>5, TypeCorrect, PTL DEF Spec
=============================================================================
