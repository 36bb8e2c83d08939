-------------------------- MODULE TetraudioService --------------------------
(***************************************************************************)
(* The tetraudiod daemon: class TetraudioService behind the Binder stub    *)
(* BnTetraudio (src/server/tetraudiod.cpp, src/libtetraudio).              *)
(*                                                                         *)
(* The daemon publishes one service object and joins the Binder thread     *)
(* pool, so the handlers of different clients run on different threads     *)
(* and no lock protects the members.  A client makes one synchronous call  *)
(* at a time, and pc[t] names the statement at which the handler that      *)
(* serves t stands.  Main is the thread that runs the constructor; the     *)
(* clients find the service once Main is idle.                             *)
(*                                                                         *)
(* A MemoryHeapBase is an element of Heap.  It exists while one of the     *)
(* service's two strong pointers or a client's handle refers to it: heap   *)
(* is a function over exactly those.  The pointers that process() takes    *)
(* with getBase(), and the one that getSrc() and getDst() copy before they *)
(* count the new reference, keep nothing alive.                            *)
(*                                                                         *)
(* The samples are abstracted to the set of blocks, written by clients,    *)
(* that they still depend on.  The high-pass filters have an infinite      *)
(* response: what they output depends on all they have read since reset(). *)
(***************************************************************************)
EXTENDS Integers, Functions

CONSTANTS
  Client,         \* the client processes
  Main,           \* the thread of the constructor
  Heap,           \* the memory heaps
  NULL,           \* the null pointer
  Block,          \* what a client may write into the source buffer
  Size,           \* the sizes a client may ask for
  Garbage,        \* what the memory of mSize may hold before the constructor
  SAMPLE_NUMBER,  \* the default size
  WordMod,        \* 2^32, the modulus of uint32_t arithmetic
  AllocMayFail    \* can the allocation of a heap fail?

ASSUME ConstantsAssumption ==
  /\ NULL \notin Heap
  /\ Main \notin Client
  /\ Size \subseteq Nat
  /\ Garbage \subseteq Nat
  /\ SAMPLE_NUMBER \in Nat \ {0}
  /\ WordMod \in Nat \ {0}
  /\ AllocMayFail \in BOOLEAN

VARIABLES
  mSize, mSrc, mDst,  \* the members of the service
  filt,               \* the blocks that the states of the filters depend on
  heap,               \* the existing heaps: their sizes and contents
  pc, frame,          \* the statement and the local variables of each thread
  reply,              \* the last reply to each thread
  asked,              \* the size of its last setSize(), if that succeeded
  hSrc, hDst          \* the handles each client holds

service == <<mSize, mSrc, mDst, filt>>
client == <<reply, asked, hSrc, hDst>>
vars == <<service, heap, pc, frame, client>>

Thread == Client \cup {Main}

CHANNELS == 4
SampleBytes == 4

\* Mutant of Bytes: one channel only.
BytesOfChannel(size) == (size * SampleBytes) % WordMod

\* size * CHANNELS * (32 / 8), in uint32_t
Bytes(size) == (size * CHANNELS * SampleBytes) % WordMod

Heaps(src, dst, hs, hd) ==
  ({src, dst} \cup {hs[c] : c \in Client} \cup {hd[c] : c \in Client}) \ {NULL}

\* The heaps to which some strong pointer refers.
Live == Heaps(mSrc, mDst, hSrc, hDst)

NoBuffer == [base |-> NULL, stride |-> 0]
NoFrame == [size |-> 0, raw |-> NULL, fsrc |-> NoBuffer, fdst |-> NoBuffer,
            n |-> 0, z |-> {}]
NoReply == [op |-> "none", ret |-> 0, status |-> "NO_ERROR"]

Op == {"setSize", "getSrc", "getDst", "reset", "process"}
Label == {"idle", "setSize", "allocSrc", "allocDst", "commit", "getSrc",
          "takeSrc", "getDst", "takeDst", "reset", "process", "fsrc", "fdst",
          "filter", "store"}
-----------------------------------------------------------------------------
\* The sp members are null; mSize is not initialized; the constructor has
\* reached its call of setSize(SAMPLE_NUMBER).
Init ==
  /\ mSize \in Garbage
  /\ mSrc = NULL
  /\ mDst = NULL
  /\ filt = {}
  /\ heap = [h \in {} |-> [bytes |-> 0, data |-> {}]]
  /\ pc = [t \in Thread |-> IF t = Main THEN "setSize" ELSE "idle"]
  /\ frame = [t \in Thread |->
                IF t = Main THEN [NoFrame EXCEPT !.size = SAMPLE_NUMBER]
                            ELSE NoFrame]
  /\ reply = [t \in Thread |-> NoReply]
  /\ asked = [t \in Thread |-> 0]
  /\ hSrc = [c \in Client |-> NULL]
  /\ hDst = [c \in Client |-> NULL]

Published == pc[Main] = "idle"

\* BnTetraudio::onTransact: the status it makes of what a handler returns (of
\* getSrc() and getDst(), -1 stands for a null pointer).
Status(op, ret) ==
  IF op \in {"setSize", "getSrc", "getDst"} /\ ret # 0
  THEN "BAD_VALUE" ELSE "NO_ERROR"

Goto(t, label) == pc' = [pc EXCEPT ![t] = label]

Return(t, op, ret) ==
  /\ Goto(t, "idle")
  /\ frame' = [frame EXCEPT ![t] = NoFrame]
  /\ reply' = [reply EXCEPT ![t] =
                 [op |-> op, ret |-> ret, status |-> Status(op, ret)]]

\* A client starts a call; the stub unmarshals the size, if there is one.
Invoke(c, op, size) ==
  /\ Published
  /\ pc[c] = "idle"
  /\ Goto(c, op)
  /\ frame' = [frame EXCEPT ![c].size = size]
  /\ reply' = [reply EXCEPT ![c] = NoReply]
  /\ UNCHANGED <<service, heap, asked, hSrc, hDst>>

Call(c) ==
  \E op \in Op : \E size \in IF op = "setSize" THEN Size ELSE {0} : Invoke(c, op, size)
-----------------------------------------------------------------------------
\* setSize()

\* Mutants of Ignored: off by one; only the same size; also the same size is
\* allocated anew; setSize(0) is not ignored.
IgnoredOffByOne(size) == size <= mSize + 1
IgnoredSame(size) == size = mSize
IgnoredSmaller(size) == size < mSize
IgnoredPositive(size) == 0 < size /\ size <= mSize

Ignored(size) == size <= mSize

\* The recursive call setSize(0) that is to free the old buffers: ignored, or
\* else the branch that drops both pointers.  (That the size exceeds mSize also
\* decides the test size > 0 that follows.)
FreeOld ==
  IF mSize > 0 /\ ~Ignored(0)
  THEN /\ mSrc' = NULL
       /\ mDst' = NULL
       /\ mSize' = 0
       /\ heap' = Restrict(heap, Heaps(NULL, NULL, hSrc, hDst))
  ELSE UNCHANGED <<mSize, mSrc, mDst, heap>>

SetSize(t) ==
  /\ pc[t] = "setSize"
  /\ \/ /\ Ignored(frame[t].size)
        /\ Return(t, "setSize", 0)
        /\ asked' = [asked EXCEPT ![t] = frame[t].size]
        /\ UNCHANGED <<mSize, mSrc, mDst, heap>>
     \/ /\ ~Ignored(frame[t].size)
        /\ FreeOld
        /\ Goto(t, "allocSrc")
        /\ UNCHANGED <<frame, reply, asked>>
  /\ UNCHANGED <<filt, hSrc, hDst>>

\* Mutant of Allocated: the old heap is not released.
AllocatedLeak(new, bytes, src, dst) ==
  [h \in DOMAIN heap \cup {new} |->
     IF h = new THEN [bytes |-> bytes, data |-> {}] ELSE heap[h]]

\* The contents of memory once the two members are src and dst, of which new
\* has just been made with the given number of bytes.
Allocated(new, bytes, src, dst) ==
  [h \in Heaps(src, dst, hSrc, hDst) |->
     IF h = new THEN [bytes |-> bytes, data |-> {}] ELSE heap[h]]

\* A heap that does not exist, and at which no thread still has a pointer.
Unused(h) ==
  /\ h \notin DOMAIN heap
  /\ \A t \in Thread : h \notin {frame[t].raw, frame[t].fsrc.base, frame[t].fdst.base}

AllocSrc(t) ==
  /\ pc[t] = "allocSrc"
  /\ \/ \E h \in Heap :
          /\ Unused(h)
          /\ mSrc' = h
          /\ heap' = Allocated(h, Bytes(frame[t].size), h, mDst)
          /\ Goto(t, "allocDst")
          /\ UNCHANGED <<frame, reply, asked>>
     \/ /\ AllocMayFail
        /\ mSrc' = NULL
        /\ heap' = Restrict(heap, Heaps(NULL, mDst, hSrc, hDst))
        /\ Return(t, "setSize", -1)
        /\ asked' = [asked EXCEPT ![t] = 0]
  /\ UNCHANGED <<mSize, mDst, filt, hSrc, hDst>>

AllocDst(t) ==
  /\ pc[t] = "allocDst"
  /\ \/ \E h \in Heap :
          /\ Unused(h)
          /\ mDst' = h
          /\ heap' = Allocated(h, Bytes(frame[t].size), mSrc, h)
          /\ Goto(t, "commit")
          /\ UNCHANGED <<mSrc, frame, reply, asked>>
     \/ /\ AllocMayFail
        /\ mDst' = NULL
        /\ mSrc' = NULL
        /\ heap' = Restrict(heap, Heaps(NULL, NULL, hSrc, hDst))
        /\ Return(t, "setSize", -1)
        /\ asked' = [asked EXCEPT ![t] = 0]
  /\ UNCHANGED <<mSize, filt, hSrc, hDst>>

Commit(t) ==
  /\ pc[t] = "commit"
  /\ mSize' = frame[t].size
  /\ Return(t, "setSize", 0)
  /\ asked' = [asked EXCEPT ![t] = frame[t].size]
  /\ UNCHANGED <<mSrc, mDst, filt, heap, hSrc, hDst>>
-----------------------------------------------------------------------------
\* getSrc(), getDst(): the copy of a strong pointer reads it, then counts the
\* reference.  A thread that counts a reference of a heap that is gone by then
\* faults: it has no further step.  The client's proxy turns a reply that is
\* not NO_ERROR into a null handle.

GetSrc(c) ==
  /\ pc[c] = "getSrc"
  /\ frame' = [frame EXCEPT ![c].raw = mSrc]
  /\ Goto(c, "takeSrc")
  /\ UNCHANGED <<service, heap, client>>

TakeSrc(c) ==
  /\ pc[c] = "takeSrc"
  /\ frame[c].raw \in Live \cup {NULL}
  /\ hSrc' = [hSrc EXCEPT ![c] = frame[c].raw]
  /\ heap' = Restrict(heap, Heaps(mSrc, mDst, hSrc', hDst))
  /\ Return(c, "getSrc", IF frame[c].raw = NULL THEN -1 ELSE 0)
  /\ UNCHANGED <<service, asked, hDst>>

GetDst(c) ==
  /\ pc[c] = "getDst"
  /\ frame' = [frame EXCEPT ![c].raw = mDst]
  /\ Goto(c, "takeDst")
  /\ UNCHANGED <<service, heap, client>>

TakeDst(c) ==
  /\ pc[c] = "takeDst"
  /\ frame[c].raw \in Live \cup {NULL}
  /\ hDst' = [hDst EXCEPT ![c] = frame[c].raw]
  /\ heap' = Restrict(heap, Heaps(mSrc, mDst, hSrc, hDst'))
  /\ Return(c, "getDst", IF frame[c].raw = NULL THEN -1 ELSE 0)
  /\ UNCHANGED <<service, asked, hSrc>>

Reset(c) ==
  /\ pc[c] = "reset"
  /\ filt' = {}
  /\ Return(c, "reset", 0)
  /\ UNCHANGED <<mSize, mSrc, mDst, heap, asked, hSrc, hDst>>
-----------------------------------------------------------------------------
\* process(): the guard; the base and the stride of each buffer; the length
\* and the filter states that the conversion starts from; and its results.

NoBuffers == mSize = 0 \/ mSrc = NULL \/ mDst = NULL

Process(c) ==
  /\ pc[c] = "process"
  /\ \/ /\ NoBuffers
        /\ Return(c, "process", -1)
     \/ /\ ~NoBuffers
        /\ Goto(c, "fsrc")
        /\ UNCHANGED <<frame, reply>>
  /\ UNCHANGED <<service, heap, asked, hSrc, hDst>>

FSrc(c) ==
  /\ pc[c] = "fsrc"
  /\ frame' = [frame EXCEPT ![c].fsrc = [base |-> mSrc, stride |-> mSize]]
  /\ Goto(c, "fdst")
  /\ UNCHANGED <<service, heap, client>>

\* Mutant of FDst: the source buffer, copied and not changed.
FDstOfSrc(c) ==
  /\ pc[c] = "fdst"
  /\ frame' = [frame EXCEPT ![c].fdst = [base |-> mSrc, stride |-> mSize]]
  /\ Goto(c, "filter")
  /\ UNCHANGED <<service, heap, client>>

FDst(c) ==
  /\ pc[c] = "fdst"
  /\ frame' = [frame EXCEPT ![c].fdst = [base |-> mDst, stride |-> mSize]]
  /\ Goto(c, "filter")
  /\ UNCHANGED <<service, heap, client>>

Filter(c) ==
  /\ pc[c] = "filter"
  /\ frame' = [frame EXCEPT ![c].n = mSize, ![c].z = filt]
  /\ Goto(c, "store")
  /\ UNCHANGED <<service, heap, client>>

\* A thread that touches a heap that is gone faults: it has no further step.
Store(c) ==
  /\ pc[c] = "store"
  /\ {frame[c].fsrc.base, frame[c].fdst.base} \subseteq Live
  /\ LET out == frame[c].z \cup heap[frame[c].fsrc.base].data
     IN  /\ heap' = [heap EXCEPT ![frame[c].fdst.base].data = out]
         /\ filt' = out
  /\ Return(c, "process", 0)
  /\ UNCHANGED <<mSize, mSrc, mDst, asked, hSrc, hDst>>
-----------------------------------------------------------------------------
\* What a client does between two calls: it fills the source buffer, or it
\* goes away and its handles with it.

Fill(c, b) ==
  /\ pc[c] = "idle"
  /\ hSrc[c] # NULL
  /\ heap' = [heap EXCEPT ![hSrc[c]].data = {b}]
  /\ reply' = [reply EXCEPT ![c] = NoReply]
  /\ UNCHANGED <<service, pc, frame, asked, hSrc, hDst>>

Write(c) == \E b \in Block : Fill(c, b)

Exit(c) ==
  /\ Published
  /\ pc[c] = "idle"
  /\ hSrc' = [hSrc EXCEPT ![c] = NULL]
  /\ hDst' = [hDst EXCEPT ![c] = NULL]
  /\ heap' = Restrict(heap, Heaps(mSrc, mDst, hSrc', hDst'))
  /\ reply' = [reply EXCEPT ![c] = NoReply]
  /\ asked' = [asked EXCEPT ![c] = 0]
  /\ UNCHANGED <<service, pc, frame>>

Resize(t) == SetSize(t) \/ AllocSrc(t) \/ AllocDst(t) \/ Commit(t)
Handle(c) == GetSrc(c) \/ TakeSrc(c) \/ GetDst(c) \/ TakeDst(c)
Convert(c) == Process(c) \/ FSrc(c) \/ FDst(c) \/ Filter(c) \/ Store(c)

Next ==
  \/ \E t \in Thread : Resize(t)
  \/ \E c \in Client : \/ Handle(c) \/ Reset(c) \/ Convert(c)
                       \/ Call(c) \/ Write(c) \/ Exit(c)

Spec == Init /\ [][Next]_vars
-----------------------------------------------------------------------------
Buffer == [base : Heap \cup {NULL}, stride : Nat]
Frame == [size : Nat, raw : Heap \cup {NULL}, fsrc : Buffer, fdst : Buffer,
          n : Nat, z : SUBSET Block]
Reply == [op : Op \cup {"none"}, ret : {0, -1}, status : {"NO_ERROR", "BAD_VALUE"}]

\* Every variable has its type, and exactly the heaps that a strong pointer
\* refers to exist: the reference counting of sp<>, sp::operator= included.
TypeOK ==
  /\ mSize \in Nat
  /\ mSrc \in Heap \cup {NULL}
  /\ mDst \in Heap \cup {NULL}
  /\ filt \in SUBSET Block
  /\ hSrc \in [Client -> Heap \cup {NULL}]
  /\ hDst \in [Client -> Heap \cup {NULL}]
  /\ heap \in [Live -> [bytes : Nat, data : SUBSET Block]]
  /\ pc \in [Thread -> Label]
  /\ frame \in [Thread -> Frame]
  /\ reply \in [Thread -> Reply]
  /\ asked \in [Thread -> Nat]

Fits(buffer, n) ==
  /\ buffer.base \in Live
  /\ (3 * buffer.stride + n) * SampleBytes <= heap[buffer.base].bytes

\* While process() runs the conversion, the last sample of the last channel,
\* fsrc[3][n - 1] and fdst[3][n - 1], lies in a heap that still exists.
ProcessInBounds ==
  \A c \in Client : pc[c] = "store" =>
    /\ Fits(frame[c].fsrc, frame[c].n)
    /\ Fits(frame[c].fdst, frame[c].n)

\* getSrc() and getDst() never count a reference of a heap that is gone.
HandleLive ==
  \A c \in Client : pc[c] \in {"takeSrc", "takeDst"} =>
    frame[c].raw \in Live \cup {NULL}

\* The buffers that the members refer to hold mSize samples per channel, also
\* between the statements of setSize() and after a failed allocation.
BuffersFit ==
  \A h \in {mSrc, mDst} \ {NULL} :
    heap[h].bytes >= mSize * CHANNELS * SampleBytes

\* The handle that a client receives is to a heap that holds the size it last
\* asked for with success (the test client checks this of src and dst).
HandleFits ==
  \A c \in Client :
    LET fits(h) == /\ h \in Live
                   /\ heap[h].bytes >= asked[c] * CHANNELS * SampleBytes
    IN  reply[c].status = "NO_ERROR" =>
          /\ reply[c].op = "getSrc" => fits(hSrc[c])
          /\ reply[c].op = "getDst" => fits(hDst[c])

\* The constructor's setSize() has not failed, or has not ended yet: its result,
\* which the constructor does not look at, stays Main's last reply.
Constructed == reply[Main].ret = 0

\* Clients that ask for at most the default size, after a constructor that was
\* not refused memory: process() stays within heaps that exist.
SharedInBounds == Constructed => ProcessInBounds

\* Such clients never count a reference of a heap that is gone.
SharedHandleLive == Constructed => HandleLive

\* A client whose last setSize() was answered NO_ERROR has not been refused a handle.
NotRefused ==
  \A c \in Client :
    asked[c] > 0 /\ reply[c].op \in {"getSrc", "getDst"} =>
      reply[c].status = "NO_ERROR"

\* Once setSize() has answered NO_ERROR to such a client, getSrc() and getDst()
\* give it a handle (the test client: "Failed to get src buf"): provided that
\* mSize, which nothing has initialized, is at first less than the default size,
\* and that the constructor was not refused memory.
HandleAvailable == mSize < SAMPLE_NUMBER => [](Constructed => NotRefused)

\* A client that holds the current buffers finds in dst, when process() has
\* returned 0, the conversion of what it wrote into src.
Converted ==
  \A c \in Client :
    /\ reply[c].op = "process" /\ reply[c].ret = 0
    /\ hSrc[c] = mSrc /\ hDst[c] = mDst
    => heap[hSrc[c]].data \subseteq heap[hDst[c]].data

\* setSize() never makes the buffers smaller.
SizeNeverShrinks == [][mSize' >= mSize]_vars

\* The same as long as the constructor's setSize() has not failed.  After it has,
\* two clients may both find the size too small, and the smaller commit last.
SharedNeverShrinks == [][Constructed' => mSize' >= mSize]_vars

\* The size that the test client checks for: as many bytes as it asked for
\* samples, a quarter of what it then writes ("Got wrong src size").
HandleChecked ==
  \A c \in Client : reply[c].status = "NO_ERROR" /\ reply[c].op = "getSrc" =>
    heap[hSrc[c]].bytes >= asked[c] * CHANNELS
=============================================================================
