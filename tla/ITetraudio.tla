----------------------------- MODULE ITetraudio -----------------------------
(***************************************************************************)
(* What the interface ITetraudio promises to a program that is its only    *)
(* client: what the program sees of the service through replies and        *)
(* through the two buffers that it maps, and no more.  TetraudioOneClient  *)
(* shows that TetraudioService implements it.                              *)
(*                                                                         *)
(* A buffer as the program sees it: whether the program holds it and it is *)
(* the one that the service uses now, its bytes, and the blocks that its   *)
(* samples depend on.  A call takes effect at once, when it returns; but a *)
(* setSize() that exceeds the size may take the buffers out of use earlier.*)
(***************************************************************************)
EXTENDS Integers

CONSTANTS
  Block,           \* what the program may write into the source buffer
  DefaultSize,     \* SAMPLE_NUMBER
  BytesPerSample   \* of all channels together

VARIABLES
  pending, want,  \* the call in progress, and the size that it asks for
  reply,
  size,           \* up to which setSize() has nothing to do
  available,      \* are there buffers?
  heard,          \* the blocks that the filters have heard since reset()
  src, dst        \* the buffers that the program holds

state == <<size, available, heard, src, dst>>
vars == <<pending, want, reply, state>>

NoBuffer == [use |-> "none", bytes |-> 0, data |-> {}]

\* The buffer is no longer the one in use.
Retired(buffer) ==
  IF buffer.use = "current" THEN [buffer EXCEPT !.use = "old"] ELSE buffer

Init ==
  /\ pending = "start" /\ want = 0
  /\ reply = [op |-> "none", ret |-> 0, status |-> "NO_ERROR"]
  /\ size \in Nat
  /\ available = FALSE
  /\ heard = {}
  /\ src = NoBuffer /\ dst = NoBuffer

Return(op, ret) ==
  /\ pending = op
  /\ pending' = "none"
  /\ want' = 0
  /\ reply' = [op |-> op, ret |-> ret,
               status |-> IF ret = 0 \/ op = "process" THEN "NO_ERROR" ELSE "BAD_VALUE"]

\* The service starts, and is found when it has its buffers or has failed to
\* have them: then its size is what it was.
Start ==
  /\ pending = "start"
  /\ pending' \in {"start", "none"}
  /\ available' \in BOOLEAN
  /\ \/ size' = size
     \/ size' = DefaultSize /\ available'
  /\ UNCHANGED <<want, reply, heard, src, dst>>

Call ==
  /\ pending = "none"
  /\ \/ pending' = "setSize" /\ want' \in Nat
     \/ pending' \in {"getSrc", "getDst", "reset", "process"} /\ want' = 0
  /\ reply' = [op |-> "none", ret |-> 0, status |-> "NO_ERROR"]
  /\ UNCHANGED state

\* setSize(): there is nothing to do; or the buffers are replaced; or there
\* are none left.
Enough ==
  /\ want <= size
  /\ Return("setSize", 0)
  /\ UNCHANGED state

Renew ==
  /\ pending = "setSize" /\ want > size
  /\ src' \in {src, Retired(src)}
  /\ dst' \in {dst, Retired(dst)}
  /\ available' \in BOOLEAN
  /\ UNCHANGED <<pending, want, reply, size, heard>>

Renewed ==
  /\ want > size
  /\ available /\ src.use # "current" /\ dst.use # "current"
  /\ Return("setSize", 0)
  /\ size' = want
  /\ UNCHANGED <<available, heard, src, dst>>

NoMemory ==
  /\ want > size
  /\ Return("setSize", -1)
  /\ available' = FALSE
  /\ src' = Retired(src)
  /\ dst' \in {dst, Retired(dst)}
  /\ UNCHANGED <<size, heard>>

\* What the program gets when it asks for a buffer: the one it has, if that is
\* in use, or one that is large enough.
Granted(old, new) ==
  IF old.use = "current" THEN new = old
  ELSE /\ new.use = "current"
       /\ new.bytes >= size * BytesPerSample
       /\ new.data \subseteq Block

\* getSrc(): if there are buffers, it succeeds.
GetSrc ==
  /\ \/ available /\ Return("getSrc", 0) /\ Granted(src, src')
     \/ ~available /\ Return("getSrc", -1) /\ src' = NoBuffer
  /\ UNCHANGED <<size, available, heard, dst>>

\* getDst(): the same, but a buffer may be left over after a failed setSize().
GetDst ==
  /\ \/ Return("getDst", 0) /\ Granted(dst, dst')
     \/ ~available /\ Return("getDst", -1) /\ dst' = NoBuffer
  /\ UNCHANGED <<size, available, heard, src>>

Reset ==
  /\ Return("reset", 0)
  /\ heard' = {}
  /\ UNCHANGED <<size, available, src, dst>>

\* process(): what is in the source is heard, and fills the destination; the
\* other buffers that the program holds are left alone.
Process ==
  /\ available /\ size > 0
  /\ Return("process", 0)
  /\ \E new \in IF src.use = "current" THEN {src.data} ELSE SUBSET Block : heard' = heard \cup new
  /\ dst' = IF dst.use = "current" THEN [dst EXCEPT !.data = heard'] ELSE dst
  /\ UNCHANGED <<size, available, src>>

CannotProcess ==
  /\ ~available \/ size = 0
  /\ Return("process", -1)
  /\ UNCHANGED state

\* The program itself.
Write(b) ==
  /\ pending = "none"
  /\ src.use # "none"
  /\ src' = [src EXCEPT !.data = {b}]
  /\ reply' = [op |-> "none", ret |-> 0, status |-> "NO_ERROR"]
  /\ UNCHANGED <<pending, want, size, available, heard, dst>>

Exit ==
  /\ pending = "none"
  /\ src' = NoBuffer /\ dst' = NoBuffer
  /\ reply' = [op |-> "none", ret |-> 0, status |-> "NO_ERROR"]
  /\ UNCHANGED <<pending, want, size, available, heard>>

SetSize == Enough \/ Renew \/ Renewed \/ NoMemory

Next ==
  \/ Start \/ SetSize \/ GetSrc \/ GetDst \/ Reset \/ Process \/ CannotProcess
  \/ Call
  \/ \E b \in Block : Write(b)
  \/ Exit

Spec == Init /\ [][Next]_vars
=============================================================================
