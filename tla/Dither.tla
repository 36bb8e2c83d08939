------------------------------- MODULE Dither -------------------------------
(***************************************************************************)
(* The dither of one channel of a 16-bit file (class Dither of tetraproc,  *)
(* dither.cc), called by Audiofile::write() block after block.             *)
(*                                                                         *)
(* The triangular dither subtracts the random number of the previous       *)
(* sample; the noise shaping of Lipshitz feeds back the errors of the last *)
(* five; the rectangular one has no memory.  A value is abstracted to the  *)
(* number of the sample that it belongs to, counted from 1; 0 stands for   *)
(* the zeros of reset().  A file is dithered in one way from start to end. *)
(***************************************************************************)
EXTENDS Integers

CONSTANTS
  SIZE,        \* of the memory of errors, to which four more belong
  Kind,        \* of dithering; "none" is for the files that are not dithered
  MaxBlock,    \* samples per call: BUFFSIZE of Audiofile
  MaxSamples   \* bound: samples in all

ASSUME DitherAssumption ==
  /\ SIZE \in Nat /\ SIZE >= 4
  /\ Kind \subseteq {"none", "rectangular", "triangular", "lipschitz"}
  /\ MaxBlock \in Nat /\ MaxSamples \in Nat

VARIABLES
  kind,   \* of dithering
  err,    \* _err: the memory
  ind,    \* _ind: where it begins
  local,  \* the local variable of the running call: i, or r1
  nsam,   \* how many samples it has still to convert; 0: no call is running
  count   \* how many samples have been converted

dither == <<kind, err, ind, local, nsam, count>>

\* Dither::reset()
Reset ==
  /\ kind \in Kind
  /\ err = [p \in 0 .. SIZE + 3 |-> 0]
  /\ ind = SIZE - 1
  /\ local = 0
  /\ nsam = 0
  /\ count = 0

\* A call begins, with i = _ind or r1 = *_err.
Begin(k) ==
  /\ kind # "none" /\ nsam = 0
  /\ count + k <= MaxSamples
  /\ nsam' = k
  /\ local' = IF kind = "lipschitz" THEN ind ELSE err[0]
  /\ UNCHANGED <<kind, err, ind, count>>

Rectangular ==
  /\ kind = "rectangular" /\ nsam > 0
  /\ nsam' = nsam - 1
  /\ count' = count + 1
  /\ UNCHANGED <<kind, err, ind, local>>

\* Mutant of Triangular: the last random number is not kept for the next call.
TriangularForgets ==
  /\ kind = "triangular" /\ nsam > 0
  /\ local' = count + 1
  /\ nsam' = nsam - 1
  /\ count' = count + 1
  /\ UNCHANGED <<kind, err, ind>>

\* After its last sample a call stores *_err = r1, or below _ind = i.
Triangular ==
  /\ kind = "triangular" /\ nsam > 0
  /\ local' = count + 1
  /\ nsam' = nsam - 1
  /\ count' = count + 1
  /\ err' = IF nsam = 1 THEN [err EXCEPT ![0] = count + 1] ELSE err
  /\ UNCHANGED <<kind, ind>>

\* Mutant of Shifted: the last of the four is forgotten.
ShiftedThree ==
  [p \in 0 .. SIZE + 3 |-> IF p \in SIZE .. SIZE + 2 THEN err[p - SIZE] ELSE err[p]]

\* The memory when its beginning has been copied behind its end.
Shifted ==
  [p \in 0 .. SIZE + 3 |-> IF p >= SIZE THEN err[p - SIZE] ELSE err[p]]

\* The error of the sample is put in front, or, when there is no room left, at
\* the end of the memory, in front of the copies.
Lipschitz ==
  /\ kind = "lipschitz" /\ nsam > 0
  /\ nsam' = nsam - 1
  /\ count' = count + 1
  /\ \/ /\ local > 0
        /\ local' = local - 1
        /\ err' = [err EXCEPT ![local - 1] = count + 1]
     \/ /\ local = 0
        /\ local' = SIZE - 1
        /\ err' = [Shifted EXCEPT ![SIZE - 1] = count + 1]
  /\ ind' = IF nsam = 1 THEN local' ELSE ind
  /\ UNCHANGED kind

\* One sample of the running call.
Sample == Rectangular \/ Triangular \/ Lipschitz

\* The callers of one object: any number of calls, of any lengths.
DitherNext == Sample \/ \E k \in 1 .. MaxBlock : Begin(k)

DitherSpec == Reset /\ [][DitherNext]_dither
-----------------------------------------------------------------------------
DitherTypeOK ==
  /\ kind \in Kind
  /\ err \in [0 .. SIZE + 3 -> Nat]
  /\ ind \in 0 .. SIZE - 1
  /\ local \in Nat /\ (kind = "lipschitz" => local \in 0 .. SIZE - 1)
  /\ nsam \in Nat
  /\ count \in Nat

\* The sample n before the next one, 0 if there is none.
Past(n) == IF n > count THEN 0 ELSE count - n

Start == IF nsam > 0 THEN local ELSE ind

\* When a sample is shaped, p[0] to p[4] are the errors of the last five
\* samples, the last one first, over the ends of the memory and of the blocks.
LastFive ==
  kind = "lipschitz" => \A n \in 0 .. 4 : err[Start + n] = Past(n)

\* When a sample is dithered, r1 is the random number of the sample before, also
\* when that was the last one of the block before.
LastRandom ==
  kind = "triangular" => (IF nsam > 0 THEN local ELSE err[0]) = count
=============================================================================
