------------------------------ MODULE Convol44 ------------------------------
(***************************************************************************)
(* The partitioned convolution of four inputs into four outputs, class     *)
(* Convol44 (upstream/tetraproc-0.8.6/source/convol44.cc).                 *)
(*                                                                         *)
(* A partition consists of mode fragments, and process() is called once    *)
(* for each fragment.  It spreads the transforms and multiplications of a  *)
(* partition over the calls, and reuses its buffers meanwhile.  The unit   *)
(* of the model is the fragment: <<j, t>> is the one that was written for  *)
(* input j before call t, and the transform of a partition is the sequence *)
(* of its fragments.                                                       *)
(*                                                                         *)
(* The product of a fragment x and fragment i of a response is two         *)
(* fragments long: its halves, the "head" and the "tail", are the terms of *)
(* which all later buffers hold sums.  A sum is the set of its terms;      *)
(* doubled collects those that have been added to a sum that had them.     *)
(***************************************************************************)
EXTENDS Integers

CONSTANTS
  MaxPart,   \* bound on the number of partitions, _npar
  Matrices,  \* the sets of pairs <<input, output>> that may have a response
  Calls      \* bound on the calls of process() since the last reset()

Channel == 0 .. 3
Silence == <<0, 0>>

ASSUME Convol44Assumption ==
  /\ MaxPart \in Nat \ {0}
  /\ Matrices \subseteq SUBSET (Channel \X Channel)
  /\ Calls \in Nat

VARIABLES
  mode, npar, conv,  \* what the constructor and set_conv() set
  inp, fwd,          \* _inp_buff and _fwd_buff
  md, op1, op2,      \* _md1_buff and _md2_buff, _op1_buff, _op2_buff
  wr, rd,            \* _wr_ptr; _rd_ptr, relative to each output's part of op2
  ifrag, ipart,
  n,                 \* the number of calls
  doubled            \* the terms that have been added twice

config == <<mode, npar, conv>>
buffers == <<inp, fwd, md, op1, op2, doubled>>
vars == <<config, buffers, wr, rd, ifrag, ipart, n>>

Part == 0 .. mode - 1       \* the fragments of a partition
Part2 == 0 .. 2 * mode - 1  \* those of a transform

NoInput == [c \in 0 .. 5 * mode - 1 |-> Silence]
NoTransforms == [j \in Channel |-> [p \in 0 .. npar - 1 |-> [a \in Part |-> Silence]]]
NoProducts == [b \in 1 .. 2 |-> {}]
NoOutput == [k \in Channel |-> [f \in Part2 |-> {}]]
LastFragments == [i \in Channel |-> (i + 1) * mode - 1]

Init ==
  /\ mode \in {1, 2, 4}
  /\ npar \in 1 .. MaxPart
  /\ conv \in Matrices
  /\ inp = NoInput
  /\ fwd = NoTransforms
  /\ md = NoProducts
  /\ op1 = NoOutput /\ op2 = NoOutput
  /\ wr = LastFragments /\ rd = 0
  /\ ifrag = 0 /\ ipart = 0
  /\ n = 0 /\ doubled = {}

\* reset ()
Reset ==
  /\ inp' = NoInput
  /\ fwd' = NoTransforms
  /\ md' = NoProducts
  /\ op1' = NoOutput /\ op2' = NoOutput
  /\ wr' = LastFragments /\ rd' = 0
  /\ ifrag' = 0 /\ ipart' = 0
  /\ n' = 0 /\ doubled' = {}
  /\ UNCHANGED config
-----------------------------------------------------------------------------
\* The operations on the buffers, s being a record of these.

\* fwdfft (j)
Forward(s, j) ==
  [s EXCEPT
    !.fwd[j][s.ipart] = [a \in Part |-> s.inp[j * mode + a]],
    !.inp = [c \in DOMAIN @ |->
               IF c \in (j + 1) * mode .. (j + 2) * mode - 1 THEN Silence ELSE @[c]]]

\* The place in the ring of the transform made g partitions ago.
Slot(g, p) == IF g + p >= npar THEN g + p - npar ELSE g + p

\* The terms of the product of a transform x and partition g of the response h,
\* each with the fragment of the result it belongs to.
Product(x, h, g) ==
  LET sounding == {a \in Part : x[a] # Silence}
  IN  { <<a + c, <<x[a], h, g * mode + c, "head">>>> : a \in sounding, c \in Part }
      \cup
      { <<a + c + 1, <<x[a], h, g * mode + c, "tail">>>> : a \in sounding, c \in Part }

\* What input j adds to output k.
Products(s, j, k) ==
  IF <<j, k>> \in conv
  THEN UNION {Product(s.fwd[j][Slot(g, s.ipart)], <<j, k>>, g) : g \in 0 .. npar - 1}
  ELSE {}

\* mulacc (j, k, _md<b>_buff)
MulAcc(s, j, k, b) ==
  [s EXCEPT !.md[b] = @ \cup Products(s, j, k),
            !.doubled = @ \cup (Products(s, j, k) \cap s.md[b])]

\* Fragment f of the inverse transform of a sum of products.
Inverse44(sum, f) == {pr[2] : pr \in {pr \in sum : pr[1] = f}}

\* Mutant of Invert: the products are not cleared.
InvertKept(s, k, b) ==
  [s EXCEPT
    !.op1[k] = [f \in Part2 |-> IF f \in Part
                                THEN Inverse44(s.md[b], f) \cup s.op2[k][f + mode]
                                ELSE Inverse44(s.md[b], f)],
    !.doubled = @ \cup UNION {Inverse44(s.md[b], f) \cap s.op2[k][f + mode] : f \in Part}]

\* invfft (k, _md<b>_buff)
Invert(s, k, b) ==
  [s EXCEPT
    !.op1[k] = [f \in Part2 |-> IF f \in Part
                                THEN Inverse44(s.md[b], f) \cup s.op2[k][f + mode]
                                ELSE Inverse44(s.md[b], f)],
    !.md[b] = {},
    !.doubled = @ \cup UNION {Inverse44(s.md[b], f) \cap s.op2[k][f + mode] : f \in Part}]
-----------------------------------------------------------------------------
\* process()

\* The inputs j + 1 and j are dealt with together, and the outputs k + 1 and k,
\* in _md2_buff and _md1_buff.
Forwards(s, j) == Forward(Forward(s, j + 1), j)
MulAccs(s, j, k) ==
  MulAcc(MulAcc(MulAcc(MulAcc(s, j + 1, k + 1, 2), j + 1, k, 1), j, k + 1, 2), j, k, 1)
Inverts(s, k) == Invert(Invert(s, k + 1, 2), k, 1)

AllForwards(s) == Forwards(Forwards(s, 2), 0)
AllMulAccs(s, k) == MulAccs(MulAccs(s, 2, k), 0, k)

\* The switch on _mode and _ifrag.
Work(s) ==
  CASE mode = 1 -> Inverts(AllMulAccs(Inverts(AllMulAccs(AllForwards(s), 2), 2), 0), 0)
    [] mode = 2 /\ ifrag = 0 -> AllMulAccs(AllForwards(s), 2)
    [] mode = 2 /\ ifrag = 1 -> Inverts(AllMulAccs(Inverts(s, 2), 0), 0)
    [] mode = 4 /\ ifrag = 0 -> MulAccs(Forwards(s, 2), 2, 2)
    [] mode = 4 /\ ifrag = 1 -> MulAccs(Forwards(s, 0), 0, 2)
    [] mode = 4 /\ ifrag = 2 -> MulAccs(Inverts(s, 2), 2, 0)
    [] mode = 4 /\ ifrag = 3 -> Inverts(MulAccs(s, 0, 0), 0)

\* Where the next fragments are to be written; with four fragments the first of
\* a partition is put aside until the previous partition has been transformed.
NextWrite ==
  CASE mode = 1 -> wr
    [] mode > 1 /\ ifrag = 0 ->
         [i \in Channel |-> IF mode = 2 THEN i * mode ELSE 4 * mode + i]
    [] mode = 4 /\ ifrag = 1 -> [i \in Channel |-> i * mode + 1]
    [] OTHER -> [i \in Channel |-> wr[i] + 1]

\* The copy of the fragments that were put aside.
Copied(buff) ==
  IF mode = 4 /\ ifrag = 1
  THEN [c \in DOMAIN buff |->
          IF \E i \in Channel : c = i * mode
          THEN buff[wr[CHOOSE i \in Channel : c = i * mode]] ELSE buff[c]]
  ELSE buff

\* What the caller writes: a fragment for each input.
Written ==
  [c \in DOMAIN inp |-> IF \E i \in Channel : wr[i] = c
                        THEN <<CHOOSE i \in Channel : wr[i] = c, n + 1>> ELSE inp[c]]

\* The caller writes a fragment for each input and calls process().
Process ==
  /\ n < Calls
  /\ LET p == IF ifrag # 0 THEN ipart ELSE IF ipart = 0 THEN npar - 1 ELSE ipart - 1
         s == Work([inp |-> Written, fwd |-> fwd, md |-> md, op1 |-> op1, op2 |-> op2,
                    doubled |-> doubled, ipart |-> p])
         last == ifrag + 1 = mode
     IN  /\ ipart' = p
         /\ inp' = Copied(s.inp)
         /\ fwd' = s.fwd
         /\ md' = s.md
         /\ op1' = IF last THEN s.op2 ELSE s.op1
         /\ op2' = IF last THEN s.op1 ELSE s.op2
         /\ doubled' = s.doubled
         /\ rd' = IF last THEN 0 ELSE rd + 1
         /\ ifrag' = IF last THEN 0 ELSE ifrag + 1
  /\ wr' = NextWrite
  /\ n' = n + 1
  /\ UNCHANGED config

Next == Process \/ Reset

Spec == Init /\ [][Next]_vars
-----------------------------------------------------------------------------
\* What the caller reads from rd_ptr (k).
Output(k) == op2[k][rd]

\* The terms of fragment t of the convolution of the inputs since the last reset
\* with the responses of output k.
Convolution(k, t) ==
  LET halves(t1, half) ==
        { <<<<j, t1 - i>>, <<j, k>>, i, half>> :
            j \in {j \in Channel : <<j, k>> \in conv},
            i \in {i \in 0 .. npar * mode - 1 : t1 - i >= 1} }
  IN  halves(t, "head") \cup halves(t - 1, "tail")

\* The sound of the fragment that was written for call t leaves after this many
\* further calls.
Latency == 2 * (mode - 1)

\* However the work is spread over the calls, every output is the convolution of
\* all inputs written since the last reset(), each fragment of the input with
\* each fragment of the response once, and all of it in time.
Convolves ==
  /\ doubled = {}
  /\ \A k \in Channel : Output(k) = Convolution(k, n - Latency)
=============================================================================
