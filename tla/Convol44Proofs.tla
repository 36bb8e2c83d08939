--------------------------- MODULE Convol44Proofs ---------------------------
(***************************************************************************)
(* The convolution is correct for every number of partitions, every set of *)
(* responses and any number of calls.                                      *)
(***************************************************************************)
EXTENDS Convol44, TLAPS

\* Fragment t of input j, if there is one, and the partition that begins with it.
Frag(j, t) == IF t >= 1 THEN <<j, t>> ELSE Silence
Partition(j, b) == [a \in Part |-> Frag(j, b + a)]

\* What the inputs J add to output k in the round whose last partition begins with
\* fragment b; and what this round leaves in the output buffer.
Terms(j, k, b) ==
  IF <<j, k>> \in conv
  THEN UNION {Product(Partition(j, b - g * mode), <<j, k>>, g) : g \in 0 .. npar - 1}
  ELSE {}

TermsOf(J, k, b) == UNION {Terms(j, k, b) : j \in J}

Result(k, b) ==
  [f \in Part2 |-> IF f \in Part
                   THEN Inverse44(TermsOf(Channel, k, b), f)
                        \cup Inverse44(TermsOf(Channel, k, b - mode), f + mode)
                   ELSE Inverse44(TermsOf(Channel, k, b), f)]

Mode == mode \in {1, 2, 4} /\ npar \in Nat \ {0}
-----------------------------------------------------------------------------
\* The terms of a product.
TermAt(z, x, h, g, a, c) ==
  \/ z = <<a + c, <<x, h, g * mode + c, "head">>>>
  \/ z = <<a + c + 1, <<x, h, g * mode + c, "tail">>>>

LEMMA InProduct ==
  ASSUME NEW x, NEW h, NEW g, NEW z
  PROVE  z \in Product(x, h, g) <=>
           \E a \in Part, c \in Part : x[a] # Silence /\ TermAt(z, x[a], h, g, a, c)
BY DEF Product, TermAt

LEMMA InTerms ==
  ASSUME NEW j, NEW k, NEW b, NEW z
  PROVE  z \in Terms(j, k, b) <=>
           /\ <<j, k>> \in conv
           /\ \E g \in 0 .. npar - 1, a \in Part, c \in Part :
                /\ Partition(j, b - g * mode)[a] # Silence
                /\ TermAt(z, Partition(j, b - g * mode)[a], <<j, k>>, g, a, c)
<1>1. z \in Terms(j, k, b) <=>
        /\ <<j, k>> \in conv
        /\ \E g \in 0 .. npar - 1 : z \in Product(Partition(j, b - g * mode), <<j, k>>, g)
  BY DEF Terms
<1> QED
  BY <1>1, InProduct

LEMMA FragSounds ==
  ASSUME NEW j, NEW t \in Int PROVE Frag(j, t) # Silence <=> t >= 1
BY DEF Frag, Silence

\* A term of a round, by the numbers of the two fragments it is made of.
LEMMA InRound ==
  ASSUME Mode, NEW j, NEW k, NEW b \in Int, NEW z
  PROVE  z \in Terms(j, k, b) <=>
           /\ <<j, k>> \in conv
           /\ \E g \in 0 .. npar - 1, a \in Part, c \in Part :
                /\ b - g * mode + a >= 1
                /\ TermAt(z, <<j, b - g * mode + a>>, <<j, k>>, g, a, c)
<1>1. ASSUME NEW g \in 0 .. npar - 1, NEW a \in Part
      PROVE  /\ Partition(j, b - g * mode)[a] = Frag(j, b - g * mode + a)
             /\ b - g * mode + a \in Int
  BY DEF Partition, Part, Mode
<1>2. ASSUME NEW g \in 0 .. npar - 1, NEW a \in Part
      PROVE  /\ Partition(j, b - g * mode)[a] # Silence <=> b - g * mode + a >= 1
             /\ b - g * mode + a >= 1 =>
                  Partition(j, b - g * mode)[a] = <<j, b - g * mode + a>>
  BY <1>1, FragSounds DEF Frag
<1> DEFINE has(y, g, a, c) == y[a] # Silence /\ TermAt(z, y[a], <<j, k>>, g, a, c)
<1>3. ASSUME NEW g \in 0 .. npar - 1, NEW a \in Part, NEW c \in Part
      PROVE  has(Partition(j, b - g * mode), g, a, c) <=>
               /\ b - g * mode + a >= 1
               /\ TermAt(z, <<j, b - g * mode + a>>, <<j, k>>, g, a, c)
  BY <1>2, Zenon
<1>4. z \in Terms(j, k, b) <=>
        /\ <<j, k>> \in conv
        /\ \E g \in 0 .. npar - 1, a \in Part, c \in Part :
             has(Partition(j, b - g * mode), g, a, c)
  BY InTerms, Zenon
<1> QED
  BY <1>3, <1>4, Zenon
-----------------------------------------------------------------------------
\* Fragment i of a response is fragment c of one partition g.
LEMMA Quotient ==
  ASSUME Mode, NEW i \in 0 .. npar * mode - 1
  PROVE  \E g \in 0 .. npar - 1, c \in Part : i = g * mode + c
<1>1. CASE mode = 1
  <2>1. i \in 0 .. npar - 1 /\ 0 \in Part /\ i = i * mode + 0
    BY <1>1 DEF Mode, Part
  <2> QED
    BY <2>1
<1>2. CASE mode = 2
  <2>1. /\ i \div 2 \in 0 .. npar - 1
        /\ i % 2 \in Part
        /\ i = (i \div 2) * mode + (i % 2)
    BY <1>2 DEF Mode, Part
  <2> QED
    BY <2>1
<1>3. CASE mode = 4
  <2>1. /\ i \div 4 \in 0 .. npar - 1
        /\ i % 4 \in Part
        /\ i = (i \div 4) * mode + (i % 4)
    BY <1>3 DEF Mode, Part
  <2> QED
    BY <2>1
<1> QED
  BY <1>1, <1>2, <1>3 DEF Mode

LEMMA SameFragment ==
  ASSUME Mode, NEW g1 \in Int, NEW g2 \in Int, NEW c1 \in Part, NEW c2 \in Part,
         g1 * mode + c1 = g2 * mode + c2
  PROVE  g1 = g2 /\ c1 = c2
<1>1. CASE mode = 1
  BY <1>1 DEF Mode, Part
<1>2. CASE mode = 2
  BY <1>2 DEF Mode, Part
<1>3. CASE mode = 4
  BY <1>3 DEF Mode, Part
<1> QED
  BY <1>1, <1>2, <1>3 DEF Mode

LEMMA InResponse ==
  ASSUME Mode, NEW g \in 0 .. npar - 1, NEW c \in Part
  PROVE  g * mode + c \in 0 .. npar * mode - 1
<1>1. CASE mode = 1
  BY <1>1 DEF Mode, Part
<1>2. CASE mode = 2
  BY <1>2 DEF Mode, Part
<1>3. CASE mode = 4
  BY <1>3 DEF Mode, Part
<1> QED
  BY <1>1, <1>2, <1>3 DEF Mode
-----------------------------------------------------------------------------
\* What a term is made of: a fragment of the input and one of the response.
Head(y, j, k, t, i) == y = <<<<j, t>>, <<j, k>>, i, "head">>
Tail(y, j, k, t, i) == y = <<<<j, t>>, <<j, k>>, i, "tail">>

\* Fragment a of partition g before that of the round with fragment c of partition g
\* of the response, in fragment f of the result.
Made(y, f, k, b, j, g, a, c) ==
  /\ <<j, k>> \in conv
  /\ b - g * mode + a >= 1
  /\ \/ f = a + c /\ Head(y, j, k, b - g * mode + a, g * mode + c)
     \/ f = a + c + 1 /\ Tail(y, j, k, b - g * mode + a, g * mode + c)

\* Fragment f of the inverse transform of a round.
LEMMA InInverse ==
  ASSUME Mode, NEW J, NEW k, NEW b \in Int, NEW f, NEW y
  PROVE  y \in Inverse44(TermsOf(J, k, b), f) <=>
           \E j \in J, g \in 0 .. npar - 1, a \in Part, c \in Part :
             Made(y, f, k, b, j, g, a, c)
<1> DEFINE T(j, g, a, c, z) == /\ <<j, k>> \in conv
                               /\ b - g * mode + a >= 1
                               /\ TermAt(z, <<j, b - g * mode + a>>, <<j, k>>, g, a, c)
<1>1. ASSUME NEW z
      PROVE  z \in TermsOf(J, k, b) <=>
               \E j \in J, g \in 0 .. npar - 1, a \in Part, c \in Part : T(j, g, a, c, z)
  <2>1. z \in TermsOf(J, k, b) <=> \E j \in J : z \in Terms(j, k, b)
    BY DEF TermsOf
  <2> QED
    BY <2>1, InRound, Zenon
<1> DEFINE U(j, g, a, c) == Made(y, f, k, b, j, g, a, c)
<1>2. ASSUME NEW j, NEW g, NEW a, NEW c
      PROVE  T(j, g, a, c, <<f, y>>) <=> U(j, g, a, c)
  BY DEF TermAt, Head, Tail, Made
<1>3. y \in Inverse44(TermsOf(J, k, b), f) <=>
        \E z \in TermsOf(J, k, b) : z[1] = f /\ y = z[2]
  BY DEF Inverse44
<1>4. ASSUME NEW z \in TermsOf(J, k, b)
      PROVE  z = <<z[1], z[2]>>
  <2>1. PICK j \in J, g \in 0 .. npar - 1, a \in Part, c \in Part : T(j, g, a, c, z)
    BY <1>1
  <2> QED
    BY <2>1 DEF TermAt
<1>5. y \in Inverse44(TermsOf(J, k, b), f) <=> <<f, y>> \in TermsOf(J, k, b)
  BY <1>3, <1>4
<1>6. \A z : z \in TermsOf(J, k, b) <=>
               \E j \in J, g \in 0 .. npar - 1, a \in Part, c \in Part : T(j, g, a, c, z)
  BY <1>1
<1>7. y \in Inverse44(TermsOf(J, k, b), f) <=>
        \E j \in J, g \in 0 .. npar - 1, a \in Part, c \in Part : T(j, g, a, c, <<f, y>>)
  <2> HIDE DEF T
  <2> QED
    BY <1>5, <1>6, Zenon
<1>8. y \in Inverse44(TermsOf(J, k, b), f) <=>
        \E j \in J, g \in 0 .. npar - 1, a \in Part, c \in Part : U(j, g, a, c)
  <2> HIDE DEF T, U
  <2> QED
    BY <1>2, <1>7, Zenon
<1> QED
  BY <1>8, Zenon

\* The terms of fragment t of a convolution.
Wanted(y, k, t, j, i) ==
  /\ <<j, k>> \in conv
  /\ \/ t - i >= 1 /\ Head(y, j, k, t - i, i)
     \/ t - 1 - i >= 1 /\ Tail(y, j, k, t - 1 - i, i)

LEMMA InConvolution ==
  ASSUME Mode, NEW k, NEW t \in Int, NEW y
  PROVE  y \in Convolution(k, t) <=>
           \E j \in Channel, i \in 0 .. npar * mode - 1 : Wanted(y, k, t, j, i)
<1> DEFINE I(t1) == {i \in 0 .. npar * mode - 1 : t1 - i >= 1}
           C == {j \in Channel : <<j, k>> \in conv}
           heads == { <<<<j, t - i>>, <<j, k>>, i, "head">> : j \in C, i \in I(t) }
           tails == { <<<<j, t - 1 - i>>, <<j, k>>, i, "tail">> : j \in C, i \in I(t - 1) }
<1>1. Convolution(k, t) = heads \cup tails
  BY DEF Convolution
<1>2. y \in heads <=> \E j \in C, i \in I(t) : y = <<<<j, t - i>>, <<j, k>>, i, "head">>
  OBVIOUS
<1>3. y \in tails <=>
        \E j \in C, i \in I(t - 1) : y = <<<<j, t - 1 - i>>, <<j, k>>, i, "tail">>
  OBVIOUS
<1> QED
  <2> HIDE DEF heads, tails
  <2> QED
    BY <1>1, <1>2, <1>3, Zenon DEF Wanted, Head, Tail

\* The first half of what a round leaves, with the second half of what the round
\* before it has left, is the convolution.
LEMMA Whole ==
  ASSUME Mode, NEW k, NEW b \in Int, NEW f \in Part
  PROVE  Inverse44(TermsOf(Channel, k, b), f)
           \cup Inverse44(TermsOf(Channel, k, b - mode), f + mode)
         = Convolution(k, b + f)
<1> DEFINE A == Inverse44(TermsOf(Channel, k, b), f)
           B == Inverse44(TermsOf(Channel, k, b - mode), f + mode)
<1>0. mode \in Int /\ b - mode \in Int /\ b + f \in Int /\ Part \subseteq Int
  BY DEF Mode, Part
<1>1. ASSUME NEW y \in A PROVE y \in Convolution(k, b + f)
  <2>1. PICK j \in Channel, g \in 0 .. npar - 1, a \in Part, c \in Part :
          Made(y, f, k, b, j, g, a, c)
    BY InInverse, Zenon
  <2> DEFINE i == g * mode + c
  <2>2. i \in 0 .. npar * mode - 1 /\ g * mode \in Int
    BY <1>0, InResponse
  <2>3. /\ f = a + c => b - g * mode + a = b + f - i
        /\ f = a + c + 1 => b - g * mode + a = b + f - 1 - i
    BY <1>0, <2>2
  <2>4. \/ b + f - i >= 1 /\ Head(y, j, k, b + f - i, i)
        \/ b + f - 1 - i >= 1 /\ Tail(y, j, k, b + f - 1 - i, i)
    BY <2>1, <2>3, Zenon DEF Made
  <2> HIDE DEF i
  <2> QED
    BY <1>0, <2>1, <2>2, <2>4, InConvolution DEF Made, Wanted
<1>2. ASSUME NEW y \in B PROVE y \in Convolution(k, b + f)
  <2>1. PICK j \in Channel, g \in 0 .. npar - 1, a \in Part, c \in Part :
          Made(y, f + mode, k, b - mode, j, g, a, c)
    BY <1>0, InInverse, Zenon
  <2> DEFINE i == g * mode + c
  <2>2. i \in 0 .. npar * mode - 1 /\ g * mode \in Int
    BY <1>0, InResponse
  <2>3. /\ f + mode = a + c => b - mode - g * mode + a = b + f - i
        /\ f + mode = a + c + 1 => b - mode - g * mode + a = b + f - 1 - i
    BY <1>0, <2>2
  <2>4. \/ b + f - i >= 1 /\ Head(y, j, k, b + f - i, i)
        \/ b + f - 1 - i >= 1 /\ Tail(y, j, k, b + f - 1 - i, i)
    BY <2>1, <2>3, Zenon DEF Made
  <2> HIDE DEF i
  <2> QED
    BY <1>0, <2>1, <2>2, <2>4, InConvolution DEF Made, Wanted
<1>3. ASSUME NEW y \in Convolution(k, b + f) PROVE y \in A \cup B
  <2>1. PICK j \in Channel, i \in 0 .. npar * mode - 1 :
          Wanted(y, k, b + f, j, i)
    BY <1>0, InConvolution, Zenon
  <2>2. PICK g \in 0 .. npar - 1, c \in Part : i = g * mode + c
    BY Quotient
  <2>3. g * mode \in Int
    BY <1>0
  <2>4. ASSUME NEW e \in {f, f - 1}
        PROVE  \/ /\ e - c \in Part
                  /\ b - g * mode + (e - c) = b + e - i
               \/ /\ e + mode - c \in Part
                  /\ b - mode - g * mode + (e + mode - c) = b + e - i
    <3>1. e - c \in Part \/ e + mode - c \in Part
      BY <1>0 DEF Part
    <3> QED
      BY <1>0, <2>2, <2>3, <3>1
  <2>5. CASE b + f - i >= 1 /\ Head(y, j, k, b + f - i, i)
    <3>1. CASE f - c \in Part /\ b - g * mode + (f - c) = b + f - i
      <4>1. f = (f - c) + c
        BY <1>0
      <4>2. Made(y, f, k, b, j, g, f - c, c)
        BY <2>1, <2>2, <2>5, <3>1, <4>1, Zenon DEF Made, Wanted
      <4>3. y \in A
        BY <3>1, <4>2, InInverse, Zenon
      <4> QED
        BY <4>3
    <3>2. CASE f + mode - c \in Part /\ b - mode - g * mode + (f + mode - c) = b + f - i
      <4>1. f + mode = (f + mode - c) + c
        BY <1>0
      <4>2. Made(y, f + mode, k, b - mode, j, g, f + mode - c, c)
        BY <2>1, <2>2, <2>5, <3>2, <4>1, Zenon DEF Made, Wanted
      <4>3. y \in B
        BY <1>0, <3>2, <4>2, InInverse, Zenon
      <4> QED
        BY <4>3
    <3> QED
      BY <2>4, <3>1, <3>2
  <2>6. CASE b + f - 1 - i >= 1 /\ Tail(y, j, k, b + f - 1 - i, i)
    <3>0. b + (f - 1) - i = b + f - 1 - i
      BY <1>0, <2>2, <2>3
    <3>1. CASE f - 1 - c \in Part /\ b - g * mode + (f - 1 - c) = b + f - 1 - i
      <4>1. f = (f - 1 - c) + c + 1
        BY <1>0
      <4>2. Made(y, f, k, b, j, g, f - 1 - c, c)
        BY <2>1, <2>2, <2>6, <3>1, <4>1, Zenon DEF Made, Wanted
      <4>3. y \in A
        BY <3>1, <4>2, InInverse, Zenon
      <4> QED
        BY <4>3
    <3>2. CASE /\ f - 1 + mode - c \in Part
               /\ b - mode - g * mode + (f - 1 + mode - c) = b + f - 1 - i
      <4>1. f + mode = (f - 1 + mode - c) + c + 1
        BY <1>0
      <4>2. Made(y, f + mode, k, b - mode, j, g, f - 1 + mode - c, c)
        BY <2>1, <2>2, <2>6, <3>2, <4>1, Zenon DEF Made, Wanted
      <4>3. y \in B
        BY <1>0, <3>2, <4>2, InInverse, Zenon
      <4> QED
        BY <4>3
    <3> QED
      BY <2>4, <3>0, <3>1, <3>2
  <2>7. \/ b + f - i >= 1 /\ Head(y, j, k, b + f - i, i)
        \/ b + f - 1 - i >= 1 /\ Tail(y, j, k, b + f - 1 - i, i)
    <3>1. (b + f) - i = b + f - i /\ (b + f) - 1 - i = b + f - 1 - i
      BY <1>0, <2>2, <2>3
    <3> QED
      BY <2>1, <3>1, Zenon DEF Wanted
  <2> QED
    BY <2>5, <2>6, <2>7, Zenon
<1> QED
  BY <1>1, <1>2, <1>3

\* No term is in both.
LEMMA Apart ==
  ASSUME Mode, NEW k, NEW b \in Int, NEW f \in Part
  PROVE  Inverse44(TermsOf(Channel, k, b), f)
           \cap Inverse44(TermsOf(Channel, k, b - mode), f + mode) = {}
<1>0. mode \in Int /\ b - mode \in Int /\ Part \subseteq Int
  BY DEF Mode, Part
<1> SUFFICES ASSUME NEW y \in Inverse44(TermsOf(Channel, k, b), f),
                    y \in Inverse44(TermsOf(Channel, k, b - mode), f + mode)
             PROVE  FALSE
  OBVIOUS
<1>1. PICK j1 \in Channel, g1 \in 0 .. npar - 1, a1 \in Part, c1 \in Part :
        Made(y, f, k, b, j1, g1, a1, c1)
  BY InInverse, Zenon
<1>2. PICK j2 \in Channel, g2 \in 0 .. npar - 1, a2 \in Part, c2 \in Part :
        Made(y, f + mode, k, b - mode, j2, g2, a2, c2)
  BY <1>0, InInverse, Zenon
<1>3. /\ g1 * mode + c1 = g2 * mode + c2
      /\ \/ f = a1 + c1 /\ f + mode = a2 + c2
         \/ f = a1 + c1 + 1 /\ f + mode = a2 + c2 + 1
  BY <1>1, <1>2 DEF Head, Tail, Made
<1>4. c1 = c2
  BY <1>3, SameFragment
<1>5. a2 = a1 + mode
  BY <1>0, <1>3, <1>4
<1> QED
  BY <1>0, <1>5 DEF Part

\* Before the first fragment there is nothing.
LEMMA NothingYet ==
  ASSUME Mode, NEW J, NEW k, NEW b \in Int, NEW f, b + mode - 1 <= 0
  PROVE  Inverse44(TermsOf(J, k, b), f) = {}
<1>1. ASSUME NEW g \in 0 .. npar - 1, NEW a \in Part
      PROVE  ~(b - g * mode + a >= 1)
  <2>1. g * mode \in Nat
    BY DEF Mode
  <2> QED
    BY <2>1 DEF Mode, Part
<1> QED
  BY <1>1, InInverse DEF Made
-----------------------------------------------------------------------------
\* The ring of transforms.
LEMMA SlotIsPart ==
  ASSUME Mode, NEW p \in 0 .. npar - 1, NEW g \in 0 .. npar - 1
  PROVE  Slot(g, p) \in 0 .. npar - 1 /\ (Slot(g, p) = p <=> g = 0)
BY DEF Mode, Slot

\* Where the ring is after a step downwards.
Turned(p) == IF p = 0 THEN npar - 1 ELSE p - 1

LEMMA SlotTurned ==
  ASSUME Mode, NEW p \in 0 .. npar - 1
  PROVE  /\ Turned(p) \in 0 .. npar - 1
         /\ \A g \in 1 .. npar - 1 : g - 1 \in 0 .. npar - 1 /\ Slot(g, Turned(p)) = Slot(g - 1, p)
BY DEF Mode, Slot, Turned
-----------------------------------------------------------------------------
\* The records of buffers that the operations work on.
Fields == {"inp", "fwd", "md", "op1", "op2", "doubled", "ipart"}

Typed(s) ==
  /\ DOMAIN s = Fields
  /\ DOMAIN s.inp = 0 .. 5 * mode - 1
  /\ DOMAIN s.fwd = Channel
  /\ \A j \in Channel : DOMAIN s.fwd[j] = 0 .. npar - 1
  /\ DOMAIN s.md = 1 .. 2
  /\ DOMAIN s.op1 = Channel
  /\ s.ipart \in 0 .. npar - 1

\* What fwdfft() leaves alone, and what mulacc() and invfft() do.
KeepsOutputs(r, s) ==
  r.md = s.md /\ r.op1 = s.op1 /\ r.op2 = s.op2 /\ r.doubled = s.doubled /\ r.ipart = s.ipart
KeepsInputs(r, s) ==
  r.inp = s.inp /\ r.fwd = s.fwd /\ r.op2 = s.op2 /\ r.ipart = s.ipart

LEMMA ForwardFields ==
  ASSUME Mode, NEW s, Typed(s), NEW j \in Channel
  PROVE  /\ Typed(Forward(s, j))
         /\ KeepsOutputs(Forward(s, j), s)
         /\ Forward(s, j).fwd[j][s.ipart] = [a \in Part |-> s.inp[j * mode + a]]
         /\ \A p \in 0 .. npar - 1 : p # s.ipart => Forward(s, j).fwd[j][p] = s.fwd[j][p]
         /\ \A i \in Channel : i # j => Forward(s, j).fwd[i] = s.fwd[i]
         /\ \A c \in 0 .. 5 * mode - 1 :
              Forward(s, j).inp[c] =
                IF c \in (j + 1) * mode .. (j + 2) * mode - 1 THEN Silence ELSE s.inp[c]
<1> DEFINE r == Forward(s, j)
<1>1. DOMAIN r = Fields
  BY DEF Forward, Typed
<1>2. KeepsOutputs(r, s)
  BY DEF Forward, Typed, Fields, KeepsOutputs
<1>3. r.fwd = [s.fwd EXCEPT ![j][s.ipart] = [a \in Part |-> s.inp[j * mode + a]]]
  BY DEF Forward, Typed, Fields
<1>4. r.inp = [c \in DOMAIN s.inp |->
                 IF c \in (j + 1) * mode .. (j + 2) * mode - 1 THEN Silence ELSE s.inp[c]]
  BY DEF Forward, Typed, Fields
<1> HIDE DEF r
<1>5. /\ DOMAIN r.fwd = Channel
      /\ r.fwd[j] = [s.fwd[j] EXCEPT ![s.ipart] = [a \in Part |-> s.inp[j * mode + a]]]
      /\ \A i \in Channel : i # j => r.fwd[i] = s.fwd[i]
  BY <1>3 DEF Typed
<1>6. /\ DOMAIN r.fwd[j] = 0 .. npar - 1
      /\ r.fwd[j][s.ipart] = [a \in Part |-> s.inp[j * mode + a]]
      /\ \A p \in 0 .. npar - 1 : p # s.ipart => r.fwd[j][p] = s.fwd[j][p]
  BY <1>5 DEF Typed
<1>7. /\ DOMAIN r.inp = 0 .. 5 * mode - 1
      /\ \A c \in 0 .. 5 * mode - 1 :
           r.inp[c] = IF c \in (j + 1) * mode .. (j + 2) * mode - 1 THEN Silence ELSE s.inp[c]
  BY <1>4 DEF Typed
<1>8. Typed(r)
  BY <1>1, <1>2, <1>5, <1>6, <1>7 DEF Typed, KeepsOutputs
<1> QED
  BY <1>2, <1>5, <1>6, <1>7, <1>8 DEF r

MulAccDoes(r, s, j, k, b) ==
  /\ Typed(r)
  /\ KeepsInputs(r, s)
  /\ r.op1 = s.op1
  /\ r.md[b] = s.md[b] \cup Products(s, j, k)
  /\ \A c \in 1 .. 2 : c # b => r.md[c] = s.md[c]
  /\ r.doubled = s.doubled \cup (Products(s, j, k) \cap s.md[b])

LEMMA MulAccFields ==
  ASSUME Mode, NEW s, Typed(s), NEW j \in Channel, NEW k \in Channel, NEW b \in 1 .. 2
  PROVE  MulAccDoes(MulAcc(s, j, k, b), s, j, k, b)
<1> DEFINE r == MulAcc(s, j, k, b)
<1>1. DOMAIN r = Fields
  BY DEF MulAcc, Typed
<1>2. KeepsInputs(r, s) /\ r.op1 = s.op1
  BY DEF MulAcc, Typed, Fields, KeepsInputs
<1>3. r.md = [s.md EXCEPT ![b] = @ \cup Products(s, j, k)]
  BY DEF MulAcc, Typed, Fields
<1>4. r.doubled = s.doubled \cup (Products(s, j, k) \cap s.md[b])
  BY DEF MulAcc, Typed, Fields
<1> HIDE DEF r
<1>5. /\ DOMAIN r.md = 1 .. 2
      /\ r.md[b] = s.md[b] \cup Products(s, j, k)
      /\ \A c \in 1 .. 2 : c # b => r.md[c] = s.md[c]
  BY <1>3 DEF Typed
<1>6. Typed(r)
  BY <1>1, <1>2, <1>5 DEF Typed, KeepsInputs
<1>7. MulAccDoes(r, s, j, k, b)
  BY <1>2, <1>4, <1>5, <1>6 DEF MulAccDoes
<1> QED
  BY <1>7 DEF r

InvertDoes(r, s, k, b) ==
  /\ Typed(r)
  /\ KeepsInputs(r, s)
  /\ r.op1[k] = [f \in Part2 |-> IF f \in Part
                                 THEN Inverse44(s.md[b], f) \cup s.op2[k][f + mode]
                                 ELSE Inverse44(s.md[b], f)]
  /\ \A i \in Channel : i # k => r.op1[i] = s.op1[i]
  /\ r.md[b] = {}
  /\ \A c \in 1 .. 2 : c # b => r.md[c] = s.md[c]
  /\ r.doubled = s.doubled \cup UNION {Inverse44(s.md[b], f) \cap s.op2[k][f + mode] : f \in Part}

LEMMA InvertFields ==
  ASSUME Mode, NEW s, Typed(s), NEW k \in Channel, NEW b \in 1 .. 2
  PROVE  InvertDoes(Invert(s, k, b), s, k, b)
<1> DEFINE r == Invert(s, k, b)
<1>1. DOMAIN r = Fields
  BY DEF Invert, Typed
<1>2. KeepsInputs(r, s)
  BY DEF Invert, Typed, Fields, KeepsInputs
<1>3. /\ r.md = [s.md EXCEPT ![b] = {}]
      /\ r.op1 = [s.op1 EXCEPT ![k] =
                    [f \in Part2 |-> IF f \in Part
                                     THEN Inverse44(s.md[b], f) \cup s.op2[k][f + mode]
                                     ELSE Inverse44(s.md[b], f)]]
  BY DEF Invert, Typed, Fields
<1>4. r.doubled =
        s.doubled \cup UNION {Inverse44(s.md[b], f) \cap s.op2[k][f + mode] : f \in Part}
  BY DEF Invert, Typed, Fields
<1> HIDE DEF r
<1>5. /\ DOMAIN r.md = 1 .. 2
      /\ r.md[b] = {}
      /\ \A c \in 1 .. 2 : c # b => r.md[c] = s.md[c]
  BY <1>3 DEF Typed
<1>6. /\ DOMAIN r.op1 = Channel
      /\ r.op1[k] = [f \in Part2 |-> IF f \in Part
                                     THEN Inverse44(s.md[b], f) \cup s.op2[k][f + mode]
                                     ELSE Inverse44(s.md[b], f)]
      /\ \A i \in Channel : i # k => r.op1[i] = s.op1[i]
  BY <1>3 DEF Typed
<1>7. Typed(r)
  BY <1>1, <1>2, <1>5, <1>6 DEF Typed, KeepsInputs
<1>8. InvertDoes(r, s, k, b)
  BY <1>2, <1>4, <1>5, <1>6, <1>7 DEF InvertDoes
<1> QED
  BY <1>8 DEF r
-----------------------------------------------------------------------------
\* Transforming the inputs.

\* The parts of input j for the next transform, which begins with fragment b.
Ready(s, j, b) == \A a \in Part : s.inp[j * mode + a] = Frag(j, b + a)

\* The ring of input j, whose last transform begins with fragment b; and the ring
\* before that transform has been made.
Ring(s, j, b) ==
  \A g \in 0 .. npar - 1 : s.fwd[j][Slot(g, s.ipart)] = Partition(j, b - g * mode)
Older(s, j, b) ==
  \A g \in 1 .. npar - 1 : s.fwd[j][Slot(g, s.ipart)] = Partition(j, b - g * mode)

LEMMA ForwardRing ==
  ASSUME Mode, NEW s, Typed(s), NEW j \in Channel, NEW b \in Int,
         Older(s, j, b), Ready(s, j, b)
  PROVE  Ring(Forward(s, j), j, b)
<1> DEFINE r == Forward(s, j)
<1>1. /\ r.ipart = s.ipart
      /\ r.fwd[j][s.ipart] = [a \in Part |-> s.inp[j * mode + a]]
      /\ \A p \in 0 .. npar - 1 : p # s.ipart => r.fwd[j][p] = s.fwd[j][p]
  BY ForwardFields DEF KeepsOutputs
<1> HIDE DEF r
<1>2. b - 0 * mode = b
  BY DEF Mode
<1>3. [a \in Part |-> s.inp[j * mode + a]] = Partition(j, b - 0 * mode)
  BY <1>2 DEF Ready, Partition
<1>4. s.ipart \in 0 .. npar - 1
  BY DEF Typed
<1>5. ASSUME NEW g \in 0 .. npar - 1
      PROVE  r.fwd[j][Slot(g, r.ipart)] = Partition(j, b - g * mode)
  <2>1. CASE g = 0
    BY <1>1, <1>3, <1>4, <2>1, SlotIsPart
  <2>2. CASE g # 0
    <3>1. g \in 1 .. npar - 1
      BY <2>2
    <3>2. Slot(g, s.ipart) \in 0 .. npar - 1 /\ Slot(g, s.ipart) # s.ipart
      BY <1>4, <2>2, SlotIsPart
    <3> QED
      BY <1>1, <3>1, <3>2 DEF Older
  <2> QED
    BY <2>1, <2>2
<1> QED
  BY <1>5 DEF Ring, r

\* Inputs j + 1 and j.
LEMMA ForwardsDone ==
  ASSUME Mode, NEW s, Typed(s), NEW j \in {0, 2}, NEW b \in Int,
         \A i \in {j, j + 1} : Older(s, i, b) /\ Ready(s, i, b)
  PROVE  /\ Typed(Forwards(s, j))
         /\ KeepsOutputs(Forwards(s, j), s)
         /\ \A i \in {j, j + 1} : Ring(Forwards(s, j), i, b)
         /\ \A i \in Channel \ {j, j + 1} : Forwards(s, j).fwd[i] = s.fwd[i]
         /\ \A c \in 0 .. 5 * mode - 1 :
              Forwards(s, j).inp[c] =
                IF c \in (j + 1) * mode .. (j + 3) * mode - 1 THEN Silence ELSE s.inp[c]
<1> DEFINE q == Forward(s, j + 1)
           r == Forward(q, j)
<1>0. j \in Channel /\ j + 1 \in Channel /\ j + 1 # j
  BY DEF Channel
<1>1. /\ Typed(q)
      /\ KeepsOutputs(q, s)
      /\ \A i \in Channel : i # j + 1 => q.fwd[i] = s.fwd[i]
      /\ \A c \in 0 .. 5 * mode - 1 :
           q.inp[c] =
             IF c \in (j + 1 + 1) * mode .. (j + 1 + 2) * mode - 1 THEN Silence ELSE s.inp[c]
  BY <1>0, ForwardFields
<1>2. Ring(q, j + 1, b)
  BY <1>0, ForwardRing
<1> HIDE DEF q
<1>3. /\ Typed(r)
      /\ KeepsOutputs(r, q)
      /\ \A i \in Channel : i # j => r.fwd[i] = q.fwd[i]
      /\ \A c \in 0 .. 5 * mode - 1 :
           r.inp[c] = IF c \in (j + 1) * mode .. (j + 2) * mode - 1 THEN Silence ELSE q.inp[c]
  BY <1>0, <1>1, ForwardFields
<1>4. ASSUME NEW a \in Part
      PROVE  /\ j * mode + a \in 0 .. 5 * mode - 1
             /\ j * mode + a \notin (j + 1 + 1) * mode .. (j + 1 + 2) * mode - 1
  BY DEF Mode, Part
<1>5. Older(q, j, b) /\ Ready(q, j, b)
  <2>1. q.ipart = s.ipart
    BY <1>1 DEF KeepsOutputs
  <2>2. q.fwd[j] = s.fwd[j]
    BY <1>0, <1>1
  <2>3. Ready(q, j, b)
    <3>1. Ready(s, j, b)
      OBVIOUS
    <3> QED
      BY <1>1, <1>4, <3>1 DEF Ready
  <2>4. Older(s, j, b)
    OBVIOUS
  <2> QED
    BY <2>1, <2>2, <2>3, <2>4 DEF Older
<1>6. Ring(r, j, b)
  BY <1>0, <1>1, <1>5, ForwardRing
<1> HIDE DEF r
<1>7. Ring(r, j + 1, b)
  <2>1. r.fwd[j + 1] = q.fwd[j + 1] /\ r.ipart = q.ipart
    BY <1>0, <1>3 DEF KeepsOutputs
  <2> QED
    BY <1>2, <2>1 DEF Ring
<1>8. KeepsOutputs(r, s)
  BY <1>1, <1>3 DEF KeepsOutputs
<1>9. ASSUME NEW c \in 0 .. 5 * mode - 1
      PROVE  r.inp[c] = IF c \in (j + 1) * mode .. (j + 3) * mode - 1 THEN Silence ELSE s.inp[c]
  <2>1. c \in (j + 1) * mode .. (j + 3) * mode - 1 <=>
          \/ c \in (j + 1) * mode .. (j + 2) * mode - 1
          \/ c \in (j + 1 + 1) * mode .. (j + 1 + 2) * mode - 1
    BY DEF Mode
  <2> QED
    BY <1>1, <1>3, <2>1
<1>10. \A i \in Channel \ {j, j + 1} : r.fwd[i] = s.fwd[i]
  BY <1>1, <1>3
<1>11. r = Forwards(s, j)
  BY DEF r, q, Forwards
<1> QED
  BY <1>3, <1>6, <1>7, <1>8, <1>9, <1>10, <1>11
-----------------------------------------------------------------------------
\* Multiplying.

LEMMA RingProducts ==
  ASSUME NEW s, NEW j, NEW k, NEW b, Ring(s, j, b)
  PROVE  Products(s, j, k) = Terms(j, k, b)
BY DEF Ring, Products, Terms

LEMMA OtherInput ==
  ASSUME Mode, NEW J, NEW j, NEW k, NEW b \in Int, j \notin J
  PROVE  \A z \in Terms(j, k, b) : z \notin TermsOf(J, k, b)
<1>1. ASSUME NEW i, NEW z \in Terms(i, k, b)
      PROVE  z[2][2] = <<i, k>>
  <2>1. PICK g \in 0 .. npar - 1, a \in Part, c \in Part :
          TermAt(z, <<i, b - g * mode + a>>, <<i, k>>, g, a, c)
    BY InRound, Zenon
  <2> QED
    BY <2>1 DEF TermAt
<1> QED
  BY <1>1 DEF TermsOf

Clean(s) == s.doubled = {}
Sum(s, m, J, k, b) == s.md[m] = TermsOf(J, k, b)

LEMMA MulAccRound ==
  ASSUME Mode, NEW s, NEW r, NEW j \in Channel, NEW k \in Channel, NEW m \in 1 .. 2,
         NEW b \in Int, NEW J, j \notin J, MulAccDoes(r, s, j, k, m),
         Ring(s, j, b), Sum(s, m, J, k, b), Clean(s)
  PROVE  Sum(r, m, J \cup {j}, k, b) /\ Clean(r)
<1>1. Products(s, j, k) = Terms(j, k, b)
  BY RingProducts
<1>2. /\ r.md[m] = s.md[m] \cup Products(s, j, k)
      /\ r.doubled = s.doubled \cup (Products(s, j, k) \cap s.md[m])
  BY DEF MulAccDoes
<1>3. \A z \in Terms(j, k, b) : z \notin TermsOf(J, k, b)
  BY OtherInput, Zenon
<1>4. TermsOf(J \cup {j}, k, b) = TermsOf(J, k, b) \cup Terms(j, k, b)
  BY DEF TermsOf
<1> QED
  BY <1>1, <1>2, <1>3, <1>4 DEF Sum, Clean

\* The sums for outputs k + 1 and k, after the inputs J.
Held(s, J, k, b) == Sum(s, 2, J, k + 1, b) /\ Sum(s, 1, J, k, b)

\* What a multiplication leaves alone, and what it must find and leave.
Multiplied(r, s, J, k, b) ==
  Typed(r) /\ KeepsInputs(r, s) /\ r.op1 = s.op1 /\ Held(r, J, k, b) /\ Clean(r)

\* Input j, for outputs k + 1 and k.
LEMMA MulAccPair ==
  ASSUME Mode, NEW s, Typed(s), NEW j \in Channel, NEW k \in {0, 2}, NEW b \in Int,
         NEW J, j \notin J, Ring(s, j, b), Held(s, J, k, b), Clean(s)
  PROVE  Multiplied(MulAcc(MulAcc(s, j, k + 1, 2), j, k, 1), s, J \cup {j}, k, b)
<1> DEFINE q == MulAcc(s, j, k + 1, 2)
           r == MulAcc(q, j, k, 1)
<1>0. k \in Channel /\ k + 1 \in Channel /\ 1 \in 1 .. 2 /\ 2 \in 1 .. 2
  BY DEF Channel
<1>1. MulAccDoes(q, s, j, k + 1, 2)
  BY <1>0, MulAccFields, Zenon
<1>2. Typed(q)
  BY <1>1, Zenon DEF MulAccDoes
<1>3. MulAccDoes(r, q, j, k, 1)
  BY <1>0, <1>2, MulAccFields, Zenon
<1> HIDE DEF q, r
<1>4. Sum(q, 2, J \cup {j}, k + 1, b) /\ Clean(q)
  BY <1>0, <1>1, MulAccRound, Zenon DEF Held
<1>5. Ring(q, j, b)
  BY <1>1 DEF MulAccDoes, Ring, KeepsInputs
<1>6. Sum(q, 1, J, k, b)
  BY <1>1 DEF MulAccDoes, Held, Sum
<1>7. Sum(r, 1, J \cup {j}, k, b) /\ Clean(r)
  BY <1>0, <1>3, <1>4, <1>5, <1>6, MulAccRound, Zenon
<1>8. Sum(r, 2, J \cup {j}, k + 1, b)
  BY <1>3, <1>4 DEF MulAccDoes, Sum
<1>9. Typed(r) /\ KeepsInputs(r, s) /\ r.op1 = s.op1
  BY <1>1, <1>3 DEF MulAccDoes, KeepsInputs
<1>10. Multiplied(r, s, J \cup {j}, k, b)
  BY <1>7, <1>8, <1>9 DEF Multiplied, Held
<1> QED
  BY <1>10 DEF r, q

LEMMA RingKept ==
  ASSUME NEW s, NEW r, NEW j, NEW b, KeepsInputs(r, s), Ring(s, j, b)
  PROVE  Ring(r, j, b)
BY DEF KeepsInputs, Ring

LEMMA MultipliedTwice ==
  ASSUME NEW s, NEW q, NEW r, NEW J1, NEW J2, NEW k, NEW b,
         Multiplied(q, s, J1, k, b), Multiplied(r, q, J2, k, b)
  PROVE  Multiplied(r, s, J2, k, b)
BY DEF Multiplied, KeepsInputs

\* Inputs j + 1 and j, for outputs k + 1 and k.
LEMMA MulAccsDone ==
  ASSUME Mode, NEW s, Typed(s), NEW j \in {0, 2}, NEW k \in {0, 2}, NEW b \in Int,
         NEW J, j \notin J, j + 1 \notin J, Ring(s, j, b), Ring(s, j + 1, b),
         Held(s, J, k, b), Clean(s)
  PROVE  Multiplied(MulAccs(s, j, k), s, J \cup {j, j + 1}, k, b)
<1> DEFINE q == MulAcc(MulAcc(s, j + 1, k + 1, 2), j + 1, k, 1)
           r == MulAcc(MulAcc(q, j, k + 1, 2), j, k, 1)
<1>0. j \in Channel /\ j + 1 \in Channel /\ j + 1 # j
  BY DEF Channel
<1>1. Multiplied(q, s, J \cup {j + 1}, k, b)
  BY <1>0, MulAccPair, Zenon
<1> HIDE DEF q
<1>2. Typed(q) /\ Clean(q) /\ Held(q, J \cup {j + 1}, k, b) /\ Ring(q, j, b)
  BY <1>1, RingKept, Zenon DEF Multiplied
<1>3. j \notin J \cup {j + 1}
  BY <1>0
<1>4. Multiplied(r, q, (J \cup {j + 1}) \cup {j}, k, b)
  BY <1>0, <1>2, <1>3, MulAccPair, Zenon
<1> DEFINE J1 == J \cup {j + 1}
           J2 == J \cup {j, j + 1}
<1>5. J1 \cup {j} = J2
  OBVIOUS
<1> HIDE DEF r
<1>6. Multiplied(r, q, J2, k, b)
  BY <1>4, <1>5, Zenon
<1>7. Multiplied(q, s, J1, k, b)
  BY <1>1
<1> HIDE DEF J1, J2
<1>8. Multiplied(r, s, J2, k, b)
  BY <1>6, <1>7, MultipliedTwice, Zenon
<1> QED
  BY <1>8 DEF r, q, J2, MulAccs

LEMMA NothingHeld ==
  ASSUME NEW s, NEW k, NEW b, s.md[1] = {}, s.md[2] = {}
  PROVE  Held(s, {}, k, b)
BY DEF Held, Sum, TermsOf

\* All inputs, for outputs k + 1 and k.
LEMMA AllMulAccsDone ==
  ASSUME Mode, NEW s, Typed(s), NEW k \in {0, 2}, NEW b \in Int,
         \A j \in Channel : Ring(s, j, b), Held(s, {}, k, b), Clean(s)
  PROVE  Multiplied(AllMulAccs(s, k), s, Channel, k, b)
<1> DEFINE q == MulAccs(s, 2, k)
           r == MulAccs(q, 0, k)
<1>0. /\ 0 \in {0, 2} /\ 2 \in {0, 2}
      /\ 2 \in Channel /\ 2 + 1 \in Channel /\ 0 \in Channel /\ 0 + 1 \in Channel
      /\ 2 \notin {} /\ 2 + 1 \notin {}
      /\ 0 \notin {} \cup {2, 2 + 1} /\ 0 + 1 \notin {} \cup {2, 2 + 1}
  BY DEF Channel
<1>1. Multiplied(q, s, {} \cup {2, 2 + 1}, k, b)
  BY <1>0, MulAccsDone, Zenon
<1> HIDE DEF q
<1>2. /\ Typed(q) /\ Clean(q) /\ Held(q, {} \cup {2, 2 + 1}, k, b)
      /\ Ring(q, 0, b) /\ Ring(q, 0 + 1, b)
  BY <1>0, <1>1, RingKept, Zenon DEF Multiplied
<1>3. Multiplied(r, q, ({} \cup {2, 2 + 1}) \cup {0, 0 + 1}, k, b)
  BY <1>0, <1>2, MulAccsDone, Zenon
<1>4. ({} \cup {2, 2 + 1}) \cup {0, 0 + 1} = Channel
  BY DEF Channel
<1> HIDE DEF r
<1>5. Multiplied(r, q, Channel, k, b)
  BY <1>3, <1>4, Zenon
<1>6. Multiplied(r, s, Channel, k, b)
  BY <1>1, <1>5, MultipliedTwice, Zenon
<1> QED
  BY <1>6 DEF r, q, AllMulAccs
-----------------------------------------------------------------------------
\* Transforming back.

\* The output buffer has what the round before left, and what this round leaves.
Previous(s, k, b) == s.op2[k] = Result(k, b - mode)
Done(s, k, b) == s.op1[k] = Result(k, b)

LEMMA InvertRound ==
  ASSUME Mode, NEW s, NEW r, NEW k \in Channel, NEW m \in 1 .. 2, NEW b \in Int,
         InvertDoes(r, s, k, m), Sum(s, m, Channel, k, b), Previous(s, k, b), Clean(s)
  PROVE  Done(r, k, b) /\ Clean(r)
<1>1. ASSUME NEW f \in Part
      PROVE  s.op2[k][f + mode] = Inverse44(TermsOf(Channel, k, b - mode), f + mode)
  <2>1. f + mode \in Part2 /\ f + mode \notin Part
    BY DEF Mode, Part, Part2
  <2> QED
    BY <2>1 DEF Previous, Result
<1>2. /\ r.op1[k] = [f \in Part2 |-> IF f \in Part
                                     THEN Inverse44(s.md[m], f) \cup s.op2[k][f + mode]
                                     ELSE Inverse44(s.md[m], f)]
      /\ r.doubled =
           s.doubled \cup UNION {Inverse44(s.md[m], f) \cap s.op2[k][f + mode] : f \in Part}
  BY DEF InvertDoes
<1>3. Done(r, k, b)
  BY <1>1, <1>2 DEF Done, Result, Sum
<1>4. ASSUME NEW f \in Part
      PROVE  Inverse44(s.md[m], f) \cap s.op2[k][f + mode] = {}
  BY <1>1, Apart DEF Sum
<1>5. Clean(r)
  BY <1>2, <1>4 DEF Clean
<1> QED
  BY <1>3, <1>5

\* Outputs k + 1 and k.
InvertsDo(r, s, k, b) ==
  /\ Typed(r) /\ KeepsInputs(r, s) /\ Clean(r)
  /\ Done(r, k + 1, b) /\ Done(r, k, b)
  /\ \A i \in Channel \ {k, k + 1} : r.op1[i] = s.op1[i]
  /\ r.md[1] = {} /\ r.md[2] = {}

LEMMA InvertsDone ==
  ASSUME Mode, NEW s, Typed(s), NEW k \in {0, 2}, NEW b \in Int, Clean(s),
         Held(s, Channel, k, b), Previous(s, k, b), Previous(s, k + 1, b)
  PROVE  InvertsDo(Inverts(s, k), s, k, b)
<1> DEFINE q == Invert(s, k + 1, 2)
           r == Invert(q, k, 1)
<1>0. k \in Channel /\ k + 1 \in Channel /\ k + 1 # k /\ 1 \in 1 .. 2 /\ 2 \in 1 .. 2
  BY DEF Channel
<1>1. InvertDoes(q, s, k + 1, 2)
  BY <1>0, InvertFields, Zenon
<1>2. Typed(q)
  BY <1>1, Zenon DEF InvertDoes
<1>3. InvertDoes(r, q, k, 1)
  BY <1>0, <1>2, InvertFields, Zenon
<1> HIDE DEF q, r
<1>4. Done(q, k + 1, b) /\ Clean(q)
  BY <1>0, <1>1, InvertRound, Zenon DEF Held
<1>5. Previous(q, k, b)
  BY <1>1 DEF InvertDoes, Previous, KeepsInputs
<1>6. Sum(q, 1, Channel, k, b)
  BY <1>1 DEF InvertDoes, Held, Sum
<1>7. Done(r, k, b) /\ Clean(r)
  BY <1>0, <1>3, <1>4, <1>5, <1>6, InvertRound, Zenon
<1>8. Done(r, k + 1, b)
  BY <1>0, <1>3, <1>4 DEF InvertDoes, Done
<1>9. /\ Typed(r) /\ KeepsInputs(r, s)
      /\ r.md[1] = {} /\ r.md[2] = {}
      /\ \A i \in Channel \ {k, k + 1} : r.op1[i] = s.op1[i]
  BY <1>1, <1>3 DEF InvertDoes, KeepsInputs
<1>10. InvertsDo(r, s, k, b)
  BY <1>7, <1>8, <1>9 DEF InvertsDo
<1> QED
  BY <1>10 DEF r, q, Inverts
-----------------------------------------------------------------------------
\* The groups of operations of process().

Rung(s, b) == \A j \in Channel : Ring(s, j, b)
Behind(s, b) == \A k \in Channel : Previous(s, k, b)
Empty(s) == s.md[1] = {} /\ s.md[2] = {}

\* All inputs are transformed.
LEMMA AllForwardsDone ==
  ASSUME Mode, NEW s, Typed(s), NEW b \in Int,
         \A j \in Channel : Older(s, j, b) /\ Ready(s, j, b)
  PROVE  /\ Typed(AllForwards(s))
         /\ KeepsOutputs(AllForwards(s), s)
         /\ Rung(AllForwards(s), b)
<1> DEFINE q == Forwards(s, 2)
           r == Forwards(q, 0)
<1>0. /\ 0 \in {0, 2} /\ 2 \in {0, 2}
      /\ {2, 2 + 1} \subseteq Channel
      /\ \A i \in {0, 0 + 1} : i \in Channel \ {2, 2 + 1}
      /\ Channel = {0, 0 + 1} \cup {2, 2 + 1}
  BY DEF Channel
<1>1. \A i \in {2, 2 + 1} : Older(s, i, b) /\ Ready(s, i, b)
  BY <1>0, Zenon
<1>2. /\ Typed(q)
      /\ KeepsOutputs(q, s)
      /\ \A i \in {2, 2 + 1} : Ring(q, i, b)
      /\ \A i \in Channel \ {2, 2 + 1} : q.fwd[i] = s.fwd[i]
      /\ \A c \in 0 .. 5 * mode - 1 :
           q.inp[c] = IF c \in (2 + 1) * mode .. (2 + 3) * mode - 1 THEN Silence ELSE s.inp[c]
  BY <1>0, <1>1, ForwardsDone
<1> HIDE DEF q
<1>3. ASSUME NEW i \in {0, 0 + 1}
      PROVE  Older(q, i, b) /\ Ready(q, i, b)
  <2>1. Older(s, i, b) /\ Ready(s, i, b)
    BY <1>0, Zenon
  <2>2. q.fwd[i] = s.fwd[i] /\ q.ipart = s.ipart
    BY <1>0, <1>2 DEF KeepsOutputs
  <2>3. ASSUME NEW a \in Part
        PROVE  /\ i * mode + a \in 0 .. 5 * mode - 1
               /\ i * mode + a \notin (2 + 1) * mode .. (2 + 3) * mode - 1
    BY DEF Mode, Part
  <2>4. Ready(q, i, b)
    BY <1>2, <2>1, <2>3 DEF Ready
  <2> QED
    BY <2>1, <2>2, <2>4 DEF Older
<1>4. /\ Typed(r)
      /\ KeepsOutputs(r, q)
      /\ \A i \in {0, 0 + 1} : Ring(r, i, b)
      /\ \A i \in Channel \ {0, 0 + 1} : r.fwd[i] = q.fwd[i]
  BY <1>0, <1>2, <1>3, ForwardsDone
<1> HIDE DEF r
<1>5. ASSUME NEW i \in {2, 2 + 1}
      PROVE  Ring(r, i, b)
  <2>1. r.fwd[i] = q.fwd[i] /\ r.ipart = q.ipart
    BY <1>4 DEF KeepsOutputs, Channel
  <2>2. Ring(q, i, b)
    BY <1>2
  <2> QED
    BY <2>1, <2>2 DEF Ring
<1>6. Rung(r, b)
  BY <1>0, <1>4, <1>5, Zenon DEF Rung
<1>7. KeepsOutputs(r, s)
  BY <1>2, <1>4 DEF KeepsOutputs
<1> QED
  BY <1>4, <1>6, <1>7 DEF r, q, AllForwards

\* Outputs k + 1 and k are made from all inputs.
LEMMA OutputsDone ==
  ASSUME Mode, NEW s, Typed(s), NEW k \in {0, 2}, NEW b \in Int,
         Rung(s, b), Empty(s), Clean(s), Behind(s, b)
  PROVE  InvertsDo(Inverts(AllMulAccs(s, k), k), s, k, b)
<1> DEFINE q == AllMulAccs(s, k)
           r == Inverts(q, k)
<1>1. Held(s, {}, k, b)
  BY NothingHeld DEF Empty
<1>2. Multiplied(q, s, Channel, k, b)
  BY <1>1, AllMulAccsDone, Zenon DEF Rung
<1> HIDE DEF q
<1>3. Typed(q) /\ Clean(q) /\ Held(q, Channel, k, b) /\ KeepsInputs(q, s) /\ q.op1 = s.op1
  BY <1>2, Zenon DEF Multiplied
<1>4. k \in Channel /\ k + 1 \in Channel
  BY DEF Channel
<1>5. Previous(q, k, b) /\ Previous(q, k + 1, b)
  BY <1>3, <1>4 DEF Behind, Previous, KeepsInputs
<1>6. InvertsDo(r, q, k, b)
  BY <1>3, <1>5, InvertsDone, Zenon
<1> HIDE DEF r
<1>7. InvertsDo(r, s, k, b)
  BY <1>3, <1>6 DEF InvertsDo, KeepsInputs
<1> QED
  BY <1>7 DEF r, q

\* All outputs are made.
Finished(r, s, b) ==
  /\ Typed(r) /\ KeepsInputs(r, s) /\ Clean(r) /\ Empty(r)
  /\ \A k \in Channel : Done(r, k, b)

\* After outputs 3 and 2, outputs 1 and 0.
LEMMA LastOutputs ==
  ASSUME Mode, NEW s, NEW q, NEW r, NEW b \in Int,
         InvertsDo(q, s, 2, b), InvertsDo(r, q, 0, b)
  PROVE  Finished(r, s, b)
<1>1. ASSUME NEW k \in {2, 2 + 1}
      PROVE  Done(r, k, b)
  <2>1. r.op1[k] = q.op1[k]
    BY DEF InvertsDo, Channel
  <2>2. Done(q, k, b)
    BY Zenon DEF InvertsDo
  <2> QED
    BY <2>1, <2>2 DEF Done
<1>2. \A k \in {0, 0 + 1} : Done(r, k, b)
  BY Zenon DEF InvertsDo
<1>3. Channel = {0, 0 + 1} \cup {2, 2 + 1}
  BY DEF Channel
<1>4. \A k \in Channel : Done(r, k, b)
  BY <1>1, <1>2, <1>3, Zenon
<1>5. KeepsInputs(r, s)
  BY DEF InvertsDo, KeepsInputs
<1> QED
  BY <1>4, <1>5, Zenon DEF Finished, InvertsDo, Empty
-----------------------------------------------------------------------------
\* The inductive invariant.

Buffers == [inp |-> inp, fwd |-> fwd, md |-> md, op1 |-> op1, op2 |-> op2,
            doubled |-> doubled, ipart |-> ipart]

\* The number of the call in its round; the round begins with the call that
\* transforms the partition that begins with fragment Base.
Rank == IF ifrag = 0 THEN mode ELSE ifrag
Base == (n - Rank) + (2 - mode)

\* The first fragments of the next partition are put aside.
Aside == mode = 4 /\ ifrag = 1

Types ==
  /\ Mode
  /\ Typed(Buffers) /\ DOMAIN op2 = Channel
  /\ ifrag \in 0 .. mode - 1
  /\ n \in Nat

Pointers ==
  /\ rd = ifrag
  /\ wr = [i \in Channel |-> IF Aside THEN 4 * mode + i ELSE i * mode + Rank - 1]

\* The fragments that have been written, of the next partition and, with four
\* fragments, of the first two inputs.
Inputs ==
  /\ \A j \in Channel : \A a \in 0 .. Rank - 2 : inp[j * mode + a] = Frag(j, Base + mode + a)
  /\ Aside => \A j \in {0, 1} : Ready(Buffers, j, Base)

\* The transforms.
Rings ==
  \A j \in Channel :
    IF Aside /\ j \in {0, 1} THEN Older(Buffers, j, Base) ELSE Ring(Buffers, j, Base)

\* The sums of products between the calls.
Sums ==
  /\ ifrag = 0 => Empty(Buffers)
  /\ mode = 2 /\ ifrag = 1 => Held(Buffers, Channel, 2, Base)
  /\ mode = 4 /\ ifrag = 1 => Held(Buffers, {2, 3}, 2, Base)
  /\ mode = 4 /\ ifrag = 2 => Held(Buffers, Channel, 2, Base)
  /\ mode = 4 /\ ifrag = 3 => Held(Buffers, {2, 3}, 0, Base)

\* What is being read, and what has been made.
Outputs ==
  /\ Clean(Buffers)
  /\ ifrag = 0 => \A k \in Channel : op2[k] = Result(k, Base)
  /\ ifrag # 0 => Behind(Buffers, Base)
  /\ mode = 4 /\ ifrag = 3 => Done(Buffers, 2, Base) /\ Done(Buffers, 3, Base)

IInv == Types /\ Pointers /\ Inputs /\ Rings /\ Sums /\ Outputs

LEMMA SoundInvariant == IInv => Convolves
<1> SUFFICES ASSUME IInv PROVE Convolves
  OBVIOUS
<1>0. Mode /\ ifrag \in 0 .. mode - 1 /\ n \in Nat /\ rd = ifrag
  BY DEF IInv, Types, Pointers
<1>1. doubled = {}
  BY DEF IInv, Outputs, Clean, Buffers
<1> DEFINE b == IF ifrag = 0 THEN Base ELSE Base - mode
<1>2. b \in Int /\ ifrag \in Part /\ ifrag \in Part2 /\ b + ifrag = n - Latency
  BY <1>0 DEF Mode, Part, Part2, Base, Rank, Latency
<1>3. ASSUME NEW k \in Channel
      PROVE  Output(k) = Convolution(k, n - Latency)
  <2>1. op2[k] = Result(k, b)
    BY <1>0 DEF IInv, Outputs, Behind, Previous, Buffers
  <2> HIDE DEF b
  <2>2. Output(k) = Result(k, b)[ifrag]
    BY <1>0, <2>1 DEF Output
  <2>3. Result(k, b)[ifrag] = Inverse44(TermsOf(Channel, k, b), ifrag)
                                \cup Inverse44(TermsOf(Channel, k, b - mode), ifrag + mode)
    BY <1>2 DEF Result
  <2> QED
    BY <1>0, <1>2, <2>2, <2>3, Whole
<1> QED
  BY <1>1, <1>3 DEF Convolves

\* The definitions depend on the configuration only, which no call changes.
LEMMA SameConfig ==
  ASSUME mode' = mode, npar' = npar, conv' = conv
  PROVE  /\ Mode' <=> Mode
         /\ Part' = Part
         /\ \A j, b : Partition(j, b)' = Partition(j, b)
         /\ \A J, k, b : TermsOf(J, k, b)' = TermsOf(J, k, b)
         /\ \A k, b : Result(k, b)' = Result(k, b)
<1>1. (Mode' <=> Mode) /\ Part' = Part /\ Part2' = Part2
  BY DEF Mode, Part, Part2
<1>2. ASSUME NEW j, NEW b PROVE Partition(j, b)' = Partition(j, b)
  BY <1>1 DEF Partition, Frag, Silence
<1>3. ASSUME NEW x, NEW h, NEW g PROVE Product(x, h, g)' = Product(x, h, g)
  BY <1>1 DEF Product, Silence
<1>4. ASSUME NEW j, NEW k, NEW b PROVE Terms(j, k, b)' = Terms(j, k, b)
  BY <1>2, <1>3 DEF Terms
<1>5. ASSUME NEW J, NEW k, NEW b PROVE TermsOf(J, k, b)' = TermsOf(J, k, b)
  BY <1>4 DEF TermsOf
<1>6. ASSUME NEW k, NEW b PROVE Result(k, b)' = Result(k, b)
  BY <1>1, <1>5 DEF Result, Inverse44
<1> QED
  BY <1>1, <1>2, <1>5, <1>6

\* The state after the constructor and after reset().
Fresh ==
  /\ Mode
  /\ inp = NoInput /\ fwd = NoTransforms /\ md = NoProducts
  /\ op1 = NoOutput /\ op2 = NoOutput
  /\ wr = LastFragments /\ rd = 0 /\ ifrag = 0 /\ ipart = 0
  /\ n = 0 /\ doubled = {}

LEMMA FreshInvariant == Fresh => IInv
<1> SUFFICES ASSUME Fresh PROVE IInv
  OBVIOUS
<1>0. /\ Mode
      /\ inp = NoInput /\ fwd = NoTransforms /\ md = NoProducts
      /\ op1 = NoOutput /\ op2 = NoOutput
      /\ wr = LastFragments /\ rd = 0 /\ ifrag = 0 /\ ipart = 0
      /\ n = 0 /\ doubled = {}
  BY DEF Fresh
<1>1. Rank = mode /\ Base = 2 - 2 * mode /\ Base \in Int /\ ~Aside
  BY <1>0 DEF Rank, Base, Aside, Mode
<1>2. Types
  <2>1. Typed(Buffers)
    BY <1>0 DEF Typed, Buffers, Fields, Mode, NoInput, NoTransforms, NoProducts, NoOutput
  <2> QED
    BY <1>0, <2>1 DEF Types, Mode, NoOutput
<1>3. Pointers
  <2>1. \A i \in Channel : (i + 1) * mode - 1 = i * mode + mode - 1
    BY <1>0 DEF Channel, Mode
  <2> QED
    BY <1>0, <1>1, <2>1 DEF Pointers, LastFragments
<1>4. ASSUME NEW j \in Channel, NEW g \in 0 .. npar - 1
      PROVE  Partition(j, Base - g * mode) = [a \in Part |-> Silence]
  <2>1. ASSUME NEW a \in Part PROVE ~(Base - g * mode + a >= 1)
    <3>1. g * mode \in Nat
      BY <1>0 DEF Mode
    <3> QED
      BY <1>0, <1>1, <3>1 DEF Mode, Part
  <2> QED
    BY <2>1 DEF Partition, Frag
<1>5. Inputs
  <2>1. ASSUME NEW j \in Channel, NEW a \in 0 .. Rank - 2
        PROVE  inp[j * mode + a] = Frag(j, Base + mode + a)
    <3>1. j * mode + a \in 0 .. 5 * mode - 1 /\ ~(Base + mode + a >= 1)
      BY <1>0, <1>1 DEF Channel, Mode
    <3> QED
      BY <1>0, <3>1 DEF NoInput, Frag
  <2> QED
    BY <1>1, <2>1 DEF Inputs
<1>6. Rings
  <2>1. ASSUME NEW j \in Channel, NEW g \in 0 .. npar - 1
        PROVE  fwd[j][Slot(g, ipart)] = Partition(j, Base - g * mode)
    <3>1. 0 \in 0 .. npar - 1
      BY <1>0 DEF Mode
    <3>2. Slot(g, ipart) \in 0 .. npar - 1
      BY <1>0, <3>1, SlotIsPart
    <3> QED
      BY <1>0, <1>4, <3>2 DEF NoTransforms
  <2> QED
    BY <1>1, <2>1 DEF Rings, Ring, Buffers
<1>7. Sums
  BY <1>0 DEF Sums, Empty, Buffers, NoProducts, Mode
<1>8. Outputs
  <2>1. ASSUME NEW k \in Channel PROVE op2[k] = Result(k, Base)
    <3>1. ASSUME NEW f PROVE /\ Inverse44(TermsOf(Channel, k, Base), f) = {}
                             /\ Inverse44(TermsOf(Channel, k, Base - mode), f) = {}
      <4>1. Base + mode - 1 <= 0 /\ (Base - mode) + mode - 1 <= 0 /\ Base - mode \in Int
        BY <1>0, <1>1 DEF Mode
      <4> QED
        BY <1>0, <1>1, <4>1, NothingYet
    <3>2. Result(k, Base) = [f \in Part2 |-> {}]
      BY <3>1 DEF Result
    <3> QED
      BY <1>0, <3>2 DEF NoOutput
  <2> QED
    BY <1>0, <2>1 DEF Outputs, Clean, Buffers
<1> QED
  BY <1>2, <1>3, <1>5, <1>6, <1>7, <1>8 DEF IInv

LEMMA InitFresh == Init => Fresh
BY Convol44Assumption DEF Init, Fresh, Mode

LEMMA ResetFresh == Mode /\ Reset => Fresh'
BY DEF Reset, Fresh, Mode, config, NoInput, NoTransforms, NoProducts, NoOutput,
       LastFragments, Part, Part2, Silence
-----------------------------------------------------------------------------
\* The buffers at a call of process(), with the fragments that the caller wrote.
Called == [inp |-> Written, fwd |-> fwd, md |-> md, op1 |-> op1, op2 |-> op2,
           doubled |-> doubled, ipart |-> IF ifrag = 0 THEN Turned(ipart) ELSE ipart]

\* The first fragment of the partition that the round is about.
Round == IF ifrag = 0 THEN Base + mode ELSE Base

LEMMA Numbers ==
  ASSUME Types
  PROVE  /\ Mode /\ mode \in Nat /\ npar \in Nat \ {0}
         /\ Rank \in 1 .. mode /\ Base \in Int /\ Round \in Int
         /\ Base + mode + (Rank - 1) = n + 1
         /\ n \in Nat /\ ifrag \in 0 .. mode - 1
BY DEF Types, Mode, Rank, Base, Round

LEMMA WritePointers ==
  ASSUME Types, Pointers
  PROVE  /\ \A i \in Channel : wr[i] \in 0 .. 5 * mode - 1
         /\ \A i \in Channel, j \in Channel : wr[i] = wr[j] => i = j
         /\ \A j \in Channel, a \in 0 .. Rank - 2, i \in Channel : wr[i] # j * mode + a
         /\ Aside => \A j \in {0, 1}, a \in Part, i \in Channel : wr[i] # j * mode + a
<1>1. /\ mode \in {1, 2, 4} /\ Rank \in 1 .. mode
      /\ wr = [i \in Channel |-> IF Aside THEN 4 * mode + i ELSE i * mode + Rank - 1]
  BY Numbers DEF Pointers, Mode
<1>2. CASE Aside
  <2>1. mode = 4 /\ Rank = 1
    BY <1>2 DEF Aside, Rank
  <2>2. \A i \in Channel : wr[i] = 16 + i
    BY <1>1, <1>2, <2>1 DEF Channel
  <2> QED
    BY <2>1, <2>2 DEF Channel, Part
<1>3. CASE ~Aside
  <2>1. \A i \in Channel : wr[i] = i * mode + Rank - 1
    BY <1>1, <1>3
  <2>2. CASE mode = 1
    BY <1>1, <1>3, <2>1, <2>2 DEF Channel
  <2>3. CASE mode = 2
    BY <1>1, <1>3, <2>1, <2>3 DEF Channel
  <2>4. CASE mode = 4
    BY <1>1, <1>3, <2>1, <2>4 DEF Channel
  <2> QED
    BY <1>1, <2>2, <2>3, <2>4
<1> QED
  BY <1>2, <1>3

LEMMA WrittenParts ==
  ASSUME Types, Pointers
  PROVE  /\ DOMAIN Written = 0 .. 5 * mode - 1
         /\ \A i \in Channel : Written[wr[i]] = Frag(i, n + 1)
         /\ \A c \in 0 .. 5 * mode - 1 : (\A i \in Channel : wr[i] # c) => Written[c] = inp[c]
<1>1. DOMAIN inp = 0 .. 5 * mode - 1
  BY DEF Types, Typed, Buffers
<1>2. ASSUME NEW i \in Channel
      PROVE  Written[wr[i]] = Frag(i, n + 1)
  <2>1. wr[i] \in DOMAIN inp
    BY <1>1, WritePointers
  <2>2. (CHOOSE k \in Channel : wr[k] = wr[i]) = i
    BY WritePointers
  <2>3. Written[wr[i]] = <<CHOOSE k \in Channel : wr[k] = wr[i], n + 1>>
    BY <2>1 DEF Written
  <2>4. n + 1 >= 1
    BY Numbers
  <2> QED
    BY <2>2, <2>3, <2>4 DEF Frag
<1> QED
  BY <1>1, <1>2 DEF Written

\* What a call finds.
LEMMA CalledInputs ==
  ASSUME IInv
  PROVE  /\ \A j \in Channel, a \in 0 .. Rank - 2 : Written[j * mode + a] = Frag(j, Base + mode + a)
         /\ Aside => \A j \in {0, 1} : Ready(Called, j, Base)
         /\ ifrag = 0 => \A j \in Channel : Ready(Called, j, Round)
<1>0. Types /\ Pointers /\ Inputs
  BY DEF IInv
<1>1. ASSUME NEW j \in Channel, NEW a \in 0 .. Rank - 2
      PROVE  Written[j * mode + a] = Frag(j, Base + mode + a)
  <2>1. j * mode + a \in 0 .. 5 * mode - 1
    BY <1>0, Numbers DEF Mode, Channel
  <2>2. inp[j * mode + a] = Frag(j, Base + mode + a)
    BY <1>0 DEF Inputs
  <2> QED
    BY <1>0, <2>1, <2>2, WritePointers, WrittenParts
<1>2. ASSUME Aside, NEW j \in {0, 1}
      PROVE  Ready(Called, j, Base)
  <2>1. ASSUME NEW a \in Part PROVE Written[j * mode + a] = Frag(j, Base + a)
    <3>1. j * mode + a \in 0 .. 5 * mode - 1
      BY <1>0, Numbers DEF Mode, Part
    <3>2. inp[j * mode + a] = Frag(j, Base + a)
      BY <1>0, <1>2 DEF Inputs, Ready, Buffers
    <3> QED
      BY <1>0, <1>2, <3>1, <3>2, WritePointers, WrittenParts
  <2> QED
    BY <2>1 DEF Ready, Called
<1>3. ASSUME ifrag = 0, NEW j \in Channel
      PROVE  Ready(Called, j, Round)
  <2>0. Rank = mode /\ Round = Base + mode /\ ~Aside
    BY <1>3 DEF Rank, Round, Aside
  <2>1. ASSUME NEW a \in Part PROVE Written[j * mode + a] = Frag(j, Round + a)
    <3>1. CASE a \in 0 .. mode - 2
      BY <1>1, <2>0, <3>1
    <3>2. CASE a = mode - 1
      <4>1. wr[j] = j * mode + mode - 1
        BY <1>0, <2>0 DEF Pointers
      <4>2. j * mode + mode - 1 = j * mode + a /\ Round + a = n + 1
        BY <1>0, <2>0, <3>2, Numbers DEF Channel
      <4> QED
        BY <1>0, <4>1, <4>2, WrittenParts
    <3> QED
      BY <1>0, <3>1, <3>2, Numbers DEF Part
  <2> QED
    BY <2>1 DEF Ready, Called
<1> QED
  BY <1>1, <1>2, <1>3

LEMMA CalledRings ==
  ASSUME IInv
  PROVE  /\ ifrag = 0 => \A j \in Channel : Older(Called, j, Round)
         /\ ifrag # 0 => \A j \in Channel :
              IF Aside /\ j \in {0, 1} THEN Older(Called, j, Round) ELSE Ring(Called, j, Round)
<1>0. Types /\ Rings /\ ipart \in 0 .. npar - 1
  BY DEF IInv, Types, Typed, Buffers
<1>1. ASSUME ifrag = 0, NEW j \in Channel
      PROVE  Older(Called, j, Round)
  <2>1. Ring(Buffers, j, Base) /\ Round = Base + mode
    BY <1>0, <1>1 DEF Rings, Aside, Round
  <2>2. ASSUME NEW g \in 1 .. npar - 1
        PROVE  fwd[j][Slot(g, Turned(ipart))] = Partition(j, Round - g * mode)
    <3>1. /\ g - 1 \in 0 .. npar - 1
          /\ Slot(g, Turned(ipart)) = Slot(g - 1, ipart)
      BY <1>0, SlotTurned, Numbers
    <3>2. Base - (g - 1) * mode = Round - g * mode
      BY <1>0, <2>1, Numbers DEF Mode
    <3>3. fwd[j][Slot(g - 1, ipart)] = Partition(j, Base - (g - 1) * mode)
      BY <2>1, <3>1 DEF Ring, Buffers
    <3> QED
      BY <3>1, <3>2, <3>3
  <2> QED
    BY <1>1, <2>2 DEF Older, Called
<1>2. ASSUME ifrag # 0, NEW j \in Channel
      PROVE  IF Aside /\ j \in {0, 1} THEN Older(Called, j, Round) ELSE Ring(Called, j, Round)
  BY <1>0, <1>2 DEF Rings, Round, Older, Ring, Called, Buffers
<1> QED
  BY <1>1, <1>2

LEMMA CalledRest ==
  ASSUME IInv
  PROVE  /\ Typed(Called) /\ Clean(Called) /\ Behind(Called, Round)
         /\ ifrag = 0 => Empty(Called)
         /\ mode = 2 /\ ifrag = 1 => Held(Called, Channel, 2, Round)
         /\ mode = 4 /\ ifrag = 1 => Held(Called, {2, 3}, 2, Round)
         /\ mode = 4 /\ ifrag = 2 => Held(Called, Channel, 2, Round)
         /\ mode = 4 /\ ifrag = 3 => Held(Called, {2, 3}, 0, Round)
         /\ mode = 4 /\ ifrag = 3 => Done(Called, 2, Round) /\ Done(Called, 3, Round)
<1>0. Types /\ Pointers /\ Sums /\ Outputs /\ Typed(Buffers)
  BY DEF IInv, Types
<1>1. Typed(Called)
  <2>1. ipart \in 0 .. npar - 1
    BY <1>0 DEF Typed, Buffers
  <2>2. Turned(ipart) \in 0 .. npar - 1
    BY <1>0, <2>1, SlotTurned, Numbers
  <2>3. DOMAIN Written = 0 .. 5 * mode - 1
    BY <1>0, WrittenParts
  <2> QED
    BY <1>0, <2>1, <2>2, <2>3 DEF Typed, Called, Buffers, Fields
<1>2. Clean(Called)
  BY <1>0 DEF Outputs, Clean, Called, Buffers
<1>3. Behind(Called, Round)
  <2>1. CASE ifrag = 0
    <3>1. Round - mode = Base
      BY <1>0, <2>1, Numbers DEF Round
    <3> QED
      BY <1>0, <2>1, <3>1 DEF Outputs, Behind, Previous, Called
  <2>2. CASE ifrag # 0
    BY <1>0, <2>2 DEF Outputs, Behind, Previous, Called, Buffers, Round
  <2> QED
    BY <2>1, <2>2
<1>4. ifrag = 0 => Empty(Called)
  BY <1>0 DEF Sums, Empty, Called, Buffers
<1>5. ifrag # 0 => Round = Base
  BY DEF Round
<1>6. ASSUME NEW J, NEW k PROVE Held(Buffers, J, k, Base) => Held(Called, J, k, Base)
  BY DEF Held, Sum, Called, Buffers
<1>7. ASSUME NEW k PROVE Done(Buffers, k, Base) => Done(Called, k, Base)
  BY DEF Done, Called, Buffers
<1>8. mode = 4 /\ ifrag = 3 => Done(Called, 2, Round) /\ Done(Called, 3, Round)
  BY <1>0, <1>5, <1>7 DEF Outputs
<1> QED
  BY <1>0, <1>1, <1>2, <1>3, <1>4, <1>5, <1>6, <1>8 DEF Sums
-----------------------------------------------------------------------------
\* The last call of a round makes all outputs.
LEMMA LastCall ==
  ASSUME IInv, ifrag + 1 = mode
  PROVE  /\ Typed(Work(Called)) /\ Clean(Work(Called)) /\ Empty(Work(Called))
         /\ Rung(Work(Called), Round)
         /\ \A k \in Channel : Done(Work(Called), k, Round)
         /\ Work(Called).ipart = Called.ipart /\ Work(Called).op2 = Called.op2
         /\ mode # 1 => Work(Called).inp = Written
<1> DEFINE s == Called
           t == Work(s)
<1>0. Mode /\ Round \in Int /\ Typed(s) /\ Clean(s) /\ Behind(s, Round) /\ s.inp = Written
  BY CalledRest, Numbers DEF IInv, Called
<1>1. 0 \in {0, 2} /\ 2 \in {0, 2}
  OBVIOUS
<1>2. ASSUME NEW q, KeepsInputs(q, s), Rung(s, Round)
      PROVE  Behind(q, Round) /\ Rung(q, Round)
  BY <1>0, <1>2 DEF Behind, Previous, Rung, Ring, KeepsInputs
<1>3. CASE mode = 1
  <2>1. ifrag = 0
    BY <1>0, <1>3, Numbers DEF IInv
  <2> DEFINE q1 == AllForwards(s)
             q2 == Inverts(AllMulAccs(q1, 2), 2)
             q3 == Inverts(AllMulAccs(q2, 0), 0)
  <2>2. t = q3
    BY <1>3, <2>1 DEF Work
  <2> HIDE DEF t, s
  <2>3. Typed(q1) /\ KeepsOutputs(q1, s) /\ Rung(q1, Round)
    BY <1>0, <2>1, AllForwardsDone, CalledInputs, CalledRings, Zenon DEF s
  <2> HIDE DEF q1
  <2>4. Empty(q1) /\ Clean(q1) /\ Behind(q1, Round)
    <3>1. Empty(s)
      BY <2>1, CalledRest, Zenon DEF s
    <3> QED
      BY <1>0, <2>3, <3>1 DEF KeepsOutputs, Empty, Clean, Behind, Previous
  <2>5. InvertsDo(q2, q1, 2, Round)
    BY <1>0, <1>1, <2>3, <2>4, OutputsDone, Zenon
  <2> HIDE DEF q2
  <2>6. Typed(q2) /\ Clean(q2) /\ Empty(q2) /\ Rung(q2, Round) /\ Behind(q2, Round)
    BY <2>3, <2>4, <2>5 DEF InvertsDo, Empty, Rung, Ring, Behind, Previous, KeepsInputs
  <2>7. InvertsDo(q3, q2, 0, Round)
    BY <1>0, <1>1, <2>6, OutputsDone, Zenon
  <2> HIDE DEF q3
  <2>8. Finished(q3, q1, Round)
    BY <1>0, <2>5, <2>7, LastOutputs, Zenon
  <2>9. Rung(q3, Round) /\ q3.ipart = s.ipart /\ q3.op2 = s.op2
    BY <2>3, <2>8 DEF Finished, Rung, Ring, KeepsInputs, KeepsOutputs
  <2> QED
    BY <1>3, <2>2, <2>8, <2>9, Zenon DEF Finished, t, s
<1>4. CASE mode = 2
  <2>1. ifrag = 1
    BY <1>0, <1>4, Numbers DEF IInv
  <2> DEFINE q1 == Inverts(s, 2)
             q2 == Inverts(AllMulAccs(q1, 0), 0)
  <2>2. t = q2
    BY <1>4, <2>1 DEF Work
  <2>3. Held(s, Channel, 2, Round)
    BY <1>4, <2>1, CalledRest
  <2>4. Rung(s, Round)
    BY <1>4, <2>1, CalledRings DEF Rung, Aside
  <2> HIDE DEF t, s
  <2>5. 2 \in Channel /\ 2 + 1 \in Channel
    BY DEF Channel
  <2>6. InvertsDo(q1, s, 2, Round)
    BY <1>0, <1>1, <2>3, <2>5, InvertsDone, Zenon DEF Behind
  <2> HIDE DEF q1
  <2>7. Typed(q1) /\ Clean(q1) /\ Empty(q1) /\ KeepsInputs(q1, s)
    BY <2>6, Zenon DEF InvertsDo, Empty
  <2>8. InvertsDo(q2, q1, 0, Round)
    BY <1>0, <1>1, <1>2, <2>4, <2>7, OutputsDone, Zenon
  <2> HIDE DEF q2
  <2>9. Finished(q2, s, Round)
    BY <1>0, <2>6, <2>8, LastOutputs, Zenon
  <2>10. Rung(q2, Round)
    BY <1>2, <2>4, <2>9, Zenon DEF Finished
  <2>11. q2.inp = Written /\ q2.ipart = s.ipart /\ q2.op2 = s.op2
    BY <1>0, <2>9, Zenon DEF Finished, KeepsInputs
  <2> QED
    BY <2>2, <2>9, <2>10, <2>11, Zenon DEF Finished, t, s
<1>5. CASE mode = 4
  <2>1. ifrag = 3
    BY <1>0, <1>5, Numbers DEF IInv
  <2> DEFINE q1 == MulAccs(s, 0, 0)
             q2 == Inverts(q1, 0)
  <2>2. t = q2
    BY <1>5, <2>1 DEF Work
  <2>3. Held(s, {2, 3}, 0, Round) /\ Done(s, 2, Round) /\ Done(s, 3, Round)
    BY <1>5, <2>1, CalledRest
  <2>4. Rung(s, Round)
    BY <1>5, <2>1, CalledRings DEF Rung, Aside
  <2> HIDE DEF t, s
  <2>5. /\ 0 \in Channel /\ 0 + 1 \in Channel
        /\ 0 \notin {2, 3} /\ 0 + 1 \notin {2, 3}
        /\ {2, 3} \cup {0, 0 + 1} = Channel
        /\ Channel \ {0, 0 + 1} = {2, 3}
    BY DEF Channel
  <2>6. Multiplied(q1, s, {2, 3} \cup {0, 0 + 1}, 0, Round)
    BY <1>0, <1>1, <2>3, <2>4, <2>5, MulAccsDone, Zenon DEF Rung
  <2>7. Multiplied(q1, s, Channel, 0, Round)
    BY <2>5, <2>6, Zenon
  <2> HIDE DEF q1
  <2>8. /\ Typed(q1) /\ Clean(q1) /\ KeepsInputs(q1, s) /\ q1.op1 = s.op1
        /\ Held(q1, Channel, 0, Round)
    BY <2>7, Zenon DEF Multiplied
  <2>9. Previous(q1, 0, Round) /\ Previous(q1, 0 + 1, Round)
    BY <1>2, <2>4, <2>5, <2>8, Zenon DEF Behind
  <2>10. InvertsDo(q2, q1, 0, Round)
    BY <1>0, <1>1, <2>8, <2>9, InvertsDone, Zenon
  <2> HIDE DEF q2
  <2>11. KeepsInputs(q2, s)
    BY <2>8, <2>10 DEF InvertsDo, KeepsInputs
  <2>12. ASSUME NEW k \in Channel PROVE Done(q2, k, Round)
    <3>1. CASE k \in {0, 0 + 1}
      BY <2>10, <3>1, Zenon DEF InvertsDo
    <3>2. CASE k \in {2, 3}
      <4>1. q2.op1[k] = s.op1[k]
        BY <2>5, <2>8, <2>10, <3>2 DEF InvertsDo
      <4>2. Done(s, k, Round)
        BY <2>3, <3>2, Zenon
      <4> QED
        BY <4>1, <4>2 DEF Done
    <3> QED
      BY <2>5, <3>1, <3>2, Zenon
  <2>13. Rung(q2, Round)
    BY <1>2, <2>4, <2>11, Zenon
  <2>14. q2.inp = Written /\ q2.ipart = s.ipart /\ q2.op2 = s.op2
    BY <1>0, <2>11, Zenon DEF KeepsInputs
  <2>15. Typed(q2) /\ Clean(q2) /\ Empty(q2)
    BY <2>10, Zenon DEF InvertsDo, Empty
  <2> QED
    BY <2>2, <2>12, <2>13, <2>14, <2>15, Zenon DEF t, s
<1> QED
  BY <1>0, <1>3, <1>4, <1>5, Zenon DEF Mode

\* What an earlier call leaves for the next.
Earlier(t, b) ==
  /\ Typed(t) /\ Clean(t) /\ t.op2 = Called.op2 /\ t.ipart = Called.ipart
  /\ \A j \in Channel :
       IF mode = 4 /\ ifrag = 0 /\ j \in {0, 1} THEN Older(t, j, b) ELSE Ring(t, j, b)
  /\ mode = 4 /\ ifrag = 0 => \A j \in {0, 1} : Ready(t, j, b)
  /\ mode = 4 /\ ifrag = 1 => \A i \in Channel : t.inp[16 + i] = Written[16 + i]
  /\ mode = 4 /\ ifrag = 2 => t.inp = Written
  /\ mode = 2 => Held(t, Channel, 2, b)
  /\ mode = 4 /\ ifrag = 0 => Held(t, {2, 3}, 2, b)
  /\ mode = 4 /\ ifrag = 1 => Held(t, Channel, 2, b)
  /\ mode = 4 /\ ifrag = 2 => Held(t, {2, 3}, 0, b) /\ Done(t, 2, b) /\ Done(t, 3, b)

\* With two fragments, the first call of a round.
LEMMA EarlierOfTwo ==
  ASSUME IInv, mode = 2, ifrag = 0
  PROVE  Earlier(Work(Called), Round)
<1> DEFINE s == Called
           q == AllForwards(s)
           t == AllMulAccs(q, 2)
<1>0. Mode /\ Round \in Int /\ Typed(s) /\ Clean(s) /\ Empty(s) /\ 2 \in {0, 2}
  BY CalledRest, Numbers DEF IInv
<1>1. Work(s) = t
  BY DEF Work
<1>2. \A j \in Channel : Older(s, j, Round) /\ Ready(s, j, Round)
  BY CalledInputs, CalledRings, Zenon
<1> HIDE DEF s
<1>3. Typed(q) /\ KeepsOutputs(q, s) /\ Rung(q, Round)
  BY <1>0, <1>2, AllForwardsDone, Zenon
<1> HIDE DEF q
<1>4. Held(q, {}, 2, Round) /\ Clean(q)
  <2>1. Empty(q) /\ Clean(q)
    BY <1>0, <1>3 DEF KeepsOutputs, Empty, Clean
  <2> QED
    BY <2>1, NothingHeld DEF Empty
<1>5. Multiplied(t, q, Channel, 2, Round)
  BY <1>0, <1>3, <1>4, AllMulAccsDone, Zenon DEF Rung
<1> HIDE DEF t
<1>6. /\ Typed(t) /\ Clean(t) /\ Held(t, Channel, 2, Round)
      /\ \A j \in Channel : Ring(t, j, Round)
  BY <1>3, <1>5, RingKept, Zenon DEF Multiplied, Rung
<1>7. t.op2 = s.op2 /\ t.ipart = s.ipart
  BY <1>3, <1>5, Zenon DEF Multiplied, KeepsInputs, KeepsOutputs
<1>8. mode # 4
  OBVIOUS
<1>9. Earlier(t, Round)
  BY <1>6, <1>7, <1>8, Zenon DEF Earlier, s
<1> QED
  BY <1>1, <1>9, Zenon DEF s

\* With four fragments, the first call of a round.
LEMMA FirstOfFour ==
  ASSUME IInv, mode = 4, ifrag = 0
  PROVE  Earlier(Work(Called), Round)
<1> DEFINE s == Called
           q == Forwards(s, 2)
           t == MulAccs(q, 2, 2)
<1>0. Mode /\ Round \in Int /\ Typed(s) /\ Clean(s) /\ Empty(s) /\ 2 \in {0, 2}
  BY CalledRest, Numbers DEF IInv
<1>1. Work(s) = t
  BY DEF Work
<1>2. \A j \in Channel : Older(s, j, Round) /\ Ready(s, j, Round)
  BY CalledInputs, CalledRings, Zenon
<1> HIDE DEF s
<1>3. /\ {2, 2 + 1} \subseteq Channel /\ Channel \ {2, 2 + 1} = {0, 1}
      /\ Channel = {0, 1} \cup {2, 2 + 1} /\ {2, 2 + 1} = {2, 3}
      /\ 2 \in {2, 2 + 1} /\ 2 + 1 \in {2, 2 + 1}
      /\ 2 \notin {} /\ 2 + 1 \notin {} /\ {} \cup {2, 2 + 1} = {2, 3}
  BY DEF Channel
<1>4. \A i \in {2, 2 + 1} : Older(s, i, Round) /\ Ready(s, i, Round)
  BY <1>2, <1>3, Zenon
<1>5. /\ Typed(q) /\ KeepsOutputs(q, s)
      /\ \A i \in {2, 2 + 1} : Ring(q, i, Round)
      /\ \A i \in Channel \ {2, 2 + 1} : q.fwd[i] = s.fwd[i]
      /\ \A c \in 0 .. 5 * mode - 1 :
           q.inp[c] = IF c \in (2 + 1) * mode .. (2 + 3) * mode - 1 THEN Silence ELSE s.inp[c]
  BY <1>0, <1>4, ForwardsDone
<1> HIDE DEF q
<1>6. Held(q, {}, 2, Round) /\ Clean(q)
  <2>1. Empty(q) /\ Clean(q)
    BY <1>0, <1>5 DEF KeepsOutputs, Empty, Clean
  <2> QED
    BY <2>1, NothingHeld DEF Empty
<1>7. Multiplied(t, q, {} \cup {2, 2 + 1}, 2, Round)
  BY <1>0, <1>3, <1>5, <1>6, MulAccsDone, Zenon
<1>8. Multiplied(t, q, {2, 3}, 2, Round)
  BY <1>3, <1>7, Zenon
<1> HIDE DEF t
<1>9. Typed(t) /\ Clean(t) /\ Held(t, {2, 3}, 2, Round) /\ KeepsInputs(t, q)
  BY <1>8, Zenon DEF Multiplied
<1>10. ASSUME NEW j \in {0, 1}
       PROVE  Older(t, j, Round) /\ Ready(t, j, Round)
  <2>1. Older(s, j, Round) /\ Ready(s, j, Round)
    BY <1>2, <1>3, Zenon
  <2>2. t.fwd[j] = s.fwd[j] /\ t.ipart = s.ipart
    BY <1>3, <1>5, <1>9 DEF KeepsInputs, KeepsOutputs
  <2>3. ASSUME NEW a \in Part
        PROVE  t.inp[j * mode + a] = s.inp[j * mode + a]
    BY <1>5, <1>9 DEF KeepsInputs, Part
  <2> QED
    BY <2>1, <2>2, <2>3 DEF Older, Ready
<1>11. \A j \in {2, 3} : Ring(t, j, Round)
  BY <1>3, <1>5, <1>9, RingKept, Zenon
<1>12. \A j \in Channel :
         IF mode = 4 /\ ifrag = 0 /\ j \in {0, 1} THEN Older(t, j, Round) ELSE Ring(t, j, Round)
  BY <1>3, <1>10, <1>11, Zenon
<1>13. t.op2 = s.op2 /\ t.ipart = s.ipart
  BY <1>5, <1>9, Zenon DEF KeepsInputs, KeepsOutputs
<1>14. mode # 2 /\ ifrag # 1 /\ ifrag # 2
  OBVIOUS
<1>15. Earlier(t, Round)
  BY <1>9, <1>10, <1>12, <1>13, <1>14, Zenon DEF Earlier, s
<1> QED
  BY <1>1, <1>15, Zenon DEF s

\* The second.
LEMMA SecondOfFour ==
  ASSUME IInv, mode = 4, ifrag = 1
  PROVE  Earlier(Work(Called), Round)
<1> DEFINE s == Called
           q == Forwards(s, 0)
           t == MulAccs(q, 0, 2)
<1>0. Mode /\ Round \in Int /\ Typed(s) /\ Clean(s) /\ 0 \in {0, 2} /\ 2 \in {0, 2}
  BY CalledRest, Numbers DEF IInv
<1>1. Work(s) = t /\ Aside /\ Round = Base
  BY DEF Work, Aside, Round
<1>2. Held(s, {2, 3}, 2, Round) /\ s.inp = Written
  BY CalledRest DEF Called
<1>3. \A j \in {0, 1} : Ready(s, j, Round)
  BY <1>1, CalledInputs, Zenon
<1>4. \A j \in Channel : IF j \in {0, 1} THEN Older(s, j, Round) ELSE Ring(s, j, Round)
  BY <1>1, CalledRings
<1> HIDE DEF s
<1>5. /\ {0, 0 + 1} = {0, 1} /\ {0, 1} \subseteq Channel
      /\ Channel \ {0, 0 + 1} = {2, 3} /\ Channel = {0, 0 + 1} \cup {2, 3}
      /\ 0 \in {0, 0 + 1} /\ 0 + 1 \in {0, 0 + 1}
      /\ 0 \notin {2, 3} /\ 0 + 1 \notin {2, 3} /\ {2, 3} \cup {0, 0 + 1} = Channel
  BY DEF Channel
<1>6. \A i \in {0, 0 + 1} : Older(s, i, Round) /\ Ready(s, i, Round)
  BY <1>3, <1>4, <1>5, Zenon
<1>7. /\ Typed(q) /\ KeepsOutputs(q, s)
      /\ \A i \in {0, 0 + 1} : Ring(q, i, Round)
      /\ \A i \in Channel \ {0, 0 + 1} : q.fwd[i] = s.fwd[i]
      /\ \A c \in 0 .. 5 * mode - 1 :
           q.inp[c] = IF c \in (0 + 1) * mode .. (0 + 3) * mode - 1 THEN Silence ELSE s.inp[c]
  BY <1>0, <1>6, ForwardsDone
<1> HIDE DEF q
<1>8. Held(q, {2, 3}, 2, Round) /\ Clean(q)
  BY <1>0, <1>2, <1>7 DEF KeepsOutputs, Held, Sum, Clean
<1>9. Multiplied(t, q, {2, 3} \cup {0, 0 + 1}, 2, Round)
  BY <1>0, <1>5, <1>7, <1>8, MulAccsDone, Zenon
<1>10. Multiplied(t, q, Channel, 2, Round)
  BY <1>5, <1>9, Zenon
<1> HIDE DEF t
<1>11. Typed(t) /\ Clean(t) /\ Held(t, Channel, 2, Round) /\ KeepsInputs(t, q)
  BY <1>10, Zenon DEF Multiplied
<1>12. ASSUME NEW j \in {2, 3} PROVE Ring(t, j, Round)
  <2>1. Ring(s, j, Round)
    BY <1>4 DEF Channel
  <2>2. t.fwd[j] = s.fwd[j] /\ t.ipart = s.ipart
    BY <1>5, <1>7, <1>11 DEF KeepsInputs, KeepsOutputs
  <2> QED
    BY <2>1, <2>2 DEF Ring
<1>13. \A j \in {0, 0 + 1} : Ring(t, j, Round)
  BY <1>7, <1>11, RingKept, Zenon
<1>14. \A j \in Channel : Ring(t, j, Round)
  BY <1>5, <1>12, <1>13, Zenon
<1>15. \A i \in Channel : t.inp[16 + i] = Written[16 + i]
  BY <1>2, <1>7, <1>11 DEF KeepsInputs, Channel
<1>16. t.op2 = s.op2 /\ t.ipart = s.ipart
  BY <1>7, <1>11, Zenon DEF KeepsInputs, KeepsOutputs
<1>17. mode # 2 /\ ifrag # 0 /\ ifrag # 2
  OBVIOUS
<1>18. Earlier(t, Round)
  BY <1>11, <1>14, <1>15, <1>16, <1>17, Zenon DEF Earlier, s
<1> QED
  BY <1>1, <1>18, Zenon DEF s

\* The third.
LEMMA ThirdOfFour ==
  ASSUME IInv, mode = 4, ifrag = 2
  PROVE  Earlier(Work(Called), Round)
<1> DEFINE s == Called
           q == Inverts(s, 2)
           t == MulAccs(q, 2, 0)
<1>0. /\ Mode /\ Round \in Int /\ Typed(s) /\ Clean(s) /\ Behind(s, Round)
      /\ 0 \in {0, 2} /\ 2 \in {0, 2} /\ s.inp = Written /\ Held(s, Channel, 2, Round)
  BY CalledRest, Numbers DEF IInv, Called
<1>1. Work(s) = t
  BY DEF Work
<1>2. \A j \in Channel : Ring(s, j, Round)
  BY CalledRings DEF Aside
<1> HIDE DEF s
<1>3. /\ 2 \in Channel /\ 2 + 1 \in Channel /\ 2 + 1 = 3
      /\ 2 \notin {} /\ 2 + 1 \notin {} /\ {} \cup {2, 2 + 1} = {2, 3}
  BY DEF Channel
<1>4. InvertsDo(q, s, 2, Round)
  BY <1>0, <1>3, InvertsDone, Zenon DEF Behind
<1> HIDE DEF q
<1>5. /\ Typed(q) /\ Clean(q) /\ KeepsInputs(q, s) /\ Empty(q)
      /\ Done(q, 2, Round) /\ Done(q, 3, Round)
  BY <1>3, <1>4, Zenon DEF InvertsDo, Empty
<1>6. Held(q, {}, 0, Round)
  BY <1>5, NothingHeld DEF Empty
<1>7. Ring(q, 2, Round) /\ Ring(q, 2 + 1, Round)
  BY <1>2, <1>3, <1>5, RingKept, Zenon
<1>8. Multiplied(t, q, {} \cup {2, 2 + 1}, 0, Round)
  BY <1>0, <1>3, <1>5, <1>6, <1>7, MulAccsDone, Zenon
<1>9. Multiplied(t, q, {2, 3}, 0, Round)
  BY <1>3, <1>8, Zenon
<1> HIDE DEF t
<1>10. /\ Typed(t) /\ Clean(t) /\ Held(t, {2, 3}, 0, Round)
       /\ KeepsInputs(t, q) /\ t.op1 = q.op1
  BY <1>9, Zenon DEF Multiplied
<1>11. Done(t, 2, Round) /\ Done(t, 3, Round)
  BY <1>5, <1>10, Zenon DEF Done
<1>12. KeepsInputs(t, s)
  BY <1>5, <1>10 DEF KeepsInputs
<1>13. \A j \in Channel : Ring(t, j, Round)
  BY <1>2, <1>12, RingKept, Zenon
<1>14. t.op2 = s.op2 /\ t.ipart = s.ipart /\ t.inp = Written
  BY <1>0, <1>12, Zenon DEF KeepsInputs
<1>15. mode # 2 /\ ifrag # 0 /\ ifrag # 1
  OBVIOUS
<1>16. Earlier(t, Round)
  BY <1>10, <1>11, <1>13, <1>14, <1>15, Zenon DEF Earlier, s
<1> QED
  BY <1>1, <1>16, Zenon DEF s

LEMMA EarlierCall ==
  ASSUME IInv, ifrag + 1 # mode
  PROVE  Earlier(Work(Called), Round)
<1>1. Mode /\ ifrag \in 0 .. mode - 1
  BY Numbers DEF IInv
<1>2. \/ mode = 2 /\ ifrag = 0
      \/ mode = 4 /\ ifrag = 0
      \/ mode = 4 /\ ifrag = 1
      \/ mode = 4 /\ ifrag = 2
  BY <1>1 DEF Mode
<1> QED
  BY <1>2, EarlierOfTwo, FirstOfFour, SecondOfFour, ThirdOfFour, Zenon
-----------------------------------------------------------------------------
\* A call leaves the invariant.

LEMMA CopiedParts ==
  ASSUME Types, Pointers, NEW buff, DOMAIN buff = 0 .. 5 * mode - 1
  PROVE  /\ DOMAIN Copied(buff) = 0 .. 5 * mode - 1
         /\ ~Aside => Copied(buff) = buff
         /\ Aside => \A i \in Channel : Copied(buff)[i * mode] = buff[16 + i]
<1>1. ~Aside => Copied(buff) = buff
  BY DEF Copied, Aside
<1>2. ASSUME Aside
      PROVE  /\ DOMAIN Copied(buff) = 0 .. 5 * mode - 1
             /\ \A i \in Channel : Copied(buff)[i * mode] = buff[16 + i]
  <2>1. mode = 4 /\ ifrag = 1 /\ \A i \in Channel : wr[i] = 16 + i
    BY <1>2 DEF Aside, Pointers, Channel
  <2>2. Copied(buff) = [c \in DOMAIN buff |->
          IF \E i \in Channel : c = i * mode
          THEN buff[wr[CHOOSE i \in Channel : c = i * mode]] ELSE buff[c]]
    BY <2>1 DEF Copied
  <2>3. ASSUME NEW i \in Channel
        PROVE  Copied(buff)[i * mode] = buff[16 + i]
    <3>1. i * mode \in DOMAIN buff
      BY <2>1 DEF Channel
    <3>2. \A k \in Channel : i * mode = k * mode => k = i
      BY <2>1 DEF Channel
    <3>3. (CHOOSE k \in Channel : i * mode = k * mode) = i
      BY <3>2
    <3>4. Copied(buff)[i * mode] = buff[wr[CHOOSE k \in Channel : i * mode = k * mode]]
      BY <2>2, <3>1
    <3> QED
      BY <2>1, <3>3, <3>4
  <2> QED
    BY <2>2, <2>3
<1> QED
  BY <1>1, <1>2

LEMMA ProcessFields ==
  ASSUME IInv, Process, NEW t, t = Work(Called)
  PROVE  /\ mode' = mode /\ npar' = npar /\ conv' = conv
         /\ n' = n + 1 /\ wr' = NextWrite
         /\ inp' = Copied(t.inp) /\ fwd' = t.fwd /\ md' = t.md
         /\ doubled' = t.doubled /\ ipart' = Called.ipart
         /\ ifrag + 1 = mode => op1' = t.op2 /\ op2' = t.op1 /\ rd' = 0 /\ ifrag' = 0
         /\ ifrag + 1 # mode =>
              op1' = t.op1 /\ op2' = t.op2 /\ rd' = rd + 1 /\ ifrag' = ifrag + 1
<1>1. Called = [inp |-> Written, fwd |-> fwd, md |-> md, op1 |-> op1, op2 |-> op2,
                doubled |-> doubled,
                ipart |-> IF ifrag # 0 THEN ipart
                          ELSE IF ipart = 0 THEN npar - 1 ELSE ipart - 1]
  BY DEF Called, Turned
<1> QED
  BY <1>1 DEF Process, config

LEMMA NextNumbers ==
  ASSUME Types, mode' = mode, n' = n + 1,
         ifrag + 1 = mode => ifrag' = 0, ifrag + 1 # mode => ifrag' = ifrag + 1
  PROVE  /\ Rank' = ifrag + 1 /\ Base' = Round
         /\ Aside' <=> mode = 4 /\ ifrag = 0
BY Numbers DEF Mode, Rank, Base, Round, Aside

LEMMA NextBuffers ==
  ASSUME mode' = mode, npar' = npar, conv' = conv, NEW t, NEW b,
         fwd' = t.fwd, md' = t.md, doubled' = t.doubled, ipart' = t.ipart, Base' = b
  PROVE  /\ \A j : Ring(t, j, b) => Ring(Buffers, j, Base)'
         /\ \A j : Older(t, j, b) => Older(Buffers, j, Base)'
         /\ \A J, k : Held(t, J, k, b) => Held(Buffers, J, k, Base)'
         /\ Clean(t) => Clean(Buffers)'
         /\ Empty(t) => Empty(Buffers)'
<1>1. ASSUME NEW g, NEW p PROVE Slot(g, p)' = Slot(g, p)
  BY DEF Slot
<1>2. ASSUME NEW j, NEW x PROVE Partition(j, x)' = Partition(j, x)
  BY SameConfig
<1>3. ASSUME NEW J, NEW k, NEW x PROVE TermsOf(J, k, x)' = TermsOf(J, k, x)
  BY SameConfig
<1>4. ASSUME NEW j, Ring(t, j, b) PROVE Ring(Buffers, j, Base)'
  BY <1>1, <1>2, <1>4 DEF Ring, Buffers
<1>5. ASSUME NEW j, Older(t, j, b) PROVE Older(Buffers, j, Base)'
  BY <1>1, <1>2, <1>5 DEF Older, Buffers
<1>6. ASSUME NEW J, NEW k, Held(t, J, k, b) PROVE Held(Buffers, J, k, Base)'
  BY <1>3, <1>6 DEF Held, Sum, Buffers
<1>7. (Clean(t) => Clean(Buffers)') /\ (Empty(t) => Empty(Buffers)')
  BY DEF Clean, Empty, Buffers
<1> QED
  BY <1>4, <1>5, <1>6, <1>7

LEMMA AfterLast ==
  ASSUME IInv, Process, ifrag + 1 = mode
  PROVE  IInv'
<1> DEFINE t == Work(Called)
<1>0. Types /\ Pointers
  BY DEF IInv
<1>1. /\ mode' = mode /\ npar' = npar /\ conv' = conv
      /\ n' = n + 1 /\ wr' = NextWrite
      /\ inp' = Copied(t.inp) /\ fwd' = t.fwd /\ md' = t.md
      /\ doubled' = t.doubled /\ ipart' = Called.ipart
      /\ op1' = t.op2 /\ op2' = t.op1 /\ rd' = 0 /\ ifrag' = 0
  BY ProcessFields
<1>2. /\ Typed(t) /\ Clean(t) /\ Empty(t) /\ Rung(t, Round)
      /\ \A k \in Channel : Done(t, k, Round)
      /\ t.ipart = Called.ipart /\ t.op2 = Called.op2
      /\ mode # 1 => t.inp = Written
  BY LastCall
<1> HIDE DEF t
<1>3. Mode /\ mode \in Nat /\ ifrag = mode - 1 /\ n \in Nat /\ Round \in Int /\ n' \in Nat
  BY <1>0, <1>1, Numbers
<1>4. Rank' = mode /\ Base' = Round /\ ~Aside' /\ ~Aside
  BY <1>0, <1>1, <1>3, NextNumbers DEF Aside, Mode
<1>5. inp' = t.inp
  BY <1>0, <1>1, <1>2, <1>4, CopiedParts DEF Typed
<1>6. /\ \A j : Ring(t, j, Round) => Ring(Buffers, j, Base)'
      /\ Clean(Buffers)' /\ Empty(Buffers)'
  BY <1>1, <1>2, <1>4, NextBuffers
<1>7. Types'
  <2>1. DOMAIN op2 = Channel /\ t.op2 = op2
    BY <1>0, <1>2 DEF Types, Called
  <2>2. Typed(Buffers)'
    BY <1>1, <1>2, <1>5, <2>1 DEF Typed, Buffers, Fields
  <2>3. DOMAIN op2' = Channel
    BY <1>1, <1>2 DEF Typed
  <2>4. Mode'
    BY <1>1, <1>3 DEF Mode
  <2>5. ifrag' \in 0 .. mode' - 1
    BY <1>1, <1>3 DEF Mode
  <2> QED
    BY <1>3, <2>2, <2>3, <2>4, <2>5 DEF Types
<1>8. Pointers'
  <2>1. wr' = [i \in Channel |-> i * mode + mode - 1]
    <3>0. wr = [i \in Channel |-> i * mode + Rank - 1]
      BY <1>0, <1>4 DEF Pointers
    <3>1. CASE mode = 1
      <4>1. Rank = mode
        BY <1>3, <3>1 DEF Rank
      <4> QED
        BY <1>1, <3>0, <3>1, <4>1 DEF NextWrite
    <3>2. CASE mode # 1
      <4>1. Rank = mode - 1
        BY <1>3, <3>2 DEF Rank, Mode
      <4>2. wr' = [i \in Channel |-> wr[i] + 1]
        BY <1>1, <1>3, <3>2 DEF NextWrite, Mode
      <4> QED
        BY <1>3, <3>0, <4>1, <4>2 DEF Channel, Mode
    <3> QED
      BY <3>1, <3>2
  <2> QED
    BY <1>1, <1>4, <2>1 DEF Pointers
<1>9. Inputs'
  <2>1. ASSUME NEW j \in Channel, NEW a \in 0 .. mode - 2
        PROVE  inp'[j * mode + a] = Frag(j, Round + mode + a)
    <3>0. mode # 1 /\ Rank = mode - 1 /\ Round = Base
      BY <1>3 DEF Rank, Round, Mode
    <3>1. inp' = Written
      BY <1>2, <1>5, <3>0
    <3>2. CASE a \in 0 .. Rank - 2
      BY <3>0, <3>1, <3>2, CalledInputs
    <3>3. CASE a = Rank - 1
      <4>1. wr[j] = j * mode + Rank - 1
        BY <1>0, <1>4 DEF Pointers
      <4>2. j * mode + Rank - 1 = j * mode + a /\ Round + mode + a = n + 1
        BY <1>0, <1>3, <3>0, <3>3, Numbers DEF Channel
      <4> QED
        BY <1>0, <3>1, <4>1, <4>2, WrittenParts
    <3> QED
      BY <1>3, <3>0, <3>2, <3>3
  <2> QED
    BY <1>1, <1>4, <2>1 DEF Inputs
<1>10. Rings'
  <2>1. \A j \in Channel : Ring(Buffers, j, Base)'
    BY <1>2, <1>6, Zenon DEF Rung
  <2> QED
    BY <1>4, <2>1, Zenon DEF Rings
<1>11. Sums'
  BY <1>1, <1>6 DEF Sums
<1>12. Outputs'
  <2>1. ASSUME NEW k, NEW x PROVE Result(k, x)' = Result(k, x)
    BY <1>1, SameConfig
  <2>2. ASSUME NEW k \in Channel PROVE op2'[k] = Result(k, Base)'
    BY <1>1, <1>2, <1>4, <2>1 DEF Done
  <2> QED
    BY <1>1, <1>6, <2>2 DEF Outputs
<1> QED
  BY <1>7, <1>8, <1>9, <1>10, <1>11, <1>12 DEF IInv

LEMMA AfterEarlier ==
  ASSUME IInv, Process, ifrag + 1 # mode
  PROVE  IInv'
<1> DEFINE t == Work(Called)
<1>0. Types /\ Pointers
  BY DEF IInv
<1>1. /\ mode' = mode /\ npar' = npar /\ conv' = conv
      /\ n' = n + 1 /\ wr' = NextWrite
      /\ inp' = Copied(t.inp) /\ fwd' = t.fwd /\ md' = t.md
      /\ doubled' = t.doubled /\ ipart' = Called.ipart
      /\ op1' = t.op1 /\ op2' = t.op2 /\ rd' = rd + 1 /\ ifrag' = ifrag + 1
  BY ProcessFields
<1>2. Earlier(t, Round)
  BY EarlierCall
<1> HIDE DEF t
<1>3. /\ Typed(t) /\ Clean(t) /\ t.op2 = Called.op2 /\ t.ipart = Called.ipart
      /\ DOMAIN t.inp = 0 .. 5 * mode - 1
  BY <1>2, Zenon DEF Earlier, Typed
<1>4. /\ Mode /\ mode \in {2, 4} /\ ifrag \in 0 .. mode - 2
      /\ n \in Nat /\ Round \in Int /\ n' \in Nat
  BY <1>0, <1>1, Numbers DEF Mode
<1>5. Rank' = ifrag + 1 /\ Base' = Round /\ (Aside' <=> mode = 4 /\ ifrag = 0)
  BY <1>0, <1>1, NextNumbers
<1>6. /\ \A j : Ring(t, j, Round) => Ring(Buffers, j, Base)'
      /\ \A j : Older(t, j, Round) => Older(Buffers, j, Base)'
      /\ \A J, k : Held(t, J, k, Round) => Held(Buffers, J, k, Base)'
      /\ Clean(Buffers)'
  BY <1>1, <1>3, <1>5, NextBuffers
<1>7. Types'
  <2>1. DOMAIN op2' = Channel
    BY <1>0, <1>1, <1>3 DEF Types, Called
  <2>2. Typed(Buffers)'
    <3>1. DOMAIN inp' = 0 .. 5 * mode - 1
      BY <1>0, <1>1, <1>3, CopiedParts
    <3> QED
      BY <1>1, <1>3, <3>1 DEF Typed, Buffers, Fields
  <2>3. Mode'
    BY <1>1, <1>4 DEF Mode
  <2>4. ifrag' \in 0 .. mode' - 1
    BY <1>1, <1>4
  <2> QED
    BY <1>4, <2>1, <2>2, <2>3, <2>4 DEF Types
<1>8. Pointers'
  <2>1. CASE ifrag = 0
    BY <1>0, <1>1, <1>4, <1>5, <2>1 DEF Pointers, NextWrite, Channel
  <2>2. CASE ifrag = 1
    BY <1>0, <1>1, <1>4, <1>5, <2>2 DEF Pointers, NextWrite, Channel
  <2>3. CASE ifrag = 2
    <3>1. mode = 4 /\ Rank = 2 /\ ~Aside
      BY <1>4, <2>3 DEF Rank, Aside
    <3>2. \A i \in Channel : wr[i] = i * mode + Rank - 1
      BY <1>0, <3>1 DEF Pointers
    <3>3. wr' = [i \in Channel |-> wr[i] + 1]
      BY <1>1, <2>3, <3>1 DEF NextWrite
    <3>4. wr' = [i \in Channel |-> i * mode + 3 - 1]
      BY <3>1, <3>2, <3>3 DEF Channel
    <3> QED
      BY <1>0, <1>1, <1>5, <2>3, <3>1, <3>4 DEF Pointers
  <2> QED
    BY <1>4, <2>1, <2>2, <2>3
<1>9. Inputs'
  <2>1. CASE ifrag = 0
    <3>1. ASSUME Aside', NEW j \in {0, 1} PROVE Ready(Buffers, j, Base)'
      <4>1. Ready(t, j, Round) /\ inp' = t.inp
        BY <1>0, <1>1, <1>2, <1>3, <1>5, <2>1, <3>1, CopiedParts DEF Earlier, Aside
      <4>2. Part' = Part
        BY <1>1 DEF Part
      <4> QED
        BY <1>1, <1>5, <4>1, <4>2 DEF Ready, Buffers
    <3> QED
      BY <1>4, <1>5, <2>1, <3>1 DEF Inputs
  <2>2. CASE ifrag = 1
    <3>1. mode = 4 /\ Aside /\ ~Aside' /\ Round = Base /\ Rank = 1 /\ Round + mode = n + 1
      BY <1>0, <1>4, <1>5, <2>2, Numbers DEF Aside, Round, Rank
    <3>2. ASSUME NEW j \in Channel
          PROVE  inp'[j * mode] = Frag(j, n + 1)
      <4>1. inp'[j * mode] = t.inp[16 + j]
        BY <1>0, <1>1, <1>3, <3>1, CopiedParts
      <4>2. t.inp[16 + j] = Written[16 + j]
        BY <1>2, <2>2, <3>1 DEF Earlier
      <4>3. wr[j] = 16 + j
        BY <1>0, <3>1 DEF Pointers
      <4> QED
        BY <1>0, <4>1, <4>2, <4>3, WrittenParts
    <3>3. ASSUME NEW j \in Channel, NEW a \in 0 .. 0
          PROVE  inp'[j * mode + a] = Frag(j, Round + mode + a)
      <4>1. a = 0 /\ j * mode + a = j * mode /\ Round + mode + a = n + 1
        BY <1>4, <3>1 DEF Channel
      <4> QED
        BY <3>2, <4>1
    <3> QED
      BY <1>1, <1>5, <2>2, <3>1, <3>3 DEF Inputs
  <2>3. CASE ifrag = 2
    <3>1. mode = 4 /\ ~Aside /\ ~Aside' /\ Round = Base /\ Rank = 2
      BY <1>4, <1>5, <2>3 DEF Aside, Round, Rank
    <3>2. inp' = Written
      BY <1>0, <1>1, <1>2, <1>3, <2>3, <3>1, CopiedParts DEF Earlier
    <3>3. ASSUME NEW j \in Channel, NEW a \in 0 .. 1
          PROVE  inp'[j * mode + a] = Frag(j, Round + mode + a)
      <4>1. CASE a = 0
        <5>1. a \in 0 .. Rank - 2
          BY <3>1, <4>1
        <5>2. Written[j * mode + a] = Frag(j, Base + mode + a)
          BY <5>1, CalledInputs
        <5> QED
          BY <3>1, <3>2, <5>2
      <4>2. CASE a = 1
        <5>1. wr[j] = j * mode + 1
          BY <1>0, <3>1 DEF Pointers, Channel
        <5>2. Round + mode + a = n + 1
          BY <1>0, <3>1, <4>2, Numbers
        <5> QED
          BY <1>0, <3>2, <4>2, <5>1, <5>2, WrittenParts
      <4> QED
        BY <4>1, <4>2
    <3> QED
      BY <1>1, <1>5, <2>3, <3>1, <3>3 DEF Inputs
  <2> QED
    BY <1>4, <2>1, <2>2, <2>3
<1>10. Rings'
  <2>1. ASSUME NEW j \in Channel
        PROVE  IF mode = 4 /\ ifrag = 0 /\ j \in {0, 1}
               THEN Older(t, j, Round) ELSE Ring(t, j, Round)
    BY <1>2, Zenon DEF Earlier
  <2> QED
    BY <1>5, <1>6, <2>1, Zenon DEF Rings
<1>11. Sums'
  <2>1. ifrag' # 0
    BY <1>1, <1>4
  <2>2. mode' = 2 /\ ifrag' = 1 => Held(Buffers, Channel, 2, Base)'
    BY <1>1, <1>2, <1>6, Zenon DEF Earlier
  <2>3. ifrag' = 1 => ifrag = 0
    BY <1>1, <1>4
  <2>4. ifrag' = 2 => ifrag = 1
    BY <1>1, <1>4
  <2>5. ifrag' = 3 => ifrag = 2
    BY <1>1, <1>4
  <2>6. mode' = 4 /\ ifrag' = 1 => Held(Buffers, {2, 3}, 2, Base)'
    BY <1>1, <1>2, <1>6, <2>3, Zenon DEF Earlier
  <2>7. mode' = 4 /\ ifrag' = 2 => Held(Buffers, Channel, 2, Base)'
    BY <1>1, <1>2, <1>6, <2>4, Zenon DEF Earlier
  <2>8. mode' = 4 /\ ifrag' = 3 => Held(Buffers, {2, 3}, 0, Base)'
    BY <1>1, <1>2, <1>6, <2>5, Zenon DEF Earlier
  <2> QED
    BY <2>1, <2>2, <2>6, <2>7, <2>8, Zenon DEF Sums
<1>12. Outputs'
  <2>1. ASSUME NEW k, NEW x PROVE Result(k, x)' = Result(k, x)
    BY <1>1, SameConfig
  <2>2. Behind(Buffers, Base)'
    <3>1. Behind(Called, Round)
      BY CalledRest
    <3>2. \A k \in Channel : op2'[k] = Result(k, Round - mode)
      BY <1>1, <1>3, <3>1 DEF Behind, Previous
    <3> QED
      BY <1>1, <1>5, <2>1, <3>2 DEF Behind, Previous, Buffers
  <2>3. ASSUME ifrag' = 3, mode' = 4
        PROVE  Done(Buffers, 2, Base)' /\ Done(Buffers, 3, Base)'
    <3>1. mode = 4 /\ ifrag = 2
      BY <1>1, <1>4, <2>3
    <3>2. Done(t, 2, Round) /\ Done(t, 3, Round)
      BY <1>2, <3>1 DEF Earlier
    <3> QED
      BY <1>1, <1>5, <2>1, <3>2 DEF Done, Buffers
  <2>4. ifrag' # 0
    BY <1>1, <1>4
  <2> QED
    BY <1>6, <2>2, <2>3, <2>4, Zenon DEF Outputs
<1> QED
  BY <1>7, <1>8, <1>9, <1>10, <1>11, <1>12 DEF IInv

LEMMA AfterStutter ==
  ASSUME IInv, UNCHANGED vars
  PROVE  IInv'
<1>0. /\ mode' = mode /\ npar' = npar /\ conv' = conv
      /\ inp' = inp /\ fwd' = fwd /\ md' = md /\ op1' = op1 /\ op2' = op2
      /\ wr' = wr /\ rd' = rd /\ ifrag' = ifrag /\ ipart' = ipart
      /\ n' = n /\ doubled' = doubled
  BY DEF vars, config, buffers
<1>1. /\ Types /\ Pointers /\ Inputs /\ Rings /\ Sums /\ Outputs
  BY DEF IInv
<1>2. Rank' = Rank /\ Base' = Base /\ (Aside' <=> Aside) /\ Part' = Part
  BY <1>0 DEF Rank, Base, Aside, Part
<1>3. /\ \A j : Ring(Buffers, j, Base) => Ring(Buffers, j, Base)'
      /\ \A j : Older(Buffers, j, Base) => Older(Buffers, j, Base)'
      /\ \A J, k : Held(Buffers, J, k, Base) => Held(Buffers, J, k, Base)'
      /\ Clean(Buffers) => Clean(Buffers)'
      /\ Empty(Buffers) => Empty(Buffers)'
  <2>1. /\ fwd' = Buffers.fwd /\ md' = Buffers.md
        /\ doubled' = Buffers.doubled /\ ipart' = Buffers.ipart
    BY <1>0 DEF Buffers
  <2> QED
    BY <1>0, <1>2, <2>1, NextBuffers
<1>4. ASSUME NEW k, NEW x PROVE Result(k, x)' = Result(k, x)
  BY <1>0, SameConfig
<1>5. Types'
  BY <1>0, <1>1 DEF Types, Typed, Buffers, Mode
<1>6. Pointers'
  BY <1>0, <1>1, <1>2 DEF Pointers
<1>7. Inputs'
  BY <1>0, <1>1, <1>2 DEF Inputs, Ready, Buffers
<1>8. Rings'
  BY <1>1, <1>2, <1>3, Zenon DEF Rings
<1>9. Sums'
  BY <1>0, <1>1, <1>3, Zenon DEF Sums
<1>10. Outputs'
  <2>1. ifrag = 0 => \A k \in Channel : op2'[k] = Result(k, Base)'
    BY <1>0, <1>1, <1>2, <1>4 DEF Outputs
  <2>2. Behind(Buffers, Base) => Behind(Buffers, Base)'
    BY <1>0, <1>2, <1>4 DEF Behind, Previous, Buffers
  <2>3. ASSUME NEW k PROVE Done(Buffers, k, Base) => Done(Buffers, k, Base)'
    BY <1>0, <1>2, <1>4 DEF Done, Buffers
  <2> QED
    BY <1>0, <1>1, <1>3, <2>1, <2>2, <2>3, Zenon DEF Outputs
<1> QED
  BY <1>5, <1>6, <1>7, <1>8, <1>9, <1>10 DEF IInv

LEMMA SpecInvariant == Spec => []IInv
<1>1. Init => IInv
  BY InitFresh, FreshInvariant
<1>2. ASSUME IInv, Process PROVE IInv'
  BY <1>2, AfterLast, AfterEarlier
<1>3. IInv /\ Reset => Fresh'
  BY ResetFresh DEF IInv, Types
<1>4. Fresh => IInv
  BY FreshInvariant
<1>5. IInv /\ Reset => IInv'
  BY <1>3, <1>4, PTL
<1>6. ASSUME IInv, UNCHANGED vars PROVE IInv'
  BY <1>6, AfterStutter
<1>7. IInv /\ [Next]_vars => IInv'
  BY <1>2, <1>5, <1>6 DEF Next
<1> QED
  BY <1>1, <1>7, PTL DEF Spec

\* Every output is the convolution of all inputs since the last reset, each
\* fragment with each fragment of the response once and in time: process() of
\* convol44.cc, for any number of partitions and calls, with one, two or four
\* fragments in a partition.
THEOREM OutputIsConvolution == Spec => []Convolves
BY SpecInvariant, SoundInvariant, PTL
=============================================================================
