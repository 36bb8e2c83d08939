--------------------------- MODULE TetrafileProofs ---------------------------
(***************************************************************************)
(* Theorems about Dither, for every size of the memory from 4 on and any   *)
(* number of calls and samples; and about Tetrafile, for every size of the *)
(* blocks and of the files, which uses Dither as it is specified.          *)
(***************************************************************************)
EXTENDS Tetrafile, SequenceTheorems, TLAPS

\* What is proved of the memory: from its beginning to its end, copies included,
\* it holds the errors of the past in order, not only the five that are read.
InOrder == kind = "lipschitz" => \A p \in Start .. SIZE + 3 : err[p] = Past(p - Start)

DitherInv == DitherTypeOK /\ InOrder /\ LastRandom

LEMMA DitherInit == ASSUME Reset PROVE DitherInv
<1>1. DitherTypeOK
  BY DitherAssumption DEF Reset, DitherTypeOK
<1>2. InOrder
  <2> SUFFICES ASSUME NEW p \in Start .. SIZE + 3 PROVE err[p] = Past(p - Start)
    BY DEF InOrder
  <2>1. Start = SIZE - 1 /\ count = 0 /\ p \in 0 .. SIZE + 3 /\ p - Start >= 0
    BY DitherAssumption DEF Reset, Start
  <2> QED
    BY <2>1, DitherAssumption DEF Reset, Past
<1>3. LastRandom
  BY DitherAssumption DEF Reset, LastRandom
<1> QED
  BY <1>1, <1>2, <1>3 DEF DitherInv

\* A call takes over what the call before it has stored.
LEMMA BeginStep == ASSUME DitherInv, NEW n \in 1 .. MaxBlock, Begin(n) PROVE DitherInv'
<1> USE DitherAssumption DEF DitherInv
<1>1. DitherTypeOK'
  BY DEF DitherTypeOK, Begin
<1>2. Start' = Start \/ kind # "lipschitz"
  BY DEF DitherTypeOK, Begin, Start
<1>3. InOrder'
  BY <1>2 DEF InOrder, Begin, Past
<1>4. LastRandom'
  BY DEF DitherTypeOK, LastRandom, Begin
<1> QED
  BY <1>1, <1>3, <1>4

LEMMA TriangularStep == ASSUME DitherInv, Triangular PROVE DitherInv'
<1> USE DitherAssumption DEF DitherInv
<1>1. DitherTypeOK'
  BY DEF DitherTypeOK, Triangular
<1>2. InOrder'
  BY DEF InOrder, Triangular
<1>3. LastRandom'
  BY DEF DitherTypeOK, LastRandom, Triangular
<1> QED
  BY <1>1, <1>2, <1>3

LEMMA RectangularStep == ASSUME DitherInv, Rectangular PROVE DitherInv'
<1> USE DitherAssumption DEF DitherInv
<1>1. DitherTypeOK'
  BY DEF DitherTypeOK, Rectangular
<1>2. InOrder' /\ LastRandom'
  BY DEF InOrder, LastRandom, Rectangular
<1> QED
  BY <1>1, <1>2

\* A new error in front moves all others one place further into the past; at the
\* end of the memory the copies take the place of what they are copied from.
LEMMA LipschitzStep == ASSUME DitherInv, Lipschitz PROVE DitherInv'
<1> USE DitherAssumption DEF DitherInv
<1>0. /\ kind = "lipschitz" /\ kind' = kind /\ nsam > 0 /\ Start = local
      /\ count' = count + 1 /\ local \in 0 .. SIZE - 1
      /\ \A p \in local .. SIZE + 3 : err[p] = Past(p - local)
  BY DEF Lipschitz, DitherTypeOK, Start, InOrder
<1>1. Start' = local'
  BY DEF Lipschitz, DitherTypeOK, Start
<1>t. /\ err \in [0 .. SIZE + 3 -> Nat] /\ count \in Nat /\ nsam \in Nat
      /\ kind \in Kind /\ ind \in 0 .. SIZE - 1
  BY DEF DitherTypeOK
<1>n. nsam' = nsam - 1 /\ nsam' \in Nat /\ ind' \in {local', ind}
  BY <1>0, <1>t DEF Lipschitz
<1>h. \A p \in local .. SIZE + 3 :
        err[p] = IF p - local > count THEN 0 ELSE count - (p - local)
  BY <1>0 DEF Past
<1>s. SUFFICES /\ local' \in 0 .. SIZE - 1
               /\ err' \in [0 .. SIZE + 3 -> Nat]
               /\ \A p \in local' .. SIZE + 3 :
                    err'[p] = IF p - local' > count' THEN 0 ELSE count' - (p - local')
  <2>1. DitherTypeOK'
    BY <1>s, <1>0, <1>t, <1>n DEF DitherTypeOK
  <2>2. ASSUME NEW p \in local' .. SIZE + 3 PROVE err'[p] = Past(p - Start)'
    <3>1. err'[p] = IF p - local' > count' THEN 0 ELSE count' - (p - local')
      BY <1>s
    <3> QED
      BY <3>1, <1>1 DEF Past
  <2>3. InOrder'
    BY <2>2, <1>1 DEF InOrder
  <2> QED
    BY <2>1, <2>3, <1>0 DEF LastRandom
<1>2. CASE local > 0
  <2>1. local' = local - 1 /\ err' = [err EXCEPT ![local - 1] = count + 1]
    BY <1>2 DEF Lipschitz
  <2>2. local' \in 0 .. SIZE - 1 /\ local - 1 \in 0 .. SIZE + 3 /\ count + 1 \in Nat
    BY <1>0, <1>2, <1>t, <2>1
  <2>3. err' \in [0 .. SIZE + 3 -> Nat]
    BY <1>t, <2>1, <2>2
  <2>4. ASSUME NEW p \in local' .. SIZE + 3
        PROVE  err'[p] = IF p - local' > count' THEN 0 ELSE count' - (p - local')
    <3>1. p \in 0 .. SIZE + 3 /\ p \in Int
      BY <2>2
    <3>2. CASE p = local - 1
      <4>1. err'[p] = count + 1
        BY <1>t, <2>1, <3>1, <3>2
      <4> QED
        BY <1>0, <1>t, <2>1, <3>2, <4>1
    <3>3. CASE p # local - 1
      <4>1. err'[p] = err[p]
        BY <1>t, <2>1, <3>1, <3>3
      <4>2. p \in local .. SIZE + 3
        BY <1>0, <2>1, <3>1, <3>3
      <4>3. err[p] = IF p - local > count THEN 0 ELSE count - (p - local)
        BY <1>h, <4>2
      <4> QED
        BY <1>0, <1>t, <2>1, <3>1, <4>1, <4>3
    <3> QED
      BY <3>2, <3>3
  <2> QED
    BY <2>2, <2>3, <2>4
<1>3. CASE local = 0
  <2>1. local' = SIZE - 1 /\ err' = [Shifted EXCEPT ![SIZE - 1] = count + 1]
    BY <1>3 DEF Lipschitz
  <2>2. ASSUME NEW p \in 0 .. SIZE + 3
        PROVE  (IF p >= SIZE THEN err[p - SIZE] ELSE err[p]) \in Nat
    <3>1. CASE p >= SIZE
      <4>1. p - SIZE \in 0 .. SIZE + 3
        BY <3>1
      <4> QED
        BY <1>t, <3>1, <4>1
    <3> QED
      BY <1>t, <3>1
  <2>3. Shifted \in [0 .. SIZE + 3 -> Nat]
    BY <2>2 DEF Shifted
  <2>4. \A p \in SIZE .. SIZE + 3 : Shifted[p] = err[p - SIZE]
    BY DEF Shifted
  <2>5. /\ err' \in [0 .. SIZE + 3 -> Nat]
        /\ err'[SIZE - 1] = count + 1
        /\ \A p \in SIZE .. SIZE + 3 : err'[p] = Shifted[p]
    BY <1>t, <2>1, <2>3
  <2>6. ASSUME NEW p \in local' .. SIZE + 3
        PROVE  err'[p] = IF p - local' > count' THEN 0 ELSE count' - (p - local')
    <3>1. CASE p = SIZE - 1
      BY <1>0, <1>t, <2>1, <2>5, <3>1
    <3>2. CASE p # SIZE - 1
      <4>1. p \in SIZE .. SIZE + 3 /\ p - SIZE \in local .. SIZE + 3
        BY <1>3, <2>1, <3>2
      <4>2. err'[p] = err[p - SIZE]
        BY <2>4, <2>5, <4>1
      <4>3. err[p - SIZE] = IF (p - SIZE) - local > count THEN 0
                            ELSE count - ((p - SIZE) - local)
        BY <1>h, <4>1
      <4> QED
        BY <1>0, <1>3, <1>t, <2>1, <4>1, <4>2, <4>3
    <3> QED
      BY <3>1, <3>2
  <2> QED
    BY <2>1, <2>5, <2>6
<1> QED
  BY <1>0, <1>2, <1>3

LEMMA DitherStep == ASSUME DitherInv, [DitherNext]_dither PROVE DitherInv'
<1>1. CASE UNCHANGED dither
  BY <1>1 DEF dither, DitherInv, DitherTypeOK, InOrder, LastRandom, Start, Past
<1> QED
  BY <1>1, BeginStep, RectangularStep, TriangularStep, LipschitzStep DEF DitherNext, Sample

\* The five errors that the noise shaping reads are there, in order.
LEMMA ReadsFive == ASSUME DitherInv PROVE LastFive
<1> SUFFICES ASSUME kind = "lipschitz", NEW n \in 0 .. 4 PROVE err[Start + n] = Past(n)
  BY DEF LastFive
<1>1. Start \in 0 .. SIZE - 1
  BY DitherAssumption DEF DitherInv, DitherTypeOK, Start
<1>2. Start + n \in Start .. SIZE + 3 /\ (Start + n) - Start = n
  BY <1>1, DitherAssumption
<1> QED
  BY <1>2 DEF DitherInv, InOrder

\* For every SIZE >= 4 and however the samples are divided into calls: the noise
\* shaping feeds back the errors of exactly the last five samples.
THEOREM ShapedByLastFive == DitherSpec => []LastFive
<1>1. Reset => DitherInv
  BY DitherInit
<1>2. DitherInv /\ [DitherNext]_dither => DitherInv'
  BY DitherStep
<1>3. DitherInv => LastFive
  BY ReadsFive
<1> QED
  BY <1>1, <1>2, <1>3, PTL DEF DitherSpec

\* The random number that the triangular dither subtracts is the one that it has
\* added to the sample before, so that the two differ in one place per sample.
THEOREM DitheredByLastRandom == DitherSpec => []LastRandom
<1>1. Reset => DitherInv
  BY DitherInit
<1>2. DitherInv /\ [DitherNext]_dither => DitherInv'
  BY DitherStep
<1>3. DitherInv => LastRandom
  BY DEF DitherInv
<1> QED
  BY <1>1, <1>2, <1>3, PTL DEF DitherSpec
-----------------------------------------------------------------------------
\* tetrafile.

Looping == {"read", "read2", "process", "write", "dither"}
InBlock == Looping \ {"read"}

Types ==
  /\ pc \in Looping \cup {"load", "open1", "open2", "output", "exit", "crashed"}
  /\ job \in Jobs /\ file \in [1 .. 2 -> Files]
  /\ k \in Int
  /\ pos \in [1 .. 2 -> Nat]
  /\ \E S : written \in Seq(S)
  /\ created \in BOOLEAN

\* What has been tested when the program is at a place.
Tested ==
  /\ pc \in {"load", "open1", "open2", "output"} =>
       ~created /\ written = <<>> /\ pos = <<0, 0>>
  /\ pc \in {"open1", "open2", "output"} => job.config
  /\ pc = "open2" => Usable(1) /\ job.stin
  /\ pc = "output" => Usable(1) /\ (job.stin => Usable(2) /\ Matches)
  /\ pc \in Looping \cup {"crashed"} => Acceptable /\ convol = Convolver
  /\ pc = "read2" => job.stin
  /\ pc \in {"write", "dither"} => ~Unconvolvable
  /\ pc = "read" /\ Unconvolvable => pos[1] = 0

\* The frames of the first file before the block.
Before == pos[1] - k

\* How far the input files have been read and the output file has been written.
\* The second file may be ahead of the first only when that is at its end.
Counted ==
  /\ pc \in Looping => pos[1] <= file[1].good /\ (job.stin => pos[2] <= file[2].good)
  /\ pc = "read" => Len(written) = Least(pos[1], job.room)
  /\ pc \in InBlock =>
       /\ k \in 1 .. BUFFSIZE /\ k <= pos[1]
       /\ k = BUFFSIZE \/ pos[1] = file[1].good
       /\ Len(written) = Least(Before, job.room)
  /\ pc = "read2" => pos[2] = Least(Before, file[2].good)
  /\ pc \in Looping \ {"read2"} /\ job.stin =>
       pos[2] = Least(pos[1], file[2].good) \/ pos[1] = file[1].good

\* The file that frame n of the second pair comes from.
SecondOf(n) == IF job.stin /\ n <= file[2].good THEN 2 ELSE 1

\* Slot s of a block comes from frame n.
From(slot, n) == slot.ab = <<1, n>> /\ slot.cd = <<SecondOf(n), n>>

Done(slot, n) ==
  slot = [ab |-> <<1, n>>, cd |-> <<SecondOf(n), n>>, conv |-> job.conv]

InPlace ==
  /\ pc = "read2" =>
       \A s \in 1 .. k : /\ inp[s] = [ab |-> <<1, Before + s>>, cd |-> <<1, Before + s>>]
                         /\ s \in DOMAIN buff /\ buff[s] = <<1, Before + s>>
  /\ pc = "process" => \A s \in 1 .. k : From(inp[s], Before + s)
  /\ pc \in {"write", "dither"} => \A s \in 1 .. k : Done(buff[s], Before + s)

Inv == Types /\ Tested /\ Counted /\ InPlace /\ Aligned /\ Outcome

LEMMA JobTypes ==
  ASSUME Types
  PROVE  /\ {job.stin, job.config, job.conv, job.output} \subseteq BOOLEAN
         /\ job.impulse \in {"good", "short", "missing"}
         /\ job.room \in Nat
         /\ \A f \in 1 .. 2 : file[f] # NoFile => file[f].good \in Nat
BY TetrafileAssumption DEF Types

LEMMA GoodTypes ==
  ASSUME Types, Acceptable
  PROVE  /\ file[1].good \in Nat
         /\ job.stin => file[2].good \in Nat
BY JobTypes DEF Acceptable

LEMMA InvInit == ASSUME Init PROVE Inv
<1>1. written \in Seq({})
  BY DEF Init
<1>2. pos \in [1 .. 2 -> Nat]
  BY DEF Init
<1>3. Types
  <2>1. \E S : written \in Seq(S)
    BY <1>1
  <2>2. pc \in Looping \cup {"load", "open1", "open2", "output", "exit", "crashed"}
    BY DEF Init
  <2>3. job \in Jobs /\ file \in [1 .. 2 -> Files]
    BY DEF Init
  <2>4. k \in Int
    BY DEF Init
  <2>5. created \in BOOLEAN
    BY DEF Init
  <2> QED
    BY <1>2, <2>1, <2>2, <2>3, <2>4, <2>5 DEF Types
<1>4. Tested /\ Counted /\ InPlace /\ Outcome
  BY DEF Init, Tested, Counted, InPlace, Outcome, Looping, InBlock
<1>5. Aligned
  BY DEF Init, Aligned
<1> QED
  BY <1>3, <1>4, <1>5 DEF Inv

\* Before the loop: each place has tested what the ones before it have, and the
\* first thing that does not hold ends the program.
Opening == Load \/ OpenFirst \/ OpenSecond \/ OpenOutput

LEMMA OpeningStep == ASSUME Inv, Opening PROVE Inv'
<1>0. /\ UNCHANGED <<job, file, pos, k, inp, buff, out, written>>
      /\ pc \in {"load", "open1", "open2", "output"}
      /\ pc' \in {"open1", "open2", "output", "read", "exit"}
  BY DEF Opening, Load, OpenFirst, OpenSecond, OpenOutput, Return, Goto
<1>1. ~created /\ written = <<>> /\ pos = <<0, 0>>
  BY <1>0 DEF Inv, Tested
<1>2. Types'
  BY <1>0, <1>1 DEF Inv, Types, Opening, Load, OpenFirst, OpenSecond, OpenOutput, Return, Goto,
     Looping
<1>3. pc' = "exit" => ~Acceptable /\ ~created' /\ code' = 1
  BY <1>1, JobTypes
     DEF Inv, Tested, Opening, Load, OpenFirst, OpenSecond, OpenOutput, Return, Goto,
         Acceptable, Usable, Matches, Channels
<1>4. pc' = "read" => Acceptable /\ convol' = Convolver
  BY JobTypes
     DEF Inv, Tested, Opening, Load, OpenFirst, OpenSecond, OpenOutput, Return, Goto,
         Acceptable, Usable, Matches, Channels
<1>5. Tested'
  BY <1>0, <1>1, <1>4
     DEF Inv, Tested, Opening, Load, OpenFirst, OpenSecond, OpenOutput, Return, Goto,
         Acceptable, Usable, Matches, Channels, Looping, Convolver, Unconvolvable
<1>6. Outcome'
  BY <1>0, <1>3 DEF Outcome, Acceptable, Unconvolvable
<1>7. Counted'
  <2> SUFFICES ASSUME pc' = "read" PROVE Counted'
    BY <1>0 DEF Counted, Looping, InBlock
  <2>1. Acceptable
    BY <1>4
  <2>2. file[1].good \in Nat /\ (job.stin => file[2].good \in Nat) /\ job.room \in Nat
    BY <2>1, GoodTypes, JobTypes DEF Inv
  <2>3. Len(written) = 0 /\ pos[1] = 0 /\ pos[2] = 0
    BY <1>1
  <2> QED
    BY <1>0, <2>2, <2>3 DEF Counted, Looping, InBlock, Least
<1>8. InPlace' /\ Aligned'
  BY <1>0, <1>1 DEF InPlace, Aligned
<1> QED
  BY <1>2, <1>5, <1>6, <1>7, <1>8 DEF Inv

LEMMA ReadStep == ASSUME Inv, Read PROVE Inv'
<1> DEFINE d == Delivered(1)
<1>0. /\ pc = "read" /\ Types /\ Acceptable /\ pos[1] \in Nat /\ pos[2] \in Nat
      /\ file[1].good \in Nat /\ BUFFSIZE \in Nat \ {0} /\ pos[1] <= file[1].good
      /\ job.room \in Nat /\ job.stin \in BOOLEAN
      /\ job.stin => file[2].good \in Nat /\ pos[2] <= file[2].good
  BY GoodTypes, JobTypes, DitherAssumption, TetrafileAssumption
     DEF Inv, Types, Tested, Counted, Looping, Read
<1>1. /\ d \in 0 .. BUFFSIZE /\ pos[1] + d <= file[1].good
      /\ d = BUFFSIZE \/ pos[1] + d = file[1].good
  BY <1>0 DEF Delivered, Least
<1>2. CASE d = 0 /\ Return(0)
  <2>1. /\ pc' = "exit" /\ code' = 0
        /\ UNCHANGED <<job, file, pos, convol, k, buff, inp, out, written, created>>
    BY <1>2 DEF Return
  <2>2. Types' /\ Tested' /\ Counted' /\ InPlace'
    BY <2>1 DEF Inv, Types, Tested, Counted, InPlace, Looping, InBlock
  <2>6. Unconvolvable => pos[1] = 0
    BY <1>0 DEF Inv, Tested
  <2>3. pos[1] = file[1].good /\ Len(written) = Least(pos[1], job.room)
    BY <1>0, <1>1, <1>2 DEF Inv, Counted
  <2>4. Outcome'
    BY <1>0, <2>1, <2>3, <2>6 DEF Outcome, Acceptable, Unconvolvable
  <2>5. Aligned'
    BY <2>1 DEF Inv, Aligned
  <2> QED
    BY <2>2, <2>4, <2>5 DEF Inv
<1>3. CASE /\ d > 0
           /\ Goto(IF job.stin THEN "read2" ELSE "process")
           /\ k' = d
           /\ pos' = [pos EXCEPT ![1] = @ + d]
           /\ buff' = Filled(1)
           /\ inp' = [s \in 1 .. d |-> [ab |-> Filled(1)[s], cd |-> Filled(1)[s]]]
           /\ UNCHANGED <<mode, convol, out, written, dither>>
  <2>1. /\ pc' = IF job.stin THEN "read2" ELSE "process"
        /\ UNCHANGED <<job, file, created, code, convol, written>>
    BY <1>3 DEF Goto
  <2>2. pos'[1] = pos[1] + d /\ pos'[2] = pos[2] /\ pos' \in [1 .. 2 -> Nat] /\ Before' = pos[1]
    <3>1. pos \in [1 .. 2 -> Nat] /\ d \in Nat
      BY <1>0, <1>1 DEF Types
    <3>2. pos'[1] = pos[1] + d /\ pos'[2] = pos[2] /\ pos' \in [1 .. 2 -> Nat]
      BY <3>1, <1>0, <1>3
    <3>3. pos'[1] - k' = pos[1]
      BY <3>1, <3>2, <1>0, <1>3
    <3> QED
      BY <3>2, <3>3 DEF Before
  <2>3. Types'
    BY <1>1, <1>3, <2>1, <2>2 DEF Inv, Types, Looping
  <2>4. Tested'
    BY <1>0, <2>1 DEF Inv, Tested, Looping, Acceptable, Convolver, Unconvolvable
  <2>5. Counted'
    <3>1. Len(written) = Least(pos[1], job.room)
      BY <1>0 DEF Inv, Counted
    <3>2. job.stin /\ pos[1] # file[1].good => pos[2] = Least(pos[1], file[2].good)
      BY <1>0 DEF Inv, Counted, Looping
    <3>3. k' \in 1 .. BUFFSIZE /\ k' <= pos'[1] /\ (k' = BUFFSIZE \/ pos'[1] = file[1].good)
      BY <1>0, <1>1, <1>3, <2>2
    <3>4. pos'[1] <= file[1].good /\ pos[1] # file[1].good
      BY <1>0, <1>1, <1>3, <2>2
    <3>5. job.stin => /\ pc' = "read2"
                      /\ pos'[2] = Least(Before', file[2].good)
                      /\ pos'[2] <= file[2].good
      BY <1>0, <2>1, <2>2, <3>2, <3>4
    <3>6. ~job.stin => pc' = "process"
      BY <2>1
    <3> QED
      BY <2>1, <2>2, <3>1, <3>3, <3>4, <3>5, <3>6, <1>0 DEF Counted, Looping, InBlock
  <2>6. InPlace'
    <3>1. ASSUME NEW s \in 1 .. d
          PROVE  /\ inp'[s] = [ab |-> <<1, pos[1] + s>>, cd |-> <<1, pos[1] + s>>]
                 /\ s \in DOMAIN buff' /\ buff'[s] = <<1, pos[1] + s>>
      <4>1. s \in 1 .. BUFFSIZE /\ s <= d
        BY <1>0, <1>1
      <4>2. Filled(1)[s] = <<1, pos[1] + s>> /\ s \in DOMAIN Filled(1)
        BY <4>1 DEF Filled
      <4> QED
        BY <1>3, <4>2
    <3>2. \A s \in 1 .. k' :
            /\ inp'[s] = [ab |-> <<1, Before' + s>>, cd |-> <<1, Before' + s>>]
            /\ s \in DOMAIN buff' /\ buff'[s] = <<1, Before' + s>>
      BY <1>3, <2>2, <3>1
    <3>3. ASSUME pc' = "process", NEW s \in 1 .. k' PROVE From(inp[s], Before + s)'
      <4>1. ~job'.stin
        BY <1>0, <2>1, <3>3
      <4>2. inp'[s] = [ab |-> <<1, Before' + s>>, cd |-> <<1, Before' + s>>]
        BY <3>2, <3>3
      <4> QED
        BY <4>1, <4>2 DEF From, SecondOf
    <3> QED
      BY <2>1, <3>2, <3>3 DEF InPlace
  <2>7. Aligned' /\ Outcome'
    BY <2>1 DEF Inv, Aligned, Outcome
  <2> QED
    BY <2>3, <2>4, <2>5, <2>6, <2>7 DEF Inv
<1> QED
  BY <1>2, <1>3 DEF Read

\* The facts about a block that every step within it needs.
LEMMA BlockFacts ==
  ASSUME Inv, pc \in InBlock
  PROVE  /\ Types /\ Acceptable
         /\ pos[1] \in Nat /\ pos[2] \in Nat /\ pos[1] <= file[1].good
         /\ file[1].good \in Nat
         /\ job.stin => file[2].good \in Nat /\ pos[2] <= file[2].good
         /\ job.room \in Nat /\ {job.stin, job.conv} \subseteq BOOLEAN
         /\ job.impulse \in {"good", "short", "missing"}
         /\ BUFFSIZE \in Nat \ {0}
         /\ k \in 1 .. BUFFSIZE /\ k <= pos[1] /\ (k = BUFFSIZE \/ pos[1] = file[1].good)
         /\ Before \in Nat
         /\ Len(written) = Least(Before, job.room)
<1>1. Types /\ Acceptable /\ pos[1] \in Nat /\ pos[2] \in Nat /\ BUFFSIZE \in Nat \ {0}
  BY DitherAssumption, TetrafileAssumption DEF Inv, Types, Tested, Looping, InBlock
<1>2. /\ k \in 1 .. BUFFSIZE /\ k <= pos[1] /\ (k = BUFFSIZE \/ pos[1] = file[1].good)
      /\ Len(written) = Least(Before, job.room)
      /\ pos[1] <= file[1].good /\ (job.stin => pos[2] <= file[2].good)
  BY DEF Inv, Counted, InBlock
<1>3. Before \in Nat
  BY <1>1, <1>2 DEF Before
<1> QED
  BY <1>1, <1>2, <1>3, GoodTypes, JobTypes

LEMMA ReadSecondStep == ASSUME Inv, ReadSecond PROVE Inv'
<1> DEFINE d == Delivered(2)
<1>0. pc = "read2" /\ pc \in InBlock /\ job.stin
  BY DEF ReadSecond, InBlock, Looping, Inv, Tested
<1>1. /\ pc' = "process" /\ pos' = [pos EXCEPT ![2] = @ + d]
      /\ inp' = [s \in 1 .. k |-> [inp[s] EXCEPT !.cd = Filled(2)[s]]]
      /\ UNCHANGED <<job, file, created, code, convol, k, written>>
  BY DEF ReadSecond, Goto, Second
<1>2. pos[2] = Least(Before, file[2].good)
  BY <1>0 DEF Inv, Counted
<1>3. /\ d \in Nat /\ pos[2] + d <= file[2].good /\ d <= BUFFSIZE
      /\ d = BUFFSIZE \/ pos[2] + d = file[2].good
  BY <1>0, BlockFacts DEF Delivered, Least
<1>4. /\ pos'[1] = pos[1] /\ pos'[2] = pos[2] + d /\ pos' \in [1 .. 2 -> Nat]
      /\ Before' = Before
  <2>1. pos \in [1 .. 2 -> Nat]
    BY DEF Inv, Types
  <2>2. pos'[1] = pos[1] /\ pos'[2] = pos[2] + d /\ pos' \in [1 .. 2 -> Nat]
    BY <2>1, <1>1, <1>3
  <2> QED
    BY <2>2, <1>1 DEF Before
<1>5. Types' /\ Tested'
  BY <1>0, <1>1, <1>4 DEF Inv, Types, Tested, Looping, Acceptable, Convolver, Unconvolvable
<1>6. Counted'
  <2>1. pos[2] + d = Least(pos[1], file[2].good) \/ pos[1] = file[1].good
    <3> SUFFICES ASSUME k = BUFFSIZE PROVE pos[2] + d = Least(pos[1], file[2].good)
      BY <1>0, BlockFacts
    <3>1. pos[1] = Before + BUFFSIZE /\ Before \in Nat /\ BUFFSIZE \in Nat
      BY <1>0, BlockFacts DEF Before
    <3>2. file[2].good \in Nat
      BY <1>0, BlockFacts
    <3>3. d = Least(BUFFSIZE, file[2].good - Least(Before, file[2].good))
      BY <1>2 DEF Delivered
    <3>4. Least(Before, file[2].good) + d = Least(Before + BUFFSIZE, file[2].good)
      BY <3>1, <3>2, <3>3 DEF Least
    <3> QED
      BY <1>2, <3>1, <3>4
  <2> QED
    BY <1>0, <1>1, <1>3, <1>4, <2>1, BlockFacts DEF Counted, Looping, InBlock
<1>7. InPlace'
  <2>1. ASSUME NEW s \in 1 .. k PROVE From(inp'[s], Before + s)
    <3>1. /\ inp[s] = [ab |-> <<1, Before + s>>, cd |-> <<1, Before + s>>]
          /\ s \in DOMAIN buff /\ buff[s] = <<1, Before + s>>
      BY <1>0 DEF Inv, InPlace
    <3>2. inp'[s] = [ab |-> <<1, Before + s>>, cd |-> Filled(2)[s]]
      BY <1>1, <3>1
    <3>3. s \in 1 .. BUFFSIZE /\ s \in Nat
      BY <1>0, BlockFacts
    <3>4. Before + s <= file[2].good <=> s <= d
      <4>1. /\ Before \in Nat /\ file[2].good \in Nat /\ BUFFSIZE \in Nat /\ s <= BUFFSIZE
            /\ s >= 1
        BY <1>0, <3>3, BlockFacts
      <4>2. d = Least(BUFFSIZE, file[2].good - Least(Before, file[2].good))
        BY <1>2 DEF Delivered
      <4> HIDE DEF d
      <4> QED
        BY <3>3, <4>1, <4>2 DEF Least
    <3>5. Filled(2)[s] = <<SecondOf(Before + s), Before + s>>
      <4>1. CASE s <= d
        <5>1. pos[2] = Before
          BY <1>0, <1>2, <1>3, <3>3, <4>1, BlockFacts DEF Least
        <5> QED
          BY <1>0, <3>3, <3>4, <4>1, <5>1 DEF Filled, SecondOf
      <4>2. CASE ~(s <= d)
        <5>1. Filled(2)[s] = buff[s]
          BY <3>1, <3>3, <4>2 DEF Filled
        <5> QED
          BY <3>1, <3>4, <4>2, <5>1 DEF SecondOf
      <4> QED
        BY <4>1, <4>2
    <3> QED
      BY <3>2, <3>5 DEF From
  <2>2. ASSUME NEW s \in 1 .. k PROVE From(inp[s], Before + s)'
    <3>1. SecondOf(Before + s)' = SecondOf(Before + s) /\ (Before + s)' = Before + s
      BY <1>1, <1>4 DEF SecondOf
    <3> QED
      BY <2>1, <3>1 DEF From
  <2> QED
    BY <1>1, <1>4, <2>2 DEF InPlace
<1>8. Aligned' /\ Outcome'
  BY <1>1 DEF Inv, Aligned, Outcome
<1> QED
  BY <1>5, <1>6, <1>7, <1>8 DEF Inv

LEMMA ProcessStep == ASSUME Inv, Process PROVE Inv'
<1>0. pc = "process" /\ pc \in InBlock
  BY DEF Process, InBlock, Looping
<1>1. CASE /\ convol \in {"null", "empty"}
           /\ Goto("crashed")
           /\ UNCHANGED <<mode, pos, convol, k, written>>
  <2>1. /\ pc' = "crashed"
        /\ UNCHANGED <<job, file, created, code, pos, convol, k, written>>
    BY <1>1 DEF Goto
  <2>2. Acceptable /\ Unconvolvable
    BY <1>0, <1>1, BlockFacts DEF Inv, Tested, InBlock, Convolver, Unconvolvable
  <2>5. file[1].good > 0
    BY <1>0, BlockFacts
  <2>3. Types' /\ Tested' /\ Counted' /\ InPlace'
    BY <1>0, <2>1 DEF Inv, Types, Tested, Counted, InPlace, Looping, InBlock, Acceptable,
       Convolver
  <2>4. Aligned' /\ Outcome'
    BY <2>1, <2>2, <2>5 DEF Inv, Aligned, Outcome, Acceptable, Unconvolvable
  <2> QED
    BY <2>3, <2>4 DEF Inv
<1>2. CASE /\ convol \in {"off", "live"}
           /\ Goto("write")
           /\ out' = [s \in 1 .. k |->
                        [ab |-> inp[s].ab, cd |-> inp[s].cd, conv |-> convol = "live"]]
           /\ buff' = [s \in 1 .. BUFFSIZE |-> IF s <= k THEN out'[s] ELSE buff[s]]
           /\ UNCHANGED <<mode, pos, convol, k, inp, written, dither>>
  <2>1. /\ pc' = "write"
        /\ UNCHANGED <<job, file, created, code, pos, convol, k, inp, written>>
    BY <1>2 DEF Goto
  <2>2. (convol = "live") = job.conv /\ ~Unconvolvable
    BY <1>0, <1>2, BlockFacts DEF Inv, Tested, InBlock, Convolver, Unconvolvable
  <2>3. Before' = Before
    BY <2>1 DEF Before
  <2>4. Types' /\ Tested'
    BY <1>0, <1>2, <2>1, <2>2
       DEF Inv, Types, Tested, Looping, InBlock, Acceptable, Convolver, Unconvolvable
  <2>5. Counted'
    BY <1>0, <2>1, <2>3 DEF Inv, Counted, Looping, InBlock
  <2>6. InPlace'
    <3>1. ASSUME NEW s \in 1 .. k PROVE Done(buff'[s], Before + s)
      <4>1. s \in 1 .. BUFFSIZE /\ s <= k
        BY <1>0, BlockFacts
      <4>2. buff'[s] = [ab |-> inp[s].ab, cd |-> inp[s].cd, conv |-> convol = "live"]
        BY <1>2, <4>1
      <4>3. From(inp[s], Before + s)
        BY <1>0 DEF Inv, InPlace
      <4> QED
        BY <2>2, <4>2, <4>3 DEF From, Done
    <3>2. ASSUME NEW s \in 1 .. k PROVE Done(buff[s], Before + s)'
      <4>1. SecondOf(Before + s)' = SecondOf(Before + s) /\ (Before + s)' = Before + s
        BY <2>1, <2>3 DEF SecondOf
      <4> QED
        BY <2>1, <3>1, <4>1 DEF Done
    <3> QED
      BY <2>1, <3>2 DEF InPlace
  <2>7. Aligned' /\ Outcome'
    BY <2>1 DEF Inv, Aligned, Outcome
  <2> QED
    BY <2>4, <2>5, <2>6, <2>7 DEF Inv
<1> QED
  BY <1>1, <1>2 DEF Process

\* The conversion to 16 bits leaves the frames where they are.
LEMMA ConvertStep == ASSUME Inv, Convert PROVE Inv'
<1>1. /\ pc \in {"write", "dither"} /\ pc' = "dither"
      /\ UNCHANGED <<job, file, created, code, pos, convol, k, buff, inp, out, written>>
  BY DEF Convert, Goto
<1> QED
  BY <1>1
     DEF Inv, Types, Tested, Counted, InPlace, Aligned, Outcome, Looping, InBlock, Acceptable,
         Before, From, Done, SecondOf, Convolver, Unconvolvable

\* What is appended to the output continues it: either it is the next frames, or
\* the disk is full.
LEMMA WriteStep == ASSUME Inv, Write PROVE Inv'
<1> DEFINE n == Least(k, job.room - Len(written))
           new == SubSeq(buff, 1, n)
<1>0. pc \in {"write", "dither"} /\ pc \in InBlock /\ pc' = "read"
  BY DEF Write, InBlock, Looping, Goto
<1>1. /\ written' = written \o new
      /\ UNCHANGED <<job, file, created, code, pos, convol, k, buff>>
  BY DEF Write, Goto
<1>2. n \in 0 .. k /\ Len(written) + n = Least(pos[1], job.room) /\ (n > 0 => Len(written) = Before)
  <2>1. Before = pos[1] - k /\ k \in Nat
    BY <1>0, BlockFacts DEF Before
  <2>2. Before \in Nat /\ job.room \in Nat /\ Len(written) = Least(Before, job.room)
    BY <1>0, BlockFacts
  <2>3. pos[1] = Before + k
    BY <1>0, <2>1, BlockFacts
  <2>4. n = Least(k, job.room - Least(Before, job.room))
    BY <2>2
  <2>5. /\ Least(Before, job.room) + n = Least(Before + k, job.room)
        /\ n \in 0 .. k
        /\ n > 0 => Least(Before, job.room) = Before
    BY <2>1, <2>2, <2>4 DEF Least
  <2> QED
    BY <2>2, <2>3, <2>5
<1>3. PICK S : written \in Seq(S)
  BY DEF Inv, Types
<1> DEFINE T == S \cup {buff[s] : s \in 1 .. k}
<1>4. written \in Seq(T)
  BY <1>3
<1>5. \A s \in 1 .. n : buff[s] \in T
  BY <1>0, <1>2, BlockFacts
<1>6. new \in Seq(T) /\ Len(new) = n /\ \A s \in 1 .. n : new[s] = buff[s]
  <2> HIDE DEF T, n
  <2>1. n \in Int /\ 1 \in Int
    BY <1>2
  <2>2. new \in Seq(T) /\ Len(new) = IF 1 <= n THEN n - 1 + 1 ELSE 0
    BY <1>5, <2>1, SubSeqProperties
  <2>3. \A s \in 1 .. n - 1 + 1 : new[s] = buff[1 + s - 1]
    BY <1>5, <2>1, SubSeqProperties
  <2>4. n - 1 + 1 = n /\ \A s \in 1 .. n : 1 + s - 1 = s
    BY <2>1
  <2> QED
    BY <2>2, <2>3, <2>4, <1>2
<1> HIDE DEF T, new, n
<1>7. /\ written' \in Seq(T)
      /\ Len(written') = Len(written) + n
      /\ \A i \in 1 .. Len(written) + n :
           written'[i] = IF i <= Len(written) THEN written[i] ELSE new[i - Len(written)]
  <2>1. /\ written \o new \in Seq(T)
        /\ Len(written \o new) = Len(written) + Len(new)
        /\ \A i \in 1 .. Len(written) + Len(new) :
             (written \o new)[i] =
               IF i <= Len(written) THEN written[i] ELSE new[i - Len(written)]
    BY <1>4, <1>6, ConcatProperties
  <2>2. written' = written \o new
    BY <1>1 DEF new, n
  <2> QED
    BY <1>6, <2>1, <2>2
<1>8. Types' /\ Tested'
  BY <1>0, <1>1, <1>7
     DEF Inv, Types, Tested, Looping, InBlock, Acceptable, Convolver, Unconvolvable
<1>9. Counted'
  BY <1>0, <1>1, <1>2, <1>7 DEF Inv, Counted, Looping, InBlock
<1>10. InPlace' /\ Outcome'
  BY <1>0, <1>1 DEF InPlace, Outcome
<1>11. Aligned'
  <2> SUFFICES ASSUME NEW i \in 1 .. Len(written') PROVE Done(written'[i], i)
    BY <1>1 DEF Aligned, Done, SecondOf
  <2>1. CASE i <= Len(written)
    <3>1. i \in 1 .. Len(written) /\ written'[i] = written[i]
      BY <2>1, <1>4, <1>7
    <3> QED
      BY <3>1 DEF Inv, Aligned, Done, SecondOf
  <2>2. CASE i > Len(written)
    <3> DEFINE s == i - Len(written)
    <3>1. Len(written) \in Nat /\ i \in 1 .. Len(written) + n
      BY <1>4, <1>7
    <3>2. s \in 1 .. n /\ n \in 0 .. k /\ k \in Nat
      BY <1>0, <1>2, <2>2, <3>1, BlockFacts
    <3>3. s \in 1 .. k /\ Len(written) = Before
      BY <1>2, <3>2
    <3>4. i = Before + s
      BY <3>1, <3>3
    <3>5. written'[i] = buff[s]
      BY <1>6, <1>7, <2>2, <3>1, <3>2
    <3> QED
      BY <1>0, <3>3, <3>4, <3>5 DEF Inv, InPlace
  <2> QED
    BY <2>1, <2>2, <1>4, <1>7
<1> QED
  BY <1>8, <1>9, <1>10, <1>11 DEF Inv

LEMMA InvStep == ASSUME Inv, [Next]_vars PROVE Inv'
<1>1. CASE UNCHANGED vars
  BY <1>1
     DEF vars, program, Inv, Types, Tested, Counted, InPlace, Aligned, Outcome, Acceptable,
         Usable, Matches, Channels, Before, From, Done, SecondOf,
         Convolver, Unconvolvable
<1> QED
  BY <1>1, OpeningStep, ReadStep, ReadSecondStep, ProcessStep, ConvertStep, WriteStep
     DEF Next, Opening, Stopped

\* tetrafile calls the dither as Dither says that it is called: what is proved of
\* one holds for the other.
THEOREM DithersAsSpecified == Spec => DitherSpec
<1>1. Init => Reset
  BY DEF Init
<1>2. Inv /\ [Next]_vars => [DitherNext]_dither
  <2> SUFFICES ASSUME Inv, Next, dither' # dither PROVE DitherNext
    BY DEF vars
  <2>1. Convert
    BY DEF Next, Load, OpenFirst, OpenSecond, OpenOutput, Read, ReadSecond, Process, Write,
       Stopped, vars, Return
  <2>2. CASE pc = "write" /\ Begin(k)
    <3>1. pc \in InBlock
      BY <2>2 DEF InBlock, Looping
    <3>2. k \in 1 .. MaxBlock
      BY <3>1, BlockFacts, TetrafileAssumption, DitherAssumption
    <3> QED
      BY <2>2, <3>2 DEF DitherNext
  <2> QED
    BY <2>1, <2>2 DEF Convert, DitherNext
<1> QED
  BY <1>1, <1>2, InvInit, InvStep, PTL DEF Spec, DitherSpec

\* Whatever the sizes of blocks, files and disk: each frame of the output is the
\* frame of the input with its number, with both pairs of channels of the same
\* moment, until the second file cannot be read any more before the end of the
\* first: from there on the second pair is that of the first file.
THEOREM FramesAligned == Spec => []Aligned
<1>1. Inv => Aligned
  BY DEF Inv
<1> QED
  BY <1>1, InvInit, InvStep, PTL DEF Spec

\* When tetrafile returns 0 every frame that can be read has been written, or as
\* many as fit on the disk; when it returns 1 there is no output; and it crashes
\* exactly when there is a frame to convolve, and the convolution file does not open
\* or has fewer frames than sections.
THEOREM OutcomeTold == Spec => []Outcome
<1>1. Inv => Outcome
  BY DEF Inv
<1> QED
  BY <1>1, InvInit, InvStep, PTL DEF Spec
=============================================================================
