--------------------------- MODULE ConvfileProofs ---------------------------
(***************************************************************************)
(* Theorems about Convfile, for any set of files and any number of calls.  *)
(***************************************************************************)
EXTENDS Convfile, TLAPS

TypeOK ==
  /\ pc \in {"idle", "open", "sect"}
  /\ wanted \in ConvFiles \cup {NoFile}
  /\ mode \in {"NONE", "READ"}
  /\ fram \in Nat
  /\ i \in 0 .. 4
  /\ coeff = [s \in Sections |-> coeff[s]]
  /\ convol \in {"null", "built", "live"}

\* The object is in use exactly while set_convol() reads the sections, and the
\* convolver is not ready before all of them are read.
Phases ==
  /\ mode = "READ" <=> pc = "sect"
  /\ pc = "open" => wanted \in ConvFiles /\ convol = "null"
  /\ pc = "sect" =>
       wanted \in ConvFiles /\ Proper(wanted) /\ convol = "built" /\ fram = Length(wanted)
  /\ pc = "idle" => convol # "built"

\* Section s of the convolver is what Loaded says of it.
Right(s) ==
  /\ DOMAIN coeff[s] = 1 .. Length(wanted)
  /\ \A n \in 1 .. Length(wanted) :
       /\ Length(wanted) * s + n <= wanted.good => coeff[s][n] = Length(wanted) * s + n
       /\ coeff[s][n] <= wanted.good

\* What the memory holds is zeros or of this file, and the sections before the
\* current one are in the convolver.
Reading ==
  pc = "sect" =>
    /\ \A n \in 1 .. fram : data[n] \in Nat /\ data[n] <= wanted.good
    /\ \A s \in Sections : s < i => Right(s)

Inv == TypeOK /\ Phases /\ Reading /\ Accepted /\ (convol = "live" => \A s \in Sections : Right(s))

LEMMA FileTypes ==
  ASSUME NEW f \in ConvFiles
  PROVE  /\ f.exists \in BOOLEAN /\ f.header \in BOOLEAN /\ f.ext \in {"ald", "wav", "other"}
         /\ f.chan \in Nat /\ f.sect \in Nat /\ f.fram \in Nat /\ f.good \in Nat
         /\ Length(f) \in Nat /\ f # NoFile
<1>1. f \in [exists : BOOLEAN, ext : {"ald", "wav", "other"}, header : BOOLEAN,
             chan : Nat, sect : Nat, fram : Nat, good : Nat]
  BY ConvfileAssumption
<1>2. f # NoFile
  BY ConvfileAssumption
<1>3. f.fram \in Nat
  BY <1>1
<1>4. Length(f) \in Nat
  BY <1>3 DEF Length
<1> QED
  BY <1>1, <1>2, <1>4

LEMMA InvInit == ASSUME Init PROVE Inv
BY DEF Init, Inv, TypeOK, Phases, Reading, Accepted, Sections

LEMMA SetConvolStep ==
  ASSUME Inv, NEW f \in ConvFiles \cup {NoFile}, SetConvol(f) PROVE Inv'
<1>1. TypeOK'
  BY DEF Inv, TypeOK, SetConvol, impdata, Sections
<1>2. Phases'
  BY DEF Inv, Phases, SetConvol, impdata
<1>3. Reading' /\ Accepted' /\ convol' # "live"
  BY DEF Inv, Reading, Accepted, SetConvol
<1> QED
  BY <1>1, <1>2, <1>3 DEF Inv

\* The three ways to fail leave nothing open and the file is not a proper one.
LEMMA RefusedStep ==
  ASSUME Inv, pc = "open", Fail, fram' \in Nat, mode' = "NONE", ~Proper(wanted) PROVE Inv'
<1>1. TypeOK'
  BY DEF Inv, TypeOK, Fail
<1>2. Phases' /\ Reading' /\ Accepted' /\ convol' # "live"
  BY DEF Inv, Phases, Reading, Accepted, Proper, Fail
<1> QED
  BY <1>1, <1>2 DEF Inv

LEMMA Refused ==
  ASSUME Inv, NotOpenable \/ WrongHeader \/ Unsuitable PROVE Inv'
<1>1. pc = "open" /\ Fail
  BY DEF NotOpenable, WrongHeader, Unsuitable
<1>2. wanted \in ConvFiles /\ mode = "NONE" /\ fram \in Nat
  BY <1>1 DEF Inv, Phases, TypeOK
<1>3. mode' = "NONE" /\ fram' \in Nat
  <2>1. wanted.fram \in Nat
    BY <1>2, FileTypes
  <2> QED
    BY <1>2, <2>1 DEF NotOpenable, WrongHeader, Unsuitable, Closing, impdata
<1>4. ~Proper(wanted)
  <2>1. /\ wanted.ext \in {"ald", "wav", "other"} /\ wanted.fram \in Nat
        /\ wanted.exists \in BOOLEAN /\ wanted.header \in BOOLEAN
        /\ wanted.chan \in Nat /\ wanted.sect \in Nat
    BY <1>2, FileTypes
  <2>2. CASE NotOpenable
    BY <1>2, <2>1, <2>2 DEF NotOpenable, Openable, Proper
  <2>3. CASE WrongHeader
    BY <1>2, <2>1, <2>3 DEF WrongHeader, HeaderRight, Proper
  <2>4. CASE Unsuitable
    BY <1>2, <2>1, <2>4 DEF Unsuitable, Openable, Suitable, Proper
  <2> QED
    BY <2>2, <2>3, <2>4
<1> QED
  BY <1>1, <1>3, <1>4, RefusedStep

LEMMA OpenedStep == ASSUME Inv, Opened PROVE Inv'
<1>1. wanted \in ConvFiles /\ wanted' = wanted /\ coeff' = coeff
  BY DEF Inv, Phases, Opened
<1>2. /\ wanted.ext \in {"ald", "wav", "other"} /\ wanted.fram \in Nat /\ wanted.good \in Nat
      /\ Length(wanted) \in Nat
  BY <1>1, FileTypes
<1>3. Proper(wanted)
  BY <1>2 DEF Opened, Openable, HeaderRight, Suitable, Proper
<1>4. fram' = Length(wanted) /\ fram' \in Nat
  BY <1>2 DEF Opened, Length
<1>5. TypeOK'
  BY <1>1, <1>4 DEF Inv, TypeOK, Opened
<1>6. Phases'
  BY <1>1, <1>3, <1>4 DEF Phases, Opened, Proper, Length
<1>7. Reading'
  <2>1. \A n \in 1 .. fram' : data'[n] \in Nat /\ data'[n] <= wanted'.good
    BY <1>1, <1>2, <1>4 DEF Opened
  <2>2. \A s \in Sections : ~(s < i')
    BY DEF Opened, Sections
  <2> QED
    BY <2>1, <2>2 DEF Reading
<1>8. Accepted' /\ convol' # "live"
  BY DEF Opened, Accepted
<1> QED
  BY <1>5, <1>6, <1>7, <1>8 DEF Inv

\* The section that is read is right, whether the file reaches so far or not, and
\* the sections before it are not touched.
LEMMA ReadStep == ASSUME Inv, ReadSect PROVE Inv'
<1>1. /\ pc = "sect" /\ i \in 0 .. 3 /\ i' = i + 1 /\ wanted' = wanted
      /\ pc' = pc /\ mode' = mode /\ fram' = fram /\ convol' = convol
      /\ wanted \in ConvFiles /\ fram = Length(wanted) /\ convol = "built"
  BY DEF Inv, TypeOK, Phases, ReadSect
<1>2. wanted.good \in Nat /\ Length(wanted) \in Nat
  BY <1>1, FileTypes
<1>3. data' = [n \in 1 .. fram |-> IF From + n <= wanted.good THEN From + n ELSE data[n]]
  BY DEF ReadSect
<1>4. From \in Nat /\ From = Length(wanted) * i
  <2>1. fram * i \in Nat
    BY <1>1, <1>2
  <2> QED
    BY <1>1, <2>1 DEF From
<1>5. \A n \in 1 .. fram : data[n] \in Nat /\ data[n] <= wanted.good
  BY <1>1 DEF Inv, Reading
<1>6. ASSUME NEW n \in 1 .. fram
      PROVE  /\ data'[n] \in Nat /\ data'[n] <= wanted.good
             /\ From + n <= wanted.good => data'[n] = From + n
  <2>1. data'[n] = IF From + n <= wanted.good THEN From + n ELSE data[n]
    BY <1>3
  <2>2. From + n \in Nat
    BY <1>1, <1>2, <1>4
  <2> QED
    BY <1>5, <2>1, <2>2
<1>7. coeff' = [coeff EXCEPT ![i] = data'] /\ coeff = [s \in Sections |-> coeff[s]]
  BY DEF ReadSect, Inv, TypeOK
<1>8. coeff'[i] = data' /\ \A s \in Sections : s # i => coeff'[s] = coeff[s]
  BY <1>1, <1>7 DEF Sections
<1>9. TypeOK'
  <2>1. coeff' = [s \in Sections |-> coeff'[s]]
    BY <1>7
  <2> QED
    BY <1>1, <2>1 DEF Inv, TypeOK
<1>10. Phases'
  BY <1>1 DEF Inv, Phases
<1>11. ASSUME NEW s \in Sections, s < i' PROVE Right(s)'
  <2>1. CASE s = i
    <3>1. DOMAIN coeff'[s] = 1 .. Length(wanted)
      BY <1>1, <1>3, <1>8, <2>1
    <3>2. ASSUME NEW n \in 1 .. Length(wanted)
          PROVE  /\ Length(wanted) * s + n <= wanted.good =>
                      coeff'[s][n] = Length(wanted) * s + n
                 /\ coeff'[s][n] <= wanted.good
      BY <1>1, <1>4, <1>6, <1>8, <2>1
    <3> QED
      BY <1>1, <3>1, <3>2 DEF Right, Length
  <2>2. CASE s # i
    <3>1. Right(s)
      BY <1>1, <1>11, <2>2 DEF Inv, Reading, Sections
    <3>2. coeff'[s] = coeff[s]
      BY <1>8, <2>2
    <3> QED
      BY <1>1, <3>1, <3>2 DEF Right, Length
  <2> QED
    BY <2>1, <2>2
<1>12. Reading'
  BY <1>1, <1>6, <1>11 DEF Reading
<1> QED
  BY <1>1, <1>9, <1>10, <1>12 DEF Inv, Accepted

LEMMA CloseStep == ASSUME Inv, CloseConvfile PROVE Inv'
<1>1. /\ pc = "sect" /\ i = 4 /\ wanted' = wanted /\ coeff' = coeff
      /\ wanted \in ConvFiles /\ Proper(wanted)
      /\ pc' = "idle" /\ mode' = "NONE" /\ convol' = "live" /\ i' = i /\ fram' = fram
  BY DEF Inv, Phases, CloseConvfile, Closing
<1>2. \A s \in Sections : Right(s)
  BY <1>1 DEF Inv, Reading, Sections
<1>3. \A s \in Sections : Right(s)'
  BY <1>1, <1>2 DEF Right, Length
<1>4. TypeOK'
  BY <1>1 DEF Inv, TypeOK
<1>5. Phases' /\ Reading'
  BY <1>1 DEF Phases, Reading
<1>6. Accepted'
  BY <1>1, FileTypes DEF Accepted, Proper
<1> QED
  BY <1>3, <1>4, <1>5, <1>6 DEF Inv

LEMMA InvStep == ASSUME Inv, [Next]_vars PROVE Inv'
<1>1. CASE UNCHANGED vars
  BY <1>1 DEF vars, impdata, Inv, TypeOK, Phases, Reading, Right, Accepted, Proper, Length
<1> QED
  BY <1>1, SetConvolStep, Refused, OpenedStep, ReadStep, CloseStep DEF Next

\* Whatever was loaded and whatever failed before, set_convol() ends with a
\* convolver exactly for a proper file: none is refused because of another one.
THEOREM ProperAccepted == Spec => []Accepted
<1>1. Inv => Accepted
  BY DEF Inv
<1> QED
  BY <1>1, InvInit, InvStep, PTL DEF Spec

\* A convolver that is ready is made of the file that was asked for, with every
\* section in its place as far as the file goes.
THEOREM LoadedInPlace == Spec => []Loaded
<1>1. Inv => Loaded
  BY DEF Inv, Loaded, Right
<1> QED
  BY <1>1, InvInit, InvStep, PTL DEF Spec
=============================================================================
