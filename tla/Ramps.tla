------------------------------- MODULE Ramps -------------------------------
(***************************************************************************)
(* The controls that the GUI thread sets while audio runs, and that the    *)
(* thread of JACK follows a step at a time, without a lock: the frequency  *)
(* of the high-pass filter (HP_conf), the volume (Jclient::monitor()), and *)
(* the directions and widths of the virtual microphones (Virtmic, whose    *)
(* azimuth is on a circle).                                                *)
(*                                                                         *)
(* All four are of one shape, and independent: kind says which one this    *)
(* is.  cur is where the control is, tgt what the two threads share, and   *)
(* asked the last value that the GUI asked for.  A frequency is its        *)
(* logarithm, so that the factors 1.25 and 0.80 are steps of the same      *)
(* size; 0 is the frequency of a filter that was never set.                *)
(***************************************************************************)
EXTENDS Integers

CONSTANTS
  Last,  \* the values are 1, ..., Last; those of a circle wrap around
  Step,  \* how far a control moves at a time
  Tol    \* a smaller difference from the target is ignored

ASSUME RampAssumption ==
  /\ Last \in Nat \ {0}
  /\ Step \in Nat \ {0}
  /\ Tol \in Nat \ {0}

Value == 1 .. Last

VARIABLES
  kind,              \* which control this is
  cur, tgt, asked,
  rt                 \* where the thread of JACK is

rvars == <<kind, cur, tgt, asked, rt>>

Kind == {"frequency", "volume", "width", "azimuth"}

RInit ==
  /\ kind \in Kind
  /\ IF kind = "frequency" THEN cur = 0 ELSE cur = 1
  /\ tgt = cur
  /\ asked = cur
  /\ rt = "off"

\* set_hpfil(), set_volum(), set_elev(), set_angle(), set_direc(), set_azim()
Set(v) ==
  /\ tgt' = v
  /\ asked' = v
  /\ UNCHANGED <<kind, cur, rt>>

\* Mutant of Wrapped: the long way round.
WrappedNot(d) == d

\* d -= floorf (d + 0.5f)
Wrapped(d) ==
  IF 2 * d >= Last THEN d - Last ELSE IF 2 * d < -Last THEN d + Last ELSE d

\* How far it is from x to y.
Way(x, y) == IF kind = "azimuth" THEN Wrapped(y - x) ELSE y - x

Abs(d) == IF d < 0 THEN -d ELSE d

\* Mutant of Moved: a circle does not wrap around.
MovedOn(x, d) == x + d

\* v -= floorf (v)
Moved(x, d) ==
  IF kind # "azimuth" THEN x + d
  ELSE IF x + d > Last THEN x + d - Last
  ELSE IF x + d < 1 THEN x + d + Last ELSE x + d

\* Mutant of Limited: the limit is not applied downwards.
LimitedUp(d) == IF d > Step THEN Step ELSE d

\* The way d, but no further than Step.
Limited(d) == IF d > Step THEN Step ELSE IF d < -Step THEN -Step ELSE d

\* HP_conf::process() reads the target anew wherever it needs it: to see whether
\* there is anything to do, to start from it if the filter was never set, and to
\* see whether it is more than a step higher, or lower.
Frequency ==
  /\ kind = "frequency" /\ rt = "off"
  /\ tgt # cur
  /\ rt' = IF cur = 0 THEN "first" ELSE "up"
  /\ UNCHANGED <<kind, cur, tgt, asked>>

FrequencyFirst ==
  /\ kind = "frequency" /\ rt = "first"
  /\ cur' = tgt
  /\ rt' = "up"
  /\ UNCHANGED <<kind, tgt, asked>>

FrequencyUp ==
  /\ kind = "frequency" /\ rt = "up"
  /\ \/ tgt > cur + Step /\ cur' = cur + Step /\ rt' = "off"
     \/ tgt <= cur + Step /\ UNCHANGED cur /\ rt' = "down"
  /\ UNCHANGED <<kind, tgt, asked>>

FrequencyDown ==
  /\ kind = "frequency" /\ rt = "down"
  /\ \/ tgt < cur - Step /\ cur' = cur - Step /\ rt' = "off"
     \/ tgt >= cur - Step /\ UNCHANGED cur /\ rt' = "copy"
  /\ UNCHANGED <<kind, tgt, asked>>

\* Mutant of FrequencyCopy: the last difference stays.
FrequencyKept ==
  /\ kind = "frequency" /\ rt = "copy"
  /\ rt' = "off"
  /\ UNCHANGED <<kind, cur, tgt, asked>>

\* Neither: it is the target that is set.
FrequencyCopy ==
  /\ kind = "frequency" /\ rt = "copy"
  /\ tgt' = cur
  /\ rt' = "off"
  /\ UNCHANGED <<kind, cur, asked>>

\* Jclient::monitor(): the target is read once.
Volume ==
  /\ kind = "volume"
  /\ Abs(tgt - cur) > Tol
  /\ cur' = cur + Limited(tgt - cur)
  /\ UNCHANGED <<kind, tgt, asked, rt>>

\* Virtmic: lincheck() and circheck() read the target once to see how far away
\* it is, and when it is near enough once more to go there.
Virtmic ==
  /\ kind \in {"width", "azimuth"} /\ rt = "off"
  /\ LET d == Way(cur, tgt)
     IN  /\ Abs(d) >= Tol
         /\ IF Abs(d) > Step
            THEN cur' = Moved(cur, Limited(d)) /\ UNCHANGED rt
            ELSE rt' = "copy" /\ UNCHANGED cur
  /\ UNCHANGED <<kind, tgt, asked>>

VirtmicCopy ==
  /\ kind \in {"width", "azimuth"} /\ rt = "copy"
  /\ cur' = tgt
  /\ rt' = "off"
  /\ UNCHANGED <<kind, tgt, asked>>

Frequencies ==
  Frequency \/ FrequencyFirst \/ FrequencyUp \/ FrequencyDown \/ FrequencyCopy

Follow == Frequencies \/ Volume \/ Virtmic \/ VirtmicCopy

RNext == Follow \/ \E v \in Value : Set(v)

RSpec == RInit /\ [][RNext]_rvars

\* JACK calls the callback in every period, and the callback calls process(): the
\* audio is not left idle, nor with an error flag set, for ever.
RFairSpec == RSpec /\ WF_rvars(Follow)
-----------------------------------------------------------------------------
\* Every variable has its type; only a filter that was never set has the
\* frequency 0, and only until then can its target be 0.  The callback takes a first
\* value from a target that is set, and compares only a frequency that is.
RTypeOK ==
  /\ kind \in Kind
  /\ cur \in Value \cup {0} /\ tgt \in Value \cup {0} /\ asked \in Value \cup {0}
  /\ cur = 0 \/ tgt = 0 => kind = "frequency" /\ cur = 0
  /\ rt \in {"off", "first", "up", "down", "copy"}
  /\ rt = "first" => cur = 0 /\ tgt # 0
  /\ rt \in {"up", "down"} => cur # 0

\* How far apart two values of the control are, on the circle the shorter way.
Distance(x, y) ==
  IF kind = "azimuth" /\ 2 * Abs(x - y) > Last THEN Last - Abs(x - y) ELSE Abs(x - y)

\* Whatever the GUI thread sets meanwhile, the callback never moves a control
\* away from its target or past it, nor an azimuth the long way round.
Approaches ==
  [][cur' # cur /\ cur # 0 =>
       Distance(cur', tgt) < Distance(cur, tgt)]_rvars

\* Nor does a frequency or a volume ever move by more than one step, which
\* would be heard as a click.
Smooth ==
  [][cur # 0 /\ kind \in {"frequency", "volume"} => Abs(cur' - cur) <= Step]_rvars

\* Where a control comes to rest: where it was asked to be, up to Tol; a
\* frequency, at what its target has become.
Settled ==
  IF kind = "frequency" THEN cur = tgt ELSE Distance(cur, asked) <= Tol

\* When the GUI no longer asks for other values, every control comes to rest.
Settles == <>[][\A v \in Value : ~Set(v)]_rvars => <>[]Settled
=============================================================================
