------------------------------- MODULE Meters -------------------------------
(***************************************************************************)
(* A level meter of the upstream program: Kmeterdsp, which the real-time   *)
(* thread of JACK feeds (Jclient::jack_process(), monitor(), measure())    *)
(* and the GUI thread reads about 20 times a second                        *)
(* (Mainwin::handle_time(), Jclient::get_level()), without a lock.  The    *)
(* GUI thread also selects which signal is measured (Jclient::set_meter()).*)
(*                                                                         *)
(* The four meters share nothing but that selection, and this is any one   *)
(* of them.  A level is a number; what the filter makes of a block, s, and *)
(* its highest sample, t, are any levels, zero once the input is silent.   *)
(* The peak falls back by one level at a time.                             *)
(*                                                                         *)
(* The variables after now serve the properties only.                      *)
(***************************************************************************)
EXTENDS Integers, FiniteSetsExt

CONSTANTS
  MaxLevel,  \* the loudest level
  Hold       \* how many blocks init() has a peak held

ASSUME MetersAssumption == MaxLevel \in Nat \ {0} /\ Hold \in Nat

Level == 0 .. MaxLevel
Source == {"INP", "MON"}   \* METER_INP, METER_MON

VARIABLES
  rms, dpk, cnt, flag,  \* the members of Kmeterdsp
  meter,                \* Jclient's _meter; "other" is no value of the enum
  ready,                \* has init_proc() been called?
  rt,                   \* where the real-time thread stands: at a statement of
                        \* the measure() of which source
  gui, got,             \* where the GUI thread stands; what it has read of _rms
  silent,               \* is the input silent from now on?
  now,                  \* has the measure() under way begun after the last read?
  due,                  \* the highest s of those that began after the last read
  since,                \* the highest s since _rms was last copied
  loud,                 \* the highest s since read() last returned
  of,                   \* the source that rms stems from
  settled,              \* has a measure() ended that began after the last read?
  mark,                 \* what has followed the last set_meter()
  still                 \* process() calls since dpk last rose

dsp == <<rms, dpk, cnt, flag>>
ghost == <<now, due, since, loud, of, settled, mark, still>>
vars == <<dsp, meter, ready, rt, gui, got, silent, ghost>>

Init ==
  /\ rms = 0 /\ dpk = 0 /\ cnt = 0 /\ flag = FALSE
  /\ meter \in Source \cup {"other"}
  /\ ready = FALSE
  /\ rt = [at |-> "off", in |-> "INP"]
  /\ gui = "init" /\ got = 0
  /\ silent = FALSE
  /\ now = FALSE /\ due = 0 /\ since = 0 /\ loud = 0 /\ of = "other"
  /\ settled = FALSE /\ mark = "switched" /\ still = Hold

Louder(x, y) == Max({x, y})
-----------------------------------------------------------------------------
\* The real-time thread.

At(label) == rt' = [rt EXCEPT !.at = label]

\* A block of which source src is to be measured, if _meter selects it, or
\* else a block that goes on at label.
Select(src, measured, otherwise) ==
  /\ rt' = IF meter = src THEN [at |-> measured, in |-> src]
                          ELSE [at |-> otherwise, in |-> src]
  /\ mark' = IF meter = src /\ mark = "switched" THEN "begun" ELSE mark
  /\ UNCHANGED <<dsp, meter, ready, gui, got, silent, now, due, since, loud, of,
                 settled, still>>

\* jack_process(): idle, or with an error of the convolver, the input meter is
\* reset; else the input is measured.  The processing of the block lies between
\* this and monitor().
Block ==
  /\ rt.at = "off"
  /\ Select("INP", "reset", "monitor") \/ Select("INP", "flag", "monitor")

\* A callback with another number of frames than at the start measures nothing.
OtherSize ==
  /\ rt.at = "off"
  /\ UNCHANGED vars

\* Mutant of Monitor: whatever is selected.
MonitorAny ==
  /\ rt.at = "monitor"
  /\ rt' = [at |-> "flag", in |-> "MON"]
  /\ UNCHANGED <<dsp, meter, ready, gui, got, silent, ghost>>

\* monitor(): _meter is tested anew.
Monitor ==
  /\ rt.at = "monitor"
  /\ Select("MON", "flag", "off")

\* reset(): the levels, the peak and its count, the flag.
Reset ==
  \/ /\ rt.at = "reset"
     /\ rms' = 0
     /\ due' = 0
     /\ loud' = 0
     /\ At("resetPeak")
     /\ UNCHANGED <<dpk, cnt, flag, still>>
  \/ /\ rt.at = "resetPeak"
     /\ dpk' = 0
     /\ cnt' = 0
     /\ still' = Hold
     /\ At("resetFlag")
     /\ UNCHANGED <<rms, flag, due, loud>>
  \/ /\ rt.at = "resetFlag"
     /\ flag' = FALSE
     /\ At("monitor")
     /\ UNCHANGED <<rms, dpk, cnt, due, loud, still>>

\* process(), line by line.  The flag is tested, ...
TestFlag ==
  /\ rt.at = "flag"
  /\ At(IF flag THEN "clear" ELSE "level")
  /\ now' = TRUE
  /\ UNCHANGED <<dsp, due, since, loud, of, settled, still>>

\* Mutant of Clear: what was read is not forgotten.
ClearNothing ==
  /\ rt.at = "clear"
  /\ At("lower")
  /\ UNCHANGED <<dsp, now, due, since, loud, of, settled, still>>

Clear ==
  /\ rt.at = "clear"
  /\ rms' = 0
  /\ At("lower")
  /\ UNCHANGED <<dpk, cnt, flag, now, due, since, loud, of, settled, still>>

Lower ==
  /\ rt.at = "lower"
  /\ flag' = FALSE
  /\ At("level")
  /\ UNCHANGED <<rms, dpk, cnt, now, due, since, loud, of, settled, still>>

Heard == IF silent THEN {0} ELSE Level

\* Mutant of Maximum: the last level instead of the highest.
MaximumLast(s) == s

Maximum(s) == IF s > rms THEN s ELSE rms

MaxRms ==
  /\ rt.at = "level"
  /\ \E s \in Heard :
       /\ rms' = Maximum(s)
       /\ of' = IF s > rms THEN rt.in ELSE of
       /\ due' = IF now THEN Louder(due, s) ELSE due
       /\ since' = Louder(since, s)
       /\ loud' = Louder(loud, s)
  /\ settled' = (settled \/ now)
  /\ At("peak")
  /\ UNCHANGED <<dpk, cnt, flag, now, still>>

\* Mutant of Fallen: below the bottom of the scale.
FallenBelow(x) == x - 1

\* _dpk *= _fall, which is zero before init()
Fallen(x) == IF ready /\ x > 0 THEN x - 1 ELSE 0

\* Mutants of Peak: a new peak is not held; the peak never falls.
PeakUnheld(t) ==
  IF t > dpk THEN dpk' = t /\ cnt' = 0
  ELSE IF cnt > 0 THEN dpk' = dpk /\ cnt' = cnt - 1
  ELSE dpk' = Fallen(dpk) /\ cnt' = 0
PeakKept(t) ==
  IF t > dpk THEN dpk' = t /\ cnt' = Hold ELSE UNCHANGED <<dpk, cnt>>

\* The digital peak; _hold is zero before init().
Peak(t) ==
  IF t > dpk THEN dpk' = t /\ cnt' = (IF ready THEN Hold ELSE 0)
  ELSE IF cnt > 0 THEN dpk' = dpk /\ cnt' = cnt - 1
  ELSE dpk' = Fallen(dpk) /\ cnt' = 0

DigitalPeak ==
  /\ rt.at = "peak"
  /\ \E t \in Heard :
       /\ Peak(t)
       /\ still' = IF t <= dpk THEN Min({still + 1, Hold})
                   ELSE IF ready THEN 0 ELSE Hold
  /\ At(IF rt.in = "INP" THEN "monitor" ELSE "off")
  /\ UNCHANGED <<rms, flag, now, due, since, loud, of, settled>>

Process == TestFlag \/ Clear \/ Lower \/ MaxRms \/ DigitalPeak

RealTime ==
  \/ Block \/ Monitor
  \/ /\ Reset
     /\ UNCHANGED <<meter, ready, gui, got, silent, now, since, of, settled,
                    mark>>
  \/ Process /\ UNCHANGED <<meter, ready, gui, got, silent, mark>>
-----------------------------------------------------------------------------
\* The GUI thread.

\* init_proc(), which follows jack_activate(): the first blocks may precede it.
InitProc ==
  /\ gui = "init"
  /\ gui' = "idle"
  /\ ready' = TRUE
  /\ meter' = "INP"
  /\ mark' = "switched"
  /\ UNCHANGED <<dsp, rt, got, silent, now, due, since, loud, of, settled, still>>

\* B_INPUT, B_MONIT
SetMeter(src) ==
  /\ gui = "idle"
  /\ meter' = src
  /\ mark' = IF src = meter THEN mark ELSE "switched"
  /\ UNCHANGED <<dsp, ready, rt, gui, got, silent, now, due, since, loud, of,
                 settled, still>>

\* handle_time(), read(): _rms is copied, ...
CopyRms ==
  /\ gui = "idle"
  /\ got' = rms
  /\ gui' = "flag"
  /\ since' = 0
  /\ UNCHANGED <<dsp, meter, ready, rt, silent, now, due, loud, of, settled,
                 mark, still>>

\* Mutant of SetFlag: the flag is not set.
SetFlagNot ==
  /\ gui = "flag"
  /\ gui' = "idle"
  /\ now' = FALSE /\ due' = 0 /\ loud' = 0 /\ settled' = FALSE
  /\ mark' = IF mark = "begun" THEN "read" ELSE mark
  /\ UNCHANGED <<dsp, meter, ready, rt, got, silent, since, of, still>>

\* ... and, after _dpk, which the GUI only draws, the flag is set.
SetFlag ==
  /\ gui = "flag"
  /\ flag' = TRUE
  /\ gui' = "idle"
  /\ now' = FALSE /\ due' = 0 /\ loud' = 0 /\ settled' = FALSE
  /\ mark' = IF mark = "begun" THEN "read" ELSE mark
  /\ UNCHANGED <<rms, dpk, cnt, meter, ready, rt, got, silent, since, of, still>>

HandleTime == CopyRms \/ SetFlag

Silence ==
  /\ silent' = TRUE
  /\ UNCHANGED <<dsp, meter, ready, rt, gui, got, ghost>>

Next ==
  \/ RealTime \/ OtherSize
  \/ InitProc \/ (\E src \in Source : SetMeter(src)) \/ HandleTime \/ Silence

\* JACK calls the callback again and again, with the number of frames that it had at
\* the start, and the timer of the GUI thread expires again and again.
Spec ==
  /\ Init /\ [][Next]_vars
  /\ WF_vars(RealTime) /\ WF_vars(HandleTime) /\ WF_vars(InitProc)
-----------------------------------------------------------------------------
TypeOK ==
  /\ rms \in Level /\ dpk \in Level /\ cnt \in 0 .. Hold /\ flag \in BOOLEAN
  /\ meter \in Source \cup {"other"}
  /\ ready \in BOOLEAN
  /\ rt \in [at : {"off", "monitor", "reset", "resetPeak", "resetFlag", "flag",
                   "clear", "lower", "level", "peak"},
             in : Source]
  /\ gui \in {"init", "idle", "flag"}
  /\ got \in Level
  /\ silent \in BOOLEAN
  /\ now \in BOOLEAN /\ settled \in BOOLEAN
  /\ {due, since, loud} \subseteq Level
  /\ of \in Source \cup {"other"}
  /\ mark \in {"switched", "begun", "read"}
  /\ still \in 0 .. Hold

\* What read() returns is at least the level of every block that began after
\* the previous read() had returned: no such block is missed by the display,
\* wherever the flag of the GUI thread falls between the statements of process().
\* Blocks before a reset() of the meter are exempt, which forgets them (due).
ReadCovers == [][gui = "idle" /\ gui' = "flag" => got' >= due]_vars

\* Once a block has been measured as a whole since the last read(), nothing
\* that was read before is left in _rms: the display does not stick.
RmsFresh == gui = "idle" /\ settled => rms <= since

\* After set_meter(), a measure() of the new source, a read() and another
\* measure(), the level is one of the selected source.  (A read() right after
\* set_meter() is not enough: a block of the other source may take its flag.)
SelectedShown == settled /\ mark = "read" /\ rms > 0 => of = meter

\* A peak is shown for as many calls of process() as init() has asked for, or
\* until reset(): equal peaks, reads and switches of the meter do not cut it short.
PeakHeld == [][dpk' < dpk /\ rt.at = "peak" => still = Hold]_vars

\* When the input is silent, and the meter is left alone, both levels fall to
\* zero and stay there.
Falls == <>[]silent /\ <>[][meter' = meter]_vars => <>[](rms = 0 /\ dpk = 0)

\* "Returns highest _rms value since last call" (read()): of every block that
\* has ended since the last call returned.
Highest == [][gui = "idle" /\ gui' = "flag" => got' >= loud]_vars
=============================================================================
