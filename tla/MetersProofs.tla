---------------------------- MODULE MetersProofs ----------------------------
(***************************************************************************)
(* Theorems about Meters, for every number of levels and every time that a *)
(* peak is held.                                                           *)
(***************************************************************************)
EXTENDS Meters, TLAPS

\* A read() whose flag has been set and not yet taken: until then nothing counts
\* as measured since, and once a measure() has seen the flag it is about to clear.
Waiting == flag /\ ~settled /\ (now => rt.at = "clear")

\* The three places where _rms has just been cleared.
Cleared == rt.at \in {"lower", "resetPeak", "resetFlag"} => rms = 0

\* What is in _rms was measured since the last copy, or it will be cleared first.
Fresh ==
  /\ gui = "init" => rms <= since
  /\ gui = "idle" => rms <= since \/ Waiting

\* The flag is not up once a block has been measured that began after read().
Covers ==
  /\ rms >= due
  /\ due > 0 => ~flag /\ rt.at # "clear"
  /\ now /\ rt.at = "level" => ~flag

\* _cnt is what is left of the time a peak has to be held.
Held == still + cnt >= Hold

Measuring == {"flag", "clear", "lower", "level", "peak"}

\* Once a measure() of the selected source has begun there is none of the other.
Chosen == mark # "switched" /\ rt.at \in Measuring => rt.in = meter

Shown == mark = "read" => rms = 0 \/ of = meter \/ Waiting

Inv == TypeOK /\ Cleared /\ Fresh /\ Covers /\ Held /\ Chosen /\ Shown

LEMMA LouderIs ==
  ASSUME NEW x \in Nat, NEW y \in Nat
  PROVE  Louder(x, y) = IF x > y THEN x ELSE y
<1> DEFINE m == IF x > y THEN x ELSE y
<1>1. m \in {x, y} /\ \A z \in {x, y} : m >= z
  OBVIOUS
<1>2. \A c \in {x, y} : (\A z \in {x, y} : c >= z) => c = m
  OBVIOUS
<1>3. Louder(x, y) \in {x, y} /\ \A z \in {x, y} : Louder(x, y) >= z
  BY <1>1, Zenon DEF Louder, Max
<1> QED
  BY <1>2, <1>3

LEMMA LeastIs ==
  ASSUME NEW x \in Nat, NEW y \in Nat
  PROVE  Min({x, y}) = IF x < y THEN x ELSE y
<1> DEFINE m == IF x < y THEN x ELSE y
<1>1. m \in {x, y} /\ \A z \in {x, y} : m <= z
  OBVIOUS
<1>2. \A c \in {x, y} : (\A z \in {x, y} : c <= z) => c = m
  OBVIOUS
<1>3. Min({x, y}) \in {x, y} /\ \A z \in {x, y} : Min({x, y}) <= z
  BY <1>1, Zenon DEF Min
<1> QED
  BY <1>2, <1>3

Place == {"off", "monitor", "reset", "resetPeak", "resetFlag", "flag",
          "clear", "lower", "level", "peak"}

LEMMA Types ==
  ASSUME TypeOK
  PROVE  /\ rms \in Nat /\ dpk \in Nat /\ cnt \in Nat /\ due \in Nat /\ since \in Nat
         /\ loud \in Nat /\ still \in Nat /\ still <= Hold /\ Hold \in Nat
         /\ rt \in [at : Place, in : Source] /\ rt.at \in Place /\ rt.in \in Source
BY MetersAssumption DEF TypeOK, Level, Place

LEMMA InvInit == ASSUME Init PROVE Inv
<1>1. TypeOK
  <2>1. 0 \in Level /\ 0 \in 0 .. Hold /\ Hold \in 0 .. Hold
    BY MetersAssumption DEF Level
  <2> QED
    BY <2>1 DEF Init, TypeOK, Source
<1>2. Cleared /\ Fresh
  BY DEF Init, Cleared, Fresh
<1>5. Held
  <2>1. still + cnt = Hold + 0
    BY DEF Init
  <2> QED
    BY <2>1, MetersAssumption DEF Held
<1>3. Covers
  BY DEF Init, Covers
<1>4. Chosen /\ Shown
  BY DEF Init, Chosen, Shown
<1> QED
  BY <1>1, <1>2, <1>3, <1>4, <1>5 DEF Inv

\* How rt changes.
LEMMA AtIs ==
  ASSUME TypeOK, NEW label \in Place, At(label)
  PROVE  rt'.at = label /\ rt'.in = rt.in /\ rt' \in [at : Place, in : Source]
BY Types DEF At, Place

\* A measure() of the selected source begins, or none does.
LEMMA SelectStep ==
  ASSUME Inv, NEW src \in Source, NEW measured \in Place, NEW otherwise \in Place,
         measured \notin {"lower", "clear", "level", "resetPeak", "resetFlag"},
         otherwise \in {"off", "monitor"},
         rt.at \in {"off", "monitor"}, Select(src, measured, otherwise)
  PROVE  Inv'
<1>1. /\ rt'.at \in {measured, otherwise} /\ rt'.in = src
      /\ rt' \in [at : Place, in : Source]
      /\ rt'.at = measured => meter = src \/ measured = otherwise
  BY DEF Select, Source
<1>2. /\ UNCHANGED <<dsp, meter, ready, gui, got, silent, now, due, since, loud, of,
                     settled, still>>
      /\ mark' \in {mark, "begun"}
      /\ mark' # mark => meter = src /\ mark = "switched" /\ mark' = "begun"
  BY DEF Select
<1>3. TypeOK'
  BY <1>1, <1>2 DEF Inv, TypeOK, dsp, Place
<1>4. Cleared' /\ Covers' /\ Held'
  BY <1>1, <1>2 DEF Inv, Cleared, Covers, Held, dsp
<1>5. Waiting => Waiting'
  BY <1>1, <1>2 DEF Inv, Waiting, dsp
<1>6. Fresh' /\ Shown'
  BY <1>2, <1>5 DEF Inv, Fresh, Shown, dsp
<1>7. Chosen'
  BY <1>1, <1>2 DEF Inv, Chosen, Measuring, Select
<1> QED
  BY <1>3, <1>4, <1>6, <1>7 DEF Inv

\* What a step of the measure() under way leaves alone.
Rest == UNCHANGED <<meter, ready, gui, got, silent, mark>>

\* reset() clears the level, and with it what is due; its flag goes down while
\* the level is zero.
LEMMA ResetStep ==
  ASSUME Inv, Reset, UNCHANGED <<meter, ready, gui, got, silent, now, since, of, settled, mark>>
  PROVE  Inv'
<1> DEFINE R == UNCHANGED <<meter, ready, gui, got, silent, now, since, of, settled, mark>>
<1>0. TypeOK /\ R
  BY DEF Inv
<1>1. CASE rt.at = "reset"
  <2>1. rms' = 0 /\ due' = 0 /\ loud' = 0 /\ At("resetPeak") /\ UNCHANGED <<dpk, cnt, flag, still>>
    BY <1>1 DEF Reset
  <2>2. rt'.at = "resetPeak" /\ rt'.in = rt.in /\ rt' \in [at : Place, in : Source]
    BY <1>0, <2>1, AtIs DEF Place
  <2>3. TypeOK'
    BY <1>0, <2>1, <2>2, MetersAssumption DEF TypeOK, Level, Place
  <2>4. Cleared' /\ Covers' /\ Held'
    BY <1>0, <2>1, <2>2 DEF Inv, Cleared, Covers, Held
  <2>5. Fresh' /\ Shown' /\ Chosen'
    BY <1>0, <2>1, <2>2, Types DEF Inv, Fresh, Shown, Chosen, Measuring
  <2> QED
    BY <2>3, <2>4, <2>5 DEF Inv
<1>2. CASE rt.at = "resetPeak"
  <2>1. dpk' = 0 /\ cnt' = 0 /\ still' = Hold /\ At("resetFlag") /\ UNCHANGED <<rms, flag, due, loud>>
    BY <1>2 DEF Reset
  <2>2. rt'.at = "resetFlag" /\ rt'.in = rt.in /\ rt' \in [at : Place, in : Source]
    BY <1>0, <2>1, AtIs DEF Place
  <2>3. TypeOK'
    BY <1>0, <2>1, <2>2, MetersAssumption DEF TypeOK, Level, Place
  <2>4. Cleared' /\ Covers' /\ Held'
    BY <1>0, <1>2, <2>1, <2>2, MetersAssumption DEF Inv, Cleared, Covers, Held
  <2>5. rms = 0
    BY <1>2 DEF Inv, Cleared
  <2>6. Fresh' /\ Shown' /\ Chosen'
    BY <1>0, <2>1, <2>2, <2>5, Types DEF Fresh, Shown, Chosen, Measuring
  <2> QED
    BY <2>3, <2>4, <2>6 DEF Inv
<1>3. CASE rt.at = "resetFlag"
  <2>1. flag' = FALSE /\ At("monitor") /\ UNCHANGED <<rms, dpk, cnt, due, loud, still>>
    BY <1>3 DEF Reset
  <2>2. rt'.at = "monitor" /\ rt'.in = rt.in /\ rt' \in [at : Place, in : Source]
    BY <1>0, <2>1, AtIs DEF Place
  <2>3. TypeOK'
    BY <1>0, <2>1, <2>2 DEF TypeOK, Place
  <2>4. Cleared' /\ Covers' /\ Held'
    BY <1>0, <2>1, <2>2 DEF Inv, Cleared, Covers, Held
  <2>5. rms = 0
    BY <1>3 DEF Inv, Cleared
  <2>6. Fresh' /\ Shown' /\ Chosen'
    BY <1>0, <2>1, <2>2, <2>5, Types DEF Fresh, Shown, Chosen, Measuring
  <2> QED
    BY <2>3, <2>4, <2>6 DEF Inv
<1> QED
  BY <1>1, <1>2, <1>3 DEF Reset

\* The flag decides: a read() that waits is about to have its level cleared.
LEMMA TestFlagStep == ASSUME Inv, TestFlag, Rest PROVE Inv'
<1>0. TypeOK /\ Rest /\ rt.at = "flag" /\ now' = TRUE
      /\ UNCHANGED <<rms, dpk, cnt, flag, due, since, loud, of, settled, still>>
  BY DEF Inv, TestFlag, dsp
<1>1. /\ rt'.at = IF flag THEN "clear" ELSE "level"
      /\ rt'.in = rt.in /\ rt' \in [at : Place, in : Source]
  BY <1>0, AtIs DEF TestFlag, Place
<1>2. TypeOK'
  BY <1>0, <1>1 DEF TypeOK, Place, Rest
<1>3. Cleared' /\ Held'
  BY <1>0, <1>1 DEF Inv, Cleared, Held
<1>4. Covers'
  <2>1. CASE flag
    BY <1>0, <1>1, <2>1 DEF Inv, Covers
  <2>2. CASE ~flag
    BY <1>0, <1>1, <2>2 DEF Inv, Covers
  <2> QED
    BY <2>1, <2>2
<1>5. Waiting => Waiting'
  BY <1>0, <1>1 DEF Waiting
<1>6. Fresh' /\ Shown'
  BY <1>0, <1>5 DEF Inv, Fresh, Shown, Rest
<1>7. Chosen'
  BY <1>0, <1>1 DEF Inv, Chosen, Measuring, Rest
<1> QED
  BY <1>2, <1>3, <1>4, <1>6, <1>7 DEF Inv

LEMMA ClearStep == ASSUME Inv, Clear, Rest PROVE Inv'
<1>0. TypeOK /\ Rest /\ rt.at = "clear" /\ rms' = 0
      /\ UNCHANGED <<dpk, cnt, flag, now, due, since, loud, of, settled, still>>
  BY DEF Inv, Clear
<1>1. rt'.at = "lower" /\ rt'.in = rt.in /\ rt' \in [at : Place, in : Source]
  BY <1>0, AtIs DEF Clear, Place
<1>2. due = 0
  BY <1>0, Types DEF Inv, Covers
<1>3. TypeOK'
  BY <1>0, <1>1, MetersAssumption DEF TypeOK, Place, Rest, Level
<1>4. Cleared' /\ Covers' /\ Held'
  BY <1>0, <1>1, <1>2 DEF Inv, Cleared, Covers, Held
<1>5. Fresh' /\ Shown' /\ Chosen'
  BY <1>0, <1>1, Types DEF Inv, Fresh, Shown, Chosen, Measuring, Rest
<1> QED
  BY <1>3, <1>4, <1>5 DEF Inv

\* The flag of a read() in between may be lost here, but then the level is zero.
LEMMA LowerStep == ASSUME Inv, Lower, Rest PROVE Inv'
<1>0. TypeOK /\ Rest /\ rt.at = "lower" /\ flag' = FALSE
      /\ UNCHANGED <<rms, dpk, cnt, now, due, since, loud, of, settled, still>>
  BY DEF Inv, Lower
<1>1. rt'.at = "level" /\ rt'.in = rt.in /\ rt' \in [at : Place, in : Source]
  BY <1>0, AtIs DEF Lower, Place
<1>2. rms = 0
  BY <1>0 DEF Inv, Cleared
<1>3. TypeOK'
  BY <1>0, <1>1 DEF TypeOK, Place, Rest
<1>4. Cleared' /\ Covers' /\ Held'
  BY <1>0, <1>1 DEF Inv, Cleared, Covers, Held
<1>5. Fresh' /\ Shown' /\ Chosen'
  BY <1>0, <1>1, <1>2, Types DEF Inv, Fresh, Shown, Chosen, Measuring, Rest
<1> QED
  BY <1>3, <1>4, <1>5 DEF Inv

\* The level of a block counts for the display and for what is due to it.
LEMMA MaxRmsStep == ASSUME Inv, MaxRms, Rest PROVE Inv'
<1>0. TypeOK /\ Rest /\ rt.at = "level" /\ settled' = (settled \/ now)
      /\ UNCHANGED <<dpk, cnt, flag, now, still>>
  BY DEF Inv, MaxRms
<1>1. rt'.at = "peak" /\ rt'.in = rt.in /\ rt' \in [at : Place, in : Source]
  BY <1>0, AtIs DEF MaxRms, Place
<1>2. PICK s \in Heard :
        /\ rms' = Maximum(s)
        /\ of' = IF s > rms THEN rt.in ELSE of
        /\ due' = IF now THEN Louder(due, s) ELSE due
        /\ since' = Louder(since, s)
        /\ loud' = Louder(loud, s)
  BY DEF MaxRms
<1>3. s \in Level /\ s \in Nat
  BY MetersAssumption DEF Heard, Level
<1>4. /\ rms' = IF s > rms THEN s ELSE rms
      /\ since' = IF since > s THEN since ELSE s
      /\ loud' = IF loud > s THEN loud ELSE s
      /\ due' = IF now THEN (IF due > s THEN due ELSE s) ELSE due
  BY <1>0, <1>2, <1>3, Types, LouderIs DEF Maximum
<1>5. TypeOK'
  <2>1. rms' \in Level /\ {due', since', loud'} \subseteq Level
    BY <1>0, <1>3, <1>4, Types DEF TypeOK, Level
  <2>2. of' \in Source \cup {"other"}
    BY <1>0, <1>2, Types DEF TypeOK
  <2> QED
    BY <1>0, <1>1, <2>1, <2>2 DEF TypeOK, Place, Rest
<1>6. Cleared' /\ Held'
  BY <1>0, <1>1 DEF Inv, Cleared, Held
<1>7. Covers'
  <2>1. CASE now
    <3>1. ~flag
      BY <1>0, <2>1 DEF Inv, Covers
    <3> QED
      BY <1>0, <1>1, <1>3, <1>4, <2>1, <3>1, Types DEF Inv, Covers
  <2>2. CASE ~now
    BY <1>0, <1>1, <1>3, <1>4, <2>2, Types DEF Inv, Covers
  <2> QED
    BY <2>1, <2>2
<1>8. Waiting => Waiting'
  BY <1>0 DEF Waiting
<1>9. Fresh'
  <2>1. rms <= since => rms' <= since'
    BY <1>0, <1>3, <1>4, Types
  <2> QED
    BY <1>0, <1>8, <2>1 DEF Inv, Fresh, Rest
<1>10. Shown'
  <2>1. CASE mark # "read"
    BY <1>0, <2>1 DEF Shown, Rest
  <2>2. CASE mark = "read" /\ Waiting
    BY <1>8, <2>2 DEF Shown
  <2>3. CASE mark = "read" /\ (rms = 0 \/ of = meter)
    <3>1. rt.in = meter
      BY <1>0, <2>3 DEF Inv, Chosen, Measuring
    <3>2. rms' = 0 \/ of' = meter
      BY <1>0, <1>2, <1>3, <1>4, <2>3, <3>1, Types
    <3> QED
      BY <1>0, <3>2 DEF Shown, Rest
  <2> QED
    BY <2>1, <2>2, <2>3 DEF Inv, Shown
<1>11. Chosen'
  BY <1>0, <1>1 DEF Inv, Chosen, Measuring, Rest
<1> QED
  BY <1>5, <1>6, <1>7, <1>9, <1>10, <1>11 DEF Inv

\* The count and the age of the peak make up the time it is held.
LEMMA PeakStep == ASSUME Inv, DigitalPeak, Rest PROVE Inv'
<1>0. TypeOK /\ Rest /\ rt.at = "peak" /\ UNCHANGED <<rms, flag, now, due, since, loud, of, settled>>
  BY DEF Inv, DigitalPeak
<1>1. /\ rt'.at \in {"monitor", "off"}
      /\ rt'.in = rt.in /\ rt' \in [at : Place, in : Source]
  BY <1>0, AtIs DEF DigitalPeak, Place
<1>2. PICK t \in Heard :
        /\ Peak(t)
        /\ still' = IF t <= dpk THEN Min({still + 1, Hold}) ELSE IF ready THEN 0 ELSE Hold
  BY DEF DigitalPeak
<1>3. t \in Level /\ t \in Nat
  BY MetersAssumption DEF Heard, Level
<1>4. t <= dpk => still' = IF still + 1 < Hold THEN still + 1 ELSE Hold
  BY <1>0, <1>2, Types, LeastIs
<1>5. /\ dpk' \in Level /\ cnt' \in 0 .. Hold /\ still' \in 0 .. Hold
      /\ still' + cnt' >= Hold
  <2>1. CASE t > dpk
    BY <1>0, <1>2, <1>3, <2>1, Types DEF Peak
  <2>2. CASE t <= dpk /\ cnt > 0
    <3>1. dpk' = dpk /\ cnt' = cnt - 1
      BY <1>0, <1>2, <1>3, <2>2, Types DEF Peak
    <3> QED
      BY <1>0, <1>4, <2>2, <3>1, Types DEF Inv, Held, TypeOK
  <2>3. CASE t <= dpk /\ ~(cnt > 0)
    <3>1. dpk' = Fallen(dpk) /\ cnt' = 0
      BY <1>0, <1>2, <1>3, <2>3, Types DEF Peak
    <3>2. Fallen(dpk) \in Level
      BY <1>0, Types, MetersAssumption DEF Fallen, Level, TypeOK
    <3> QED
      BY <1>0, <1>4, <2>3, <3>1, <3>2, Types DEF Inv, Held
  <2> QED
    BY <1>0, <1>3, <2>1, <2>2, <2>3, Types
<1>6. TypeOK'
  BY <1>0, <1>1, <1>5 DEF TypeOK, Place, Rest
<1>7. Cleared' /\ Held' /\ Chosen'
  BY <1>0, <1>1, <1>5 DEF Cleared, Held, Chosen, Measuring
<1>8. Covers'
  BY <1>0, <1>1 DEF Inv, Covers
<1>9. Waiting => Waiting'
  BY <1>0 DEF Waiting
<1>10. Fresh' /\ Shown'
  BY <1>0, <1>9 DEF Inv, Fresh, Shown, Rest
<1> QED
  BY <1>6, <1>7, <1>8, <1>10 DEF Inv

LEMMA RealTimeStep == ASSUME Inv, RealTime PROVE Inv'
<1>1. CASE Block
  <2>1. rt.at = "off" /\ (Select("INP", "reset", "monitor") \/ Select("INP", "flag", "monitor"))
    BY <1>1 DEF Block
  <2> QED
    BY <2>1, SelectStep DEF Source, Place
<1>2. CASE Monitor
  <2>1. rt.at = "monitor" /\ Select("MON", "flag", "off")
    BY <1>2 DEF Monitor
  <2> QED
    BY <2>1, SelectStep DEF Source, Place
<1>3. CASE Process /\ UNCHANGED <<meter, ready, gui, got, silent, mark>>
  BY <1>3, TestFlagStep, ClearStep, LowerStep, MaxRmsStep, PeakStep DEF Process, Rest
<1>4. CASE Reset /\ UNCHANGED <<meter, ready, gui, got, silent, now, since, of, settled, mark>>
  BY <1>4, ResetStep
<1> QED
  BY <1>1, <1>2, <1>3, <1>4 DEF RealTime

LEMMA InitProcStep == ASSUME Inv, InitProc PROVE Inv'
<1>1. /\ UNCHANGED <<rms, dpk, cnt, flag, rt, got, silent, now, due, since, loud, of, settled, still>>
      /\ gui = "init" /\ gui' = "idle" /\ ready' = TRUE /\ meter' = "INP" /\ mark' = "switched"
  BY DEF InitProc, dsp
<1>2. TypeOK'
  BY <1>1 DEF Inv, TypeOK, Source
<1>3. Cleared' /\ Covers' /\ Held'
  BY <1>1 DEF Inv, Cleared, Covers, Held
<1>4. Fresh' /\ Chosen' /\ Shown'
  BY <1>1 DEF Inv, Fresh, Chosen, Shown
<1> QED
  BY <1>2, <1>3, <1>4 DEF Inv

\* Another source is selected: what is known of the level is forgotten.
LEMMA SetMeterStep == ASSUME Inv, NEW src \in Source, SetMeter(src) PROVE Inv'
<1>1. /\ UNCHANGED <<rms, dpk, cnt, flag, ready, rt, gui, got, silent, now, due, since, loud, of,
                     settled, still>>
      /\ meter' = src /\ mark' = IF src = meter THEN mark ELSE "switched"
  BY DEF SetMeter, dsp
<1>2. TypeOK'
  BY <1>1 DEF Inv, TypeOK
<1>3. Cleared' /\ Covers' /\ Held'
  BY <1>1 DEF Inv, Cleared, Covers, Held
<1>4. Waiting => Waiting'
  BY <1>1 DEF Waiting
<1>5. Fresh' /\ Chosen' /\ Shown'
  BY <1>1, <1>4 DEF Inv, Fresh, Chosen, Shown
<1> QED
  BY <1>2, <1>3, <1>5 DEF Inv

LEMMA CopyRmsStep == ASSUME Inv, CopyRms PROVE Inv'
<1>1. /\ UNCHANGED <<rms, dpk, cnt, flag, meter, ready, rt, silent, now, due, loud, of, settled,
                     mark, still>>
      /\ gui' = "flag" /\ got' = rms /\ since' = 0
  BY DEF CopyRms, dsp
<1>2. TypeOK'
  BY <1>1, MetersAssumption DEF Inv, TypeOK, Level
<1>3. Cleared' /\ Covers' /\ Held'
  BY <1>1 DEF Inv, Cleared, Covers, Held
<1>4. Waiting => Waiting'
  BY <1>1 DEF Waiting
<1>5. Fresh' /\ Chosen' /\ Shown'
  BY <1>1, <1>4 DEF Inv, Fresh, Chosen, Shown
<1> QED
  BY <1>2, <1>3, <1>5 DEF Inv

\* The flag goes up, and from here on read() waits.
LEMMA SetFlagStep == ASSUME Inv, SetFlag PROVE Inv'
<1>1. /\ UNCHANGED <<rms, dpk, cnt, meter, ready, rt, got, silent, since, of, still>>
      /\ flag' = TRUE /\ gui' = "idle" /\ now' = FALSE /\ due' = 0 /\ loud' = 0 /\ settled' = FALSE
      /\ mark' = IF mark = "begun" THEN "read" ELSE mark
  BY DEF SetFlag
<1>2. TypeOK'
  <2>1. 0 \in Level
    BY MetersAssumption DEF Level
  <2>2. mark' \in {"switched", "begun", "read"}
    BY <1>1 DEF Inv, TypeOK
  <2> QED
    BY <1>1, <2>1, <2>2 DEF Inv, TypeOK
<1>3. Cleared' /\ Held'
  BY <1>1 DEF Inv, Cleared, Held
<1>4. Covers'
  <2>1. rms \in Nat
    BY Types DEF Inv
  <2> QED
    BY <1>1, <2>1 DEF Covers
<1>5. Waiting'
  BY <1>1 DEF Waiting
<1>6. Fresh' /\ Shown'
  BY <1>1, <1>5 DEF Fresh, Shown
<1>7. Chosen'
  BY <1>1 DEF Inv, Chosen
<1> QED
  BY <1>2, <1>3, <1>4, <1>6, <1>7 DEF Inv

LEMMA SilenceStep == ASSUME Inv, Silence PROVE Inv'
<1>1. /\ UNCHANGED <<rms, dpk, cnt, flag, meter, ready, rt, gui, got, now, due, since, loud, of,
                     settled, mark, still>>
      /\ silent' = TRUE
  BY DEF Silence, dsp, ghost
<1>2. TypeOK'
  BY <1>1 DEF Inv, TypeOK
<1>3. Cleared' /\ Covers' /\ Held'
  BY <1>1 DEF Inv, Cleared, Covers, Held
<1>4. Waiting => Waiting'
  BY <1>1 DEF Waiting
<1>5. Fresh' /\ Chosen' /\ Shown'
  BY <1>1, <1>4 DEF Inv, Fresh, Chosen, Shown
<1> QED
  BY <1>2, <1>3, <1>5 DEF Inv

LEMMA StutterStep == ASSUME Inv, UNCHANGED vars PROVE Inv'
<1>1. UNCHANGED <<rms, dpk, cnt, flag, meter, ready, rt, gui, got, silent, now, due, since, loud, of,
                  settled, mark, still>>
  BY DEF vars, dsp, ghost
<1>2. TypeOK'
  BY <1>1 DEF Inv, TypeOK
<1>3. Cleared' /\ Covers' /\ Held'
  BY <1>1 DEF Inv, Cleared, Covers, Held
<1>4. Waiting => Waiting'
  BY <1>1 DEF Waiting
<1>5. Fresh' /\ Chosen' /\ Shown'
  BY <1>1, <1>4 DEF Inv, Fresh, Chosen, Shown
<1> QED
  BY <1>2, <1>3, <1>5 DEF Inv

LEMMA InvStep == ASSUME Inv, [Next]_vars PROVE Inv'
BY RealTimeStep, InitProcStep, SetMeterStep, CopyRmsStep, SetFlagStep, SilenceStep, StutterStep
   DEF Next, HandleTime, OtherSize

\* Each variable has its type, for every number of levels and time of holding: the
\* peak's counter never leaves 0 .. Hold.
THEOREM MetersTypeCorrect == Spec => []TypeOK
<1>1. Inv => TypeOK
  BY DEF Inv
<1> QED
  BY <1>1, InvInit, InvStep, PTL DEF Spec

\* Once a block has been measured as a whole since the last read(), nothing that
\* was read before is in _rms, for every number of levels.
THEOREM DisplayFresh == Spec => []RmsFresh
<1>1. Inv => RmsFresh
  BY DEF Inv, Fresh, Waiting, RmsFresh
<1> QED
  BY <1>1, InvInit, InvStep, PTL DEF Spec

\* After a switch of the meter, a measure() of the new source, a read() and another
\* measure(), the level shown stems from the selected source.
THEOREM SwitchShown == Spec => []SelectedShown
<1>1. Inv => SelectedShown
  <2> SUFFICES ASSUME Inv, settled, mark = "read", rms > 0 PROVE of = meter
    BY DEF SelectedShown
  <2>1. ~Waiting
    BY DEF Waiting
  <2>2. rms # 0
    OBVIOUS
  <2> QED
    BY <2>1, <2>2 DEF Inv, Shown
<1> QED
  BY <1>1, InvInit, InvStep, PTL DEF Spec

\* No block that begins after a read() is missed by the next one, unless reset() has
\* been called in between.
THEOREM NothingMissed == Spec => ReadCovers
<1>1. Inv /\ [Next]_vars => [gui = "idle" /\ gui' = "flag" => got' >= due]_vars
  <2> SUFFICES ASSUME Inv, Next, gui = "idle", gui' = "flag" PROVE got' >= due
    OBVIOUS
  <2>1. CASE CopyRms
    BY <2>1 DEF CopyRms, Inv, Covers
  <2>2. CASE ~CopyRms
    <3>1. gui' = gui \/ gui' = "idle"
      BY <2>2 DEF Next, RealTime, OtherSize, vars, Block, Monitor, Select, InitProc, SetMeter,
                  HandleTime, SetFlag, Silence, ghost
    <3> QED
      BY <3>1
  <2> QED
    BY <2>1, <2>2
<1> QED
  BY <1>1, InvInit, InvStep, PTL DEF Spec, ReadCovers

\* A peak falls only when it has been shown for the whole time that init() asked for.
THEOREM PeaksHeld == Spec => PeakHeld
<1>1. Inv /\ [Next]_vars => [dpk' < dpk /\ rt.at = "peak" => still = Hold]_vars
  <2> SUFFICES ASSUME Inv, Next, dpk' < dpk, rt.at = "peak" PROVE still = Hold
    OBVIOUS
  <2>0. dpk \in Nat /\ cnt \in Nat /\ still \in Nat /\ still <= Hold /\ Hold \in Nat
    BY Types DEF Inv
  <2>1. dpk' # dpk
    BY <2>0
  <2>2. DigitalPeak
    BY <2>1 DEF Next, RealTime, OtherSize, vars, Block, Monitor, Select, Reset, Process, TestFlag,
                Clear, Lower, MaxRms, InitProc, SetMeter, HandleTime, CopyRms, SetFlag, Silence, dsp
  <2>3. PICK t \in Heard : Peak(t)
    BY <2>2 DEF DigitalPeak
  <2>4. t \in Nat
    BY MetersAssumption DEF Heard, Level
  <2>5. cnt = 0
    BY <2>0, <2>1, <2>3, <2>4 DEF Peak
  <2> QED
    BY <2>0, <2>5 DEF Inv, Held
<1> QED
  BY <1>1, InvInit, InvStep, PTL DEF Spec, PeakHeld
=============================================================================
