------------------------------- MODULE Confwin -------------------------------
(***************************************************************************)
(* The configuration of the upstream program: what the main window holds   *)
(* (Mainwin::_config), the copy that the configuration window works on     *)
(* (Confwin::_config), what that window displays, what a file holds        *)
(* (ABconfig::load()), and what the audio runs (ABprocess::set_*()).  All  *)
(* of it belongs to the GUI thread, and one action is one event; how a     *)
(* configuration is handed to the running audio is in JackSync.  The       *)
(* status line, the Save button and the directories are left out.          *)
(*                                                                         *)
(* A configuration enables some of the sections, and gives each of them    *)
(* its parameters (the default of CONV is no file name); numbers out of    *)
(* range are BAD.  flags and mflags are the members _update of the two     *)
(* configurations.  The windows ignore what the operator cannot reach: a   *)
(* window that is closed has no events.                                    *)
(***************************************************************************)
EXTENDS Integers, Sequences

CONSTANTS
  Section,  \* the sections, of LFEQ, MATR, CONV, PMEQ
  Value,    \* the parameters that each of them accepts
  BAD,      \* parameters that are not accepted
  NULL      \* no configuration

ASSUME ConfwinAssumption ==
  /\ Section \subseteq {"LFEQ", "MATR", "CONV", "PMEQ"}
  /\ \A s \in Section : "default" \in Value[s] /\ BAD \notin Value[s]

VARIABLES
  main, mflags,  \* Mainwin's configuration, and its _update
  edit, flags,   \* Confwin's, or NULL while the window is closed
  disp,          \* what is displayed
  appl,          \* the state of the Apply button: 0 dark, 2 lit, 3 red
  dialog,        \* the question that the open file window answers
  audio,         \* what runs of each section
  crashed,       \* has a configuration that is gone been used?
  lost, mlost    \* for the properties: has a load that failed dropped flags
                 \* and configuration, of the window and of what it applied?

vars == <<main, mflags, edit, flags, disp, appl, dialog, audio, crashed,
          lost, mlost>>

\* What may be typed in: any file name, and numbers that are out of range.
Parameters == [s \in Section |-> IF s = "CONV" THEN Value[s] ELSE Value[s] \cup {BAD}]

Config == [en : SUBSET Section,
           val : {v \in [Section -> UNION {Parameters[s] : s \in Section}] :
                    \A s \in Section : v[s] \in Parameters[s]}]

\* ABconfig::reset()
Default == [en |-> {"MATR"} \cap Section, val |-> [s \in Section |-> "default"]]

\* What a section amounts to, displayed or applied.
Effect(C, s) == IF s \in C.en THEN C.val[s] ELSE "off"
-----------------------------------------------------------------------------
\* ABconfig::load(): defaults, then the packets of a file in its order.  Of a
\* file that ends, or is wrong, early, only the first packets count.

Order == SelectSeq(<<"enable", "LFEQ", "MATR", "CONV", "PMEQ">>,
                   LAMBDA p : p \in Section \cup {"enable"})

\* The first n packets of what save() wrote of C.
Loaded(C, n) ==
  LET Read == {Order[i] : i \in 1 .. n}
  IN  [en  |-> IF "enable" \in Read THEN C.en ELSE Default.en,
       val |-> [s \in Section |-> IF s \in Read THEN C.val[s] ELSE Default.val[s]]]

File == {Loaded(C, n) : C \in Config, n \in 0 .. Len(Order)}
-----------------------------------------------------------------------------
\* Mainwin::applconf(): the sections that are flagged are set, and the file of
\* the convolution may fail to open.  A missing name always does.

Opens(C) == IF C.val["CONV"] = "default" THEN {FALSE} ELSE BOOLEAN

\* Mutant of Set: a section that is disabled is left running.
SetEnabled(C, upd, opened) ==
  [s \in Section |->
     IF s \notin upd \cap C.en THEN audio[s]
     ELSE IF s = "CONV" /\ ~opened THEN "error" ELSE C.val[s]]

Set(C, upd, opened) ==
  [s \in Section |->
     IF s \notin upd THEN audio[s]
     ELSE IF s = "CONV" /\ s \in C.en /\ ~opened THEN "error"
     ELSE Effect(C, s)]

Fails(C, upd, opened) == "CONV" \in upd \cap C.en /\ ~opened

\* loadconf() at the start: everything is applied, whatever load() returned.
Init ==
  \E C \in File : \E opened \in IF "CONV" \in Section THEN Opens(C) ELSE {TRUE} :
    /\ main = C
    /\ mflags = Section
    /\ audio = [s \in Section |-> IF s = "CONV" /\ s \in C.en /\ ~opened
                                  THEN "error" ELSE Effect(C, s)]
    /\ appl = IF Fails(C, Section, opened) THEN 3 ELSE 0
    /\ edit = NULL
    /\ flags = {}
    /\ disp = Default
    /\ dialog = "none"
    /\ crashed = FALSE
    /\ lost = FALSE
    /\ mlost = FALSE

Window == ~crashed /\ edit # NULL

\* Confwin::disp2conf(): the configuration is overwritten, section by section,
\* also when it returns an error.  Parameters out of range are stored, those
\* that are no numbers leave the old ones.
Stored(C) ==
  \E keep \in SUBSET {s \in Section : disp.val[s] = BAD} :
    C = [en |-> disp.en,
         val |-> [s \in Section |-> IF s \in keep THEN edit.val[s] ELSE disp.val[s]]]

\* Mutant of Refused: a missing file name is accepted.
RefusedNumber == \E s \in Section : disp.val[s] = BAD

Refused ==
  \/ \E s \in Section : disp.val[s] = BAD
  \/ "CONV" \in disp.en /\ disp.val["CONV"] = "default"

\* Mainwin: B_CONF, and CB_CONF_CANC.  The copy has main's flags.
Copy ==
  /\ edit' = main
  /\ flags' = mflags
  /\ lost' = mlost
  /\ disp' = main
  /\ UNCHANGED <<main, mflags, dialog, audio, crashed, mlost>>

Open == ~crashed /\ Copy /\ UNCHANGED appl

\* Mutant of Cancel: the window is not opened anew.
CancelHidden ==
  /\ Window
  /\ edit' = main
  /\ flags' = mflags
  /\ lost' = mlost
  /\ appl' = 0
  /\ UNCHANGED <<main, mflags, disp, dialog, audio, crashed, mlost>>

Cancel == Window /\ Copy /\ appl' = 0

Close ==
  /\ Window
  /\ edit' = NULL
  /\ flags' = {}
  /\ lost' = FALSE
  /\ UNCHANGED <<main, mflags, disp, appl, dialog, audio, crashed, mlost>>

\* The buttons of the sections; MATR and CONV exclude each other.
Pressed(s) ==
  LET other == IF s = "MATR" THEN {"CONV"} ELSE IF s = "CONV" THEN {"MATR"} ELSE {}
  IN  IF s \in disp.en THEN disp.en \ ({s} \cup other) ELSE (disp.en \cup {s}) \ other

\* Mutant of Touched: the other section is forgotten.
TouchedOne(s) == {s}

Touched(s) == IF s \in {"MATR", "CONV"} THEN {"MATR", "CONV"} \cap Section ELSE {s}

Toggle(s) ==
  /\ Window
  /\ disp' = [disp EXCEPT !.en = Pressed(s)]
  /\ flags' = flags \cup Touched(s)
  /\ appl' = 2
  /\ UNCHANGED <<main, mflags, edit, dialog, audio, crashed, lost, mlost>>

\* Mutant of Modify: the button stays as it is.
ModifyDark(s, v) ==
  /\ Window
  /\ disp' = [disp EXCEPT !.val[s] = v]
  /\ flags' = flags \cup {s}
  /\ UNCHANGED <<main, mflags, edit, appl, dialog, audio, crashed, lost, mlost>>

\* A parameter is typed in.
Modify(s, v) ==
  /\ Window
  /\ disp' = [disp EXCEPT !.val[s] = v]
  /\ flags' = flags \cup {s}
  /\ appl' = 2
  /\ UNCHANGED <<main, mflags, edit, dialog, audio, crashed, lost, mlost>>

New ==
  /\ Window
  /\ edit' = Default
  /\ disp' = Default
  /\ flags' = Section
  /\ lost' = FALSE
  /\ appl' = 2
  /\ UNCHANGED <<main, mflags, dialog, audio, crashed, mlost>>

\* Mutant of Kept: what failed is not tried again.
KeptNot(upd) == {}

\* Which flags main keeps of those that are applied: nothing clears them.
Kept(upd) == upd

\* B_APPL, CB_CONF_APPL, applconf(), applyrep().
Apply ==
  /\ Window
  /\ flags # {}
  /\ Stored(edit')
  /\ \/ /\ Refused
        /\ UNCHANGED <<main, mflags, flags, disp, appl, audio, mlost>>
     \/ /\ ~Refused
        /\ main' = edit'
        /\ mflags' = Kept(flags)
        /\ mlost' = lost
        /\ \E opened \in BOOLEAN :
             /\ audio' = Set(edit', flags, opened)
             /\ IF Fails(edit', flags, opened)
                THEN /\ appl' = 3
                     /\ UNCHANGED <<flags, disp>>
                ELSE /\ appl' = 0
                     /\ disp' = edit'
                     /\ flags' = {}
  /\ UNCHANGED <<dialog, crashed, lost>>

LoadDialog ==
  /\ Window
  /\ dialog' = "load"
  /\ UNCHANGED <<main, mflags, edit, flags, disp, appl, audio, crashed, lost, mlost>>

SaveDialog ==
  /\ Window
  /\ Stored(edit')
  /\ dialog' = IF Refused THEN dialog ELSE "save"
  /\ UNCHANGED <<main, mflags, flags, disp, appl, audio, crashed, lost, mlost>>

\* Filewin::hide(CB_FILE_CANC)
Dismiss ==
  /\ ~crashed /\ dialog # "none"
  /\ dialog' = "none"
  /\ UNCHANGED <<main, mflags, edit, flags, disp, appl, audio, crashed, lost, mlost>>

\* The file window does not know that the configuration window is closed: what
\* it answers then writes to, or reads, a configuration that is gone, unless
\* the file cannot be opened.
Orphan ==
  /\ ~crashed /\ dialog # "none" /\ edit = NULL
  /\ dialog' = "none"
  /\ crashed' \in BOOLEAN
  /\ UNCHANGED <<main, mflags, edit, flags, disp, appl, audio, lost, mlost>>

\* CB_FILE_LOAD: the file is loaded; or it cannot be opened; or it is not
\* valid, and the configuration is reset, and loaded up to there.
AnswerLoad ==
  /\ Window /\ dialog = "load"
  /\ dialog' = "none"
  /\ \/ \E C \in Config : \E n \in 0 .. Len(Order) :
          /\ edit' = Loaded(C, n)
          /\ disp' = edit'
          /\ flags' = Section
          /\ lost' = FALSE
          /\ appl' = 2
     \/ UNCHANGED <<edit, flags, disp, appl, lost>>
     \/ /\ edit' \in File
        /\ flags' = {}
        /\ lost' = TRUE
        /\ UNCHANGED <<disp, appl>>
  /\ UNCHANGED <<main, mflags, audio, crashed, mlost>>

\* CB_FILE_SAVE: saved or not, nothing of this state changes.
AnswerSave ==
  /\ Window /\ dialog = "save"
  /\ dialog' = "none"
  /\ UNCHANGED <<main, mflags, edit, flags, disp, appl, audio, crashed, lost, mlost>>

Next ==
  \/ Open \/ Cancel \/ Close \/ New \/ Apply
  \/ \E s \in Section : Toggle(s) \/ \E v \in Parameters[s] : Modify(s, v)
  \/ LoadDialog \/ SaveDialog \/ Dismiss \/ Orphan \/ AnswerLoad \/ AnswerSave

Spec == Init /\ [][Next]_vars
-----------------------------------------------------------------------------
TypeOK ==
  /\ main \in Config
  /\ mflags \subseteq Section
  /\ edit \in Config \cup {NULL}
  /\ flags \subseteq Section
  /\ disp \in Config
  /\ appl \in {0, 2, 3}
  /\ dialog \in {"none", "load", "save"}
  /\ \A s \in Section : audio[s] \in Parameters[s] \cup {"off", "error"}

\* A section that is displayed otherwise than it runs is flagged, so that Apply
\* will set it; after a load that failed this no longer holds.
PendingFlagged ==
  Window /\ ~lost =>
    \A s \in Section : audio[s] # Effect(disp, s) => s \in flags

\* The same of the configuration of the main window, which Cancel and a window
\* opened later go back to: what has failed will be tried again.
MainFlagged ==
  ~mlost => \A s \in Section : audio[s] # Effect(main, s) => s \in mflags

\* While the Apply button is dark, the window shows what was applied last.
DarkIsMain == Window /\ appl = 0 => disp = main

\* Nothing that is displayed as an error is ever applied: but for the file that
\* was loaded at the start, main never has parameters out of range.
MainAccepted ==
  [][main' # main =>
      /\ \A s \in Section : main'.val[s] # BAD
      /\ "CONV" \in main'.en => main'.val["CONV"] # "default"]_vars
=============================================================================
