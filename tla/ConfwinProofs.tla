---------------------------- MODULE ConfwinProofs ----------------------------
(***************************************************************************)
(* Theorems about Confwin, for any of the four sections and any parameters *)
(* of theirs.  The invariants that TLC checks are inductive together.      *)
(***************************************************************************)
EXTENDS Confwin, TLAPS

Inv == TypeOK /\ PendingFlagged /\ MainFlagged /\ DarkIsMain

Entry == UNION {Parameters[s] : s \in Section}

LEMMA IsConfig ==
  ASSUME NEW en \in SUBSET Section,
         NEW v \in [Section -> Entry], \A s \in Section : v[s] \in Parameters[s]
  PROVE  [en |-> en, val |-> v] \in Config
BY DEF Config, Entry

LEMMA ConfigParts ==
  ASSUME NEW C \in Config
  PROVE  /\ C = [en |-> C.en, val |-> C.val]
         /\ C.en \in SUBSET Section
         /\ C.val \in [Section -> Entry]
         /\ \A s \in Section : C.val[s] \in Parameters[s]
BY DEF Config, Entry

LEMMA DefaultAccepted == \A s \in Section : "default" \in Parameters[s]
BY ConfwinAssumption DEF Parameters

LEMMA DefaultConfig == Default \in Config
<1> DEFINE v == [s \in Section |-> "default"]
<1>1. v \in [Section -> Entry]
  BY DefaultAccepted DEF Entry
<1>2. [en |-> {"MATR"} \cap Section, val |-> v] \in Config
  BY <1>1, IsConfig, DefaultAccepted
<1> QED
  BY <1>2 DEF Default

\* Whatever part of a file is read, the result is a configuration.
LEMMA LoadedConfig ==
  ASSUME NEW C \in Config, NEW n \in 0 .. Len(Order)
  PROVE  Loaded(C, n) \in Config
<1> DEFINE L == Loaded(C, n)
<1>1. L.en \in SUBSET Section
  BY ConfigParts, DefaultConfig DEF Loaded
<1>2. \A s \in Section : L.val[s] \in Parameters[s]
  BY ConfigParts, DefaultConfig DEF Loaded
<1>3. L.val \in [Section -> Entry]
  BY ConfigParts, DefaultConfig DEF Loaded
<1>4. L = [en |-> L.en, val |-> L.val]
  BY DEF Loaded
<1>5. ASSUME NEW D, D = [en |-> D.en, val |-> D.val], D.en \in SUBSET Section,
             D.val \in [Section -> Entry], \A s \in Section : D.val[s] \in Parameters[s]
      PROVE  D \in Config
  BY <1>5, IsConfig
<1> HIDE DEF L
<1>6. L \in Config
  BY <1>1, <1>2, <1>3, <1>4, <1>5
<1> QED
  BY <1>6 DEF L

LEMMA FileConfig == File \subseteq Config
BY LoadedConfig DEF File

\* What disp2conf() stores is a configuration, and if nothing is refused it is what
\* is displayed.
LEMMA StoredConfig ==
  ASSUME TypeOK, Window, NEW C, Stored(C)
  PROVE  C \in Config /\ (~Refused => C = disp)
<1>1. edit \in Config /\ disp \in Config
  BY DEF TypeOK, Window
<1>2. PICK keep \in SUBSET {s \in Section : disp.val[s] = BAD} :
        C = [en |-> disp.en,
             val |-> [s \in Section |-> IF s \in keep THEN edit.val[s] ELSE disp.val[s]]]
  BY DEF Stored
<1> DEFINE v == [s \in Section |-> IF s \in keep THEN edit.val[s] ELSE disp.val[s]]
<1>3. \A s \in Section : v[s] \in Parameters[s]
  BY <1>1, ConfigParts
<1>4. v \in [Section -> Entry]
  BY <1>3 DEF Entry
<1>5. disp.en \in SUBSET Section
  BY <1>1, ConfigParts
<1>6. C \in Config
  BY <1>2, <1>3, <1>4, <1>5, IsConfig
<1>7. ASSUME ~Refused PROVE C = disp
  <2>1. keep = {}
    BY <1>7 DEF Refused
  <2>2. v = disp.val
    BY <2>1, <1>1, ConfigParts
  <2> QED
    BY <2>2, <1>1, <1>2, ConfigParts
<1> QED
  BY <1>6, <1>7

LEMMA InvInit == ASSUME Init PROVE Inv
<1>1. main \in Config /\ disp \in Config
  BY FileConfig, DefaultConfig DEF Init
<1>2. \A s \in Section : audio[s] \in Parameters[s] \cup {"off", "error"}
  <2>1. \A s \in Section : audio[s] \in {"error", Effect(main, s)}
    BY DEF Init
  <2>2. \A s \in Section : Effect(main, s) \in Parameters[s] \cup {"off"}
    BY <1>1, ConfigParts DEF Effect
  <2> QED
    BY <2>1, <2>2
<1>3. TypeOK
  BY <1>1, <1>2 DEF Init, TypeOK, Fails
<1> QED
  BY <1>3 DEF Init, Inv, PendingFlagged, MainFlagged, DarkIsMain, Window

-----------------------------------------------------------------------------
\* One lemma for each kind of event.

\* The copy takes over from the main window what is said of it.
LEMMA CopyStep == ASSUME Inv, Copy, appl' \in {appl, 0} PROVE Inv'
BY DEF Inv, TypeOK, PendingFlagged, MainFlagged, DarkIsMain, Window, Copy, Effect

LEMMA CloseStep == ASSUME Inv, Close PROVE Inv'
BY DEF Inv, TypeOK, PendingFlagged, MainFlagged, DarkIsMain, Window, Close, Effect

\* A button changes the display in the sections that it flags, and no others.
LEMMA ToggleStep == ASSUME Inv, NEW s \in Section, Toggle(s) PROVE Inv'
<1>1. disp \in Config /\ Window /\ Section \subseteq {"LFEQ", "MATR", "CONV", "PMEQ"}
  BY ConfwinAssumption DEF Inv, TypeOK, Toggle
<1>2. Pressed(s) \in SUBSET Section /\ Touched(s) \subseteq Section
  BY <1>1, ConfigParts DEF Pressed, Touched
<1>3. \A q \in Section : q \notin Touched(s) => (q \in Pressed(s) <=> q \in disp.en)
  BY DEF Pressed, Touched
<1>4. disp' = [en |-> Pressed(s), val |-> disp.val]
  BY <1>1, ConfigParts DEF Toggle
<1>5. disp' \in Config
  BY <1>1, <1>2, <1>4, ConfigParts, IsConfig
<1>6. \A q \in Section : q \notin Touched(s) => Effect(disp', q) = Effect(disp, q)
  BY <1>3, <1>4 DEF Effect
<1>7. TypeOK'
  BY <1>2, <1>5 DEF Inv, TypeOK, Toggle
<1>8. PendingFlagged'
  BY <1>1, <1>6 DEF Inv, PendingFlagged, Toggle, Window
<1>9. MainFlagged' /\ DarkIsMain'
  BY DEF Inv, MainFlagged, DarkIsMain, Toggle, Effect
<1> QED
  BY <1>7, <1>8, <1>9 DEF Inv

LEMMA ModifyStep ==
  ASSUME Inv, NEW s \in Section, NEW v \in Parameters[s], Modify(s, v) PROVE Inv'
<1> DEFINE w == [disp.val EXCEPT ![s] = v]
<1>1. disp \in Config /\ Window
  BY DEF Inv, TypeOK, Modify
<1>2. disp' = [en |-> disp.en, val |-> w]
  BY <1>1, ConfigParts DEF Modify
<1>3. \A q \in Section : w[q] \in Parameters[q]
  BY <1>1, ConfigParts
<1>4. w \in [Section -> Entry]
  BY <1>1, <1>3, ConfigParts DEF Entry
<1>5. disp' \in Config
  BY <1>1, <1>2, <1>3, <1>4, ConfigParts, IsConfig
<1>6. \A q \in Section : q # s => Effect(disp', q) = Effect(disp, q)
  BY <1>1, <1>2, ConfigParts DEF Effect
<1>7. TypeOK'
  BY <1>5 DEF Inv, TypeOK, Modify
<1>8. PendingFlagged'
  BY <1>1, <1>6 DEF Inv, PendingFlagged, Modify, Window
<1>9. MainFlagged' /\ DarkIsMain'
  BY DEF Inv, MainFlagged, DarkIsMain, Modify, Effect
<1> QED
  BY <1>7, <1>8, <1>9 DEF Inv

LEMMA NewStep == ASSUME Inv, New PROVE Inv'
BY DefaultConfig DEF Inv, TypeOK, PendingFlagged, MainFlagged, DarkIsMain, Window, New, Effect

LEMMA AnswerLoadStep == ASSUME Inv, AnswerLoad PROVE Inv'
<1>1. CASE \E C \in Config : \E n \in 0 .. Len(Order) :
             /\ edit' = Loaded(C, n)
             /\ disp' = edit'
             /\ flags' = Section
             /\ lost' = FALSE
             /\ appl' = 2
  <2>1. edit' \in Config /\ disp' \in Config
    BY <1>1, LoadedConfig
  <2> QED
    BY <1>1, <2>1
       DEF AnswerLoad, Inv, TypeOK, PendingFlagged, MainFlagged, DarkIsMain, Window, Effect
<1>2. CASE UNCHANGED <<edit, flags, disp, appl, lost>>
  BY <1>2 DEF AnswerLoad, Inv, TypeOK, PendingFlagged, MainFlagged, DarkIsMain, Window, Effect
<1>3. CASE edit' \in File /\ flags' = {} /\ lost' = TRUE /\ UNCHANGED <<disp, appl>>
  BY <1>3, FileConfig
     DEF AnswerLoad, Inv, TypeOK, PendingFlagged, MainFlagged, DarkIsMain, Window, Effect
<1> QED
  BY <1>1, <1>2, <1>3 DEF AnswerLoad

\* The file window, but for what it loads.
Other == LoadDialog \/ SaveDialog \/ Dismiss \/ Orphan \/ AnswerSave

LEMMA OtherStep == ASSUME Inv, Other PROVE Inv'
<1>1. /\ UNCHANGED <<main, mflags, flags, disp, appl, audio, lost, mlost>>
      /\ Window' => Window
      /\ dialog' \in {"none", "load", "save"}
      /\ edit' \in Config \cup {NULL}
  <2>1. CASE SaveDialog
    BY <2>1, StoredConfig DEF SaveDialog, Inv, TypeOK, Window
  <2>2. CASE LoadDialog \/ Dismiss \/ Orphan \/ AnswerSave
    BY <2>2 DEF LoadDialog, Dismiss, Orphan, AnswerSave, Inv, TypeOK, Window
  <2> QED
    BY <2>1, <2>2 DEF Other
<1> QED
  BY <1>1 DEF Inv, TypeOK, PendingFlagged, MainFlagged, DarkIsMain, Effect

-----------------------------------------------------------------------------
\* Apply.  It is refused, and what was stored is all that changes; or what is
\* displayed becomes the configuration of the main window and is set.

LEMMA ApplyRefused == ASSUME Inv, Apply, Refused PROVE Inv' /\ UNCHANGED <<main, flags>>
<1>1. edit' \in Config /\ Window /\ UNCHANGED crashed
  BY StoredConfig DEF Apply, Inv
<1> QED
  BY <1>1 DEF Apply, Inv, TypeOK, PendingFlagged, MainFlagged, DarkIsMain, Window, Effect

\* What runs after the sections of flags have been set from what is displayed.
LEMMA SetStep ==
  ASSUME Inv, Window, NEW opened \in BOOLEAN, audio' = Set(disp, flags, opened)
  PROVE  /\ \A s \in Section : audio'[s] \in Parameters[s] \cup {"off", "error"}
         /\ ~lost => \A s \in Section : audio'[s] # Effect(disp, s) => s \in flags
         /\ ~lost /\ ~Fails(disp, flags, opened) =>
              \A s \in Section : audio'[s] = Effect(disp, s)
<1>1. disp \in Config /\ \A s \in Section : audio[s] \in Parameters[s] \cup {"off", "error"}
  BY DEF Inv, TypeOK
<1>2. \A s \in Section : Effect(disp, s) \in Parameters[s] \cup {"off"}
  BY <1>1, ConfigParts DEF Effect
<1>3. \A s \in Section : audio'[s] =
        IF s \notin flags THEN audio[s]
        ELSE IF s = "CONV" /\ s \in disp.en /\ ~opened THEN "error" ELSE Effect(disp, s)
  BY DEF Set
<1>4. ~lost => \A s \in Section : s \notin flags => audio[s] = Effect(disp, s)
  BY DEF Inv, PendingFlagged
<1> QED
  BY <1>1, <1>2, <1>3, <1>4 DEF Fails

LEMMA ApplyAccepted ==
  ASSUME Inv, Apply, ~Refused
  PROVE  Inv' /\ main' = disp
<1>1. Window /\ flags # {} /\ Stored(edit')
  BY DEF Apply
<1>2. edit' = disp /\ disp \in Config
  BY <1>1, StoredConfig DEF Inv
<1>3. main' = disp /\ mflags' = flags /\ mlost' = lost /\ UNCHANGED <<dialog, crashed, lost>>
  BY <1>2 DEF Apply, Kept
<1>4. PICK opened \in BOOLEAN :
        /\ audio' = Set(disp, flags, opened)
        /\ IF Fails(disp, flags, opened) THEN appl' = 3 /\ UNCHANGED <<flags, disp>>
           ELSE appl' = 0 /\ disp' = edit' /\ flags' = {}
  BY <1>2 DEF Apply
<1>5. /\ \A s \in Section : audio'[s] \in Parameters[s] \cup {"off", "error"}
      /\ ~lost => \A s \in Section : audio'[s] # Effect(disp, s) => s \in flags
      /\ ~lost /\ ~Fails(disp, flags, opened) =>
           \A s \in Section : audio'[s] = Effect(disp, s)
  BY <1>1, <1>4, SetStep
<1>6. disp' = disp
  BY <1>2, <1>4
<1>7. TypeOK'
  BY <1>2, <1>3, <1>4, <1>5, <1>6 DEF Inv, TypeOK
<1>8. MainFlagged'
  BY <1>3, <1>5, <1>6 DEF MainFlagged, Effect
<1>9. PendingFlagged'
  BY <1>3, <1>4, <1>5, <1>6 DEF PendingFlagged, Effect
<1>10. DarkIsMain'
  BY <1>3, <1>6 DEF DarkIsMain
<1> QED
  BY <1>3, <1>7, <1>8, <1>9, <1>10 DEF Inv

LEMMA InvStep == ASSUME Inv, [Next]_vars PROVE Inv'
<1>1. CASE Open
  BY <1>1, CopyStep DEF Open
<1>2. CASE Cancel
  BY <1>2, CopyStep DEF Cancel
<1>3. CASE Close
  BY <1>3, CloseStep
<1>4. CASE New
  BY <1>4, NewStep
<1>5. CASE Apply
  BY <1>5, ApplyRefused, ApplyAccepted
<1>6. CASE \E s \in Section : Toggle(s) \/ \E v \in Parameters[s] : Modify(s, v)
  BY <1>6, ToggleStep, ModifyStep
<1>7. CASE Other
  BY <1>7, OtherStep
<1>8. CASE AnswerLoad
  BY <1>8, AnswerLoadStep
<1>9. CASE UNCHANGED vars
  BY <1>9 DEF vars, Inv, TypeOK, PendingFlagged, MainFlagged, DarkIsMain, Window, Effect
<1> QED
  BY <1>1, <1>2, <1>3, <1>4, <1>5, <1>6, <1>7, <1>8, <1>9 DEF Next, Other

-----------------------------------------------------------------------------
\* Each variable has its type: what is edited, displayed, applied and loaded is
\* always a configuration of the sections.
THEOREM ConfwinTypeCorrect == Spec => []TypeOK
<1>1. Inv => TypeOK
  BY DEF Inv
<1> QED
  BY <1>1, InvInit, InvStep, PTL DEF Spec

\* What is displayed otherwise than it runs is flagged for the next Apply, for any
\* sections and parameters; only a load that failed can hide a difference.
THEOREM NothingForgotten == Spec => []PendingFlagged
<1>1. Inv => PendingFlagged
  BY DEF Inv
<1> QED
  BY <1>1, InvInit, InvStep, PTL DEF Spec

\* What is enabled in the main window otherwise than it runs will be tried again,
\* also after an Apply that failed and a Cancel.
THEOREM FailedTriedAgain == Spec => []MainFlagged
<1>1. Inv => MainFlagged
  BY DEF Inv
<1> QED
  BY <1>1, InvInit, InvStep, PTL DEF Spec

\* While Apply is dark the window shows the configuration that was applied last.
THEOREM DarkShowsMain == Spec => []DarkIsMain
<1>1. Inv => DarkIsMain
  BY DEF Inv
<1> QED
  BY <1>1, InvInit, InvStep, PTL DEF Spec

\* No event but an Apply that is not refused changes the main window's
\* configuration, and then all parameters of it are in range.
THEOREM OnlyAcceptedApplied == Spec => MainAccepted
<1> DEFINE Good == main' # main =>
      /\ \A s \in Section : main'.val[s] # BAD
      /\ "CONV" \in main'.en => main'.val["CONV"] # "default"
<1>1. ASSUME Inv, [Next]_vars PROVE [Good]_vars
  <2>1. ASSUME Apply, ~Refused PROVE Good
    BY <1>1, <2>1, ApplyAccepted DEF Refused
  <2>2. ASSUME Apply, Refused PROVE Good
    BY <1>1, <2>2, ApplyRefused
  <2>3. ASSUME ~Apply PROVE main' = main
    BY <1>1, <2>3
       DEF Next, vars, Open, Cancel, Copy, Close, New, Toggle, Modify, LoadDialog, SaveDialog,
           Dismiss, Orphan, AnswerLoad, AnswerSave
  <2> QED
    BY <2>1, <2>2, <2>3
<1> QED
  BY <1>1, InvInit, InvStep, PTL DEF Spec, MainAccepted
=============================================================================
