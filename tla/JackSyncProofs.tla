--------------------------- MODULE JackSyncProofs ---------------------------
(***************************************************************************)
(* Theorems about what the GUI thread and the JACK callback share.         *)
(*                                                                         *)
(* JackSync: why the handshake of syncaudio() and the error flag of        *)
(* set_convol() are enough.  Ramps: why the controls that the callback     *)
(* follows without a lock come nearer to their targets, smoothly.          *)
(***************************************************************************)
EXTENDS JackSync, Ramps, TLAPS

\* An event queue with nothing in it, and with one event.
None == [x \in Event |-> 0]
One(e) == [x \in Event |-> IF x = e THEN 1 ELSE 0]

\* The places of applconf() between the two calls of syncaudio().
Changing == {"lfeq", "lfData", "matr", "matrData", "conv", "convFlag", "convFile",
             "convData", "pmeq", "pmData", "goProc"}

Types ==
  /\ gpc \in GuiPlace
  /\ want \subseteq Flag /\ upd \subseteq Flag
  /\ rpc \in Processing \cup {"off", "gate"}
  /\ state \in {"IDLE", "PROC"}
  /\ q \in Samples /\ w \in Samples
  /\ enable \subseteq Flag /\ ready \subseteq Flag
  /\ cerror \in BOOLEAN
  /\ active \in BOOLEAN /\ dirty \in BOOLEAN

\* An event is on its way in at most one direction, and only while the GUI
\* thread waits; from the answer to EV_GO_IDLE to the receipt of EV_GO_PROC the
\* state is S_IDLE, if this configuration needs it.
Handshake ==
  /\ gpc = "waitIdle" =>
       /\ NeedsIdle
       /\ \/ toJack = One("GO_IDLE") /\ toMain = None
          \/ toJack = None /\ toMain = One("GO_IDLE") /\ state = "IDLE"
  /\ gpc = "waitProc" =>
       /\ NeedsIdle
       /\ \/ toJack = One("GO_PROC") /\ toMain = None /\ state = "IDLE"
          \/ toJack = None /\ toMain = One("GO_PROC") /\ state = "PROC"
  /\ gpc \notin {"waitIdle", "waitProc"} => toJack = None /\ toMain = None
  /\ gpc \in Changing => state = IF NeedsIdle THEN "IDLE" ELSE "PROC"
  /\ gpc = "goIdle" /\ ~NeedsIdle => state = "PROC"
  /\ gpc \in {"report", "idle", "delete", "end"} => state = "PROC"

\* Where process() is not running, or runs without an error flag.
Calm ==
  /\ state = "IDLE" => rpc \in {"off", "gate"}
  /\ gpc \in {"delete", "end"} => rpc = "off" /\ ~active
  /\ rpc \in Processing => ~cerror

\* What the GUI thread is setting, _update asked for; any other stage that is
\* enabled has its data, except a convolver whose file failed.
Complete ==
  /\ gpc = "lfData" => "LFEQ" \in upd
  /\ gpc = "matrData" => "MATR" \in upd
  /\ gpc \in {"convFlag", "convFile", "convData"} => "CONV" \in upd
  /\ gpc = "pmData" => "PMEQ" \in upd
  /\ gpc = "convData" => cerror
  /\ gpc # "end" =>
       /\ "LFEQ" \in enable => gpc = "lfData" \/ "LFEQ" \in ready
       /\ "MATR" \in enable => gpc = "matrData" \/ "MATR" \in ready
       /\ "PMEQ" \in enable => gpc = "pmData" \/ "PMEQ" \in ready
       /\ "CONV" \in enable =>
            cerror \/ gpc \in {"convFlag", "convFile", "convData"} \/ "CONV" \in ready

\* The branches of process() that depend on EN_CONV agree with it throughout,
\* those that depend on an equaliser unless that has been set in between.
Branch ==
  /\ rpc \in {"lfToConv", "in", "copyIn", "run", "out", "copyOut", "pmFromConv"} =>
       "CONV" \in enable
  /\ rpc \in {"lfInPlace", "matr", "mult", "pmInPlace"} => "CONV" \notin enable
  /\ rpc = "mult" => "MATR" \in enable
  /\ rpc \in {"lfDest", "lfToConv", "lfInPlace"} /\ ~dirty => "LFEQ" \in enable
  /\ rpc = "copyIn" /\ ~dirty => "LFEQ" \notin enable
  /\ rpc = "copyOut" /\ ~dirty => "PMEQ" \notin enable
  /\ rpc \in {"pmSource", "pmFromConv", "pmInPlace"} /\ ~dirty => "PMEQ" \in enable

\* A block counts as undisturbed only if no equaliser is being set.
Marked ==
  rpc \in Processing \cup {"gate"} /\ ~dirty => gpc \notin {"lfData", "pmData"} \/ ~EqOnly

Before(stages) == enable \cap stages

\* What an undisturbed block has passed at each place of process().
Passed ==
  /\ rpc \in {"off", "gate", "lf", "lfDest", "lfToConv", "lfInPlace"} =>
       q = {} /\ w = {"OLD"}
  /\ ~dirty =>
       /\ rpc \in {"conv", "in"} => IF {"LFEQ", "CONV"} \subseteq enable
                                    THEN w = {"LFEQ"} ELSE q = Before({"LFEQ"})
       /\ rpc = "copyIn" => q = {}
       /\ rpc = "run" => w = Before({"LFEQ"})
       /\ rpc \in {"out", "copyOut", "pmFromConv"} => w = Before({"LFEQ", "CONV"})
       /\ rpc \in {"matr", "mult"} => q = Before({"LFEQ"})
       /\ rpc = "pmInPlace" => q = Before({"LFEQ", "MATR"})
       /\ rpc \in {"pm", "pmSource"} =>
            IF "CONV" \in enable
            THEN /\ w = Before({"LFEQ", "CONV"})
                 /\ "PMEQ" \notin enable => q = w
            ELSE q = Before({"LFEQ", "MATR"})
       /\ rpc = "done" => q = Chain(enable)

IInv == Types /\ Handshake /\ Calm /\ Complete /\ Branch /\ Marked /\ Passed
-----------------------------------------------------------------------------
\* What a step of the GUI thread may change, and what it may not.
Gui == Apply \/ Configure \/ Deactivate \/ Delete

LEMMA EqualisersOnly == ASSUME Types PROVE EqOnly <=> ~NeedsIdle
BY DEF Types, EqOnly, NeedsIdle, Flag

\* While the GUI thread changes the matrix or the convolution, process() is not
\* running.
LEMMA NotRunning ==
  ASSUME IInv, gpc \in Changing, NeedsIdle PROVE rpc \notin Processing
BY DEF IInv, Handshake, Calm, Processing, Convolving

\* An update that is being applied.
LEMMA Updated ==
  ASSUME IInv
  PROVE  /\ "MATR" \in upd => NeedsIdle
         /\ "CONV" \in upd => NeedsIdle
         /\ gpc \in {"matrData", "convFlag", "convFile", "convData"} => NeedsIdle
BY DEF IInv, Complete, NeedsIdle

\* A step of the GUI thread finds the callback outside process(), or it changes
\* no more than an equaliser, which marks the block.
LEMMA GuiLeaves ==
  ASSUME IInv, Gui
  PROVE  /\ UNCHANGED <<rpc, state, q, w>>
         /\ dirty => dirty'
         /\ rpc \in Processing =>
              /\ cerror' = cerror
              /\ "CONV" \in enable' <=> "CONV" \in enable
              /\ "MATR" \in enable' <=> "MATR" \in enable
              /\ dirty' \/ enable' = enable
<1>1. IInv /\ Types /\ (EqOnly <=> ~NeedsIdle)
  BY EqualisersOnly DEF IInv
<1> DEFINE Goal == /\ UNCHANGED <<rpc, state, q, w>>
                   /\ dirty => dirty'
                   /\ rpc \in Processing =>
                        /\ cerror' = cerror
                        /\ "CONV" \in enable' <=> "CONV" \in enable
                        /\ "MATR" \in enable' <=> "MATR" \in enable
                        /\ dirty' \/ enable' = enable
<1>2. ASSUME UNCHANGED <<rpc, state, q, w, cerror, enable, dirty>> PROVE Goal
  BY <1>2
<1>3. ASSUME gpc \in Changing, NeedsIdle, UNCHANGED <<rpc, state, q, w, dirty>> PROVE Goal
  BY <1>1, <1>3, NotRunning
<1>4. ASSUME NEW x \in {"LFEQ", "MATR", "PMEQ"}, NEW from \in Changing, NEW write, NEW next,
             SetFlag(x, from, write, next)
      PROVE  Goal
  <2>1. CASE x \notin upd
    BY <1>2, <1>4, <2>1 DEF SetFlag, jack, events
  <2>2. CASE x \in upd /\ NeedsIdle
    BY <1>1, <1>4, <2>2, NotRunning DEF SetFlag, jack
  <2>3. CASE x \in upd /\ ~NeedsIdle
    <3>1. x # "MATR" /\ x # "CONV"
      BY <1>4, <2>3 DEF NeedsIdle
    <3> QED
      BY <1>1, <1>4, <2>3, <3>1 DEF SetFlag, jack
  <2> QED
    BY <2>1, <2>2, <2>3
<1>5. ASSUME NEW x, NEW write, NEW next, SetData(x, write, next) PROVE Goal
  BY <1>5 DEF SetData, jack
<1>6. CASE DropConvol
  BY <1>2, <1>6 DEF DropConvol, jack
<1>7. CASE ConvolFlag \/ ConvolFile \/ ConvolData
  <2>1. gpc \in Changing /\ NeedsIdle
    BY <1>1, <1>7, Updated DEF ConvolFlag, ConvolFile, ConvolData, Changing
  <2> QED
    BY <1>3, <1>7, <2>1 DEF ConvolFlag, ConvolFile, ConvolData, jack
<1>8. CASE Apply \/ Report \/ Deactivate \/ Delete
  BY <1>2, <1>8 DEF Apply, Report, Deactivate, Delete, jack, abproc
<1>9. ASSUME NEW e, NEW from, NEW to, NEW skip, Send(e, from, to, skip) \/ Await(e, from, to)
      PROVE  Goal
  BY <1>2, <1>9 DEF Send, Await, jack, abproc
<1> QED
  BY <1>4, <1>5, <1>6, <1>7, <1>8, <1>9 DEF Gui, Configure, Changing

LEMMA GuiTypes == ASSUME IInv, Gui PROVE Types'
<1>1. Types
  BY DEF IInv
<1>2. ASSUME NEW e, NEW from, NEW to \in GuiPlace, NEW skip \in GuiPlace,
             Send(e, from, to, skip) \/ Await(e, from, to)
      PROVE  Types'
  BY <1>1, <1>2 DEF Send, Await, jack, abproc, Types
<1>3. ASSUME NEW x \in Flag, NEW from, NEW write \in GuiPlace, NEW next \in GuiPlace,
             SetFlag(x, from, write, next) \/ SetData(x, write, next)
      PROVE  Types'
  <2>1. (EqOnly \/ dirty) \in BOOLEAN /\ (dirty \/ EqOnly) \in BOOLEAN
    OBVIOUS
  <2>2. /\ gpc' \in GuiPlace /\ enable' \subseteq Flag /\ ready' \subseteq Flag
        /\ UNCHANGED <<want, upd, rpc, state, q, w, cerror, active>>
    BY <1>1, <1>3 DEF SetFlag, SetData, jack, Types
  <2>3. dirty' \in BOOLEAN
    BY <1>1, <1>3, <2>1 DEF SetFlag, SetData, Types
  <2> QED
    BY <1>1, <2>2, <2>3 DEF Types
<1>4. CASE DropConvol \/ ConvolFlag \/ ConvolFile \/ ConvolData
  BY <1>1, <1>4 DEF DropConvol, ConvolFlag, ConvolFile, ConvolData, jack, Types, GuiPlace, Flag
<1>5. CASE Apply \/ Report \/ Deactivate \/ Delete
  BY <1>1, <1>5 DEF Apply, Report, Deactivate, Delete, jack, abproc, Types, GuiPlace
<1> QED
  BY <1>2, <1>3, <1>4, <1>5 DEF Gui, Configure, GuiPlace, Flag

\* Sending an event, and taking the answer.
LEMMA EventSent == ASSUME NEW e \in Event PROVE [None EXCEPT ![e] = @ + 1] = One(e)
BY DEF None, One

LEMMA EventTaken == ASSUME NEW e \in Event PROVE [One(e) EXCEPT ![e] = @ - 1] = None
<1> DEFINE taken == [One(e) EXCEPT ![e] = @ - 1]
<1>1. taken = [x \in Event |-> IF x = e THEN One(e)[e] - 1 ELSE One(e)[x]]
  BY DEF One
<1>2. \A x \in Event : (IF x = e THEN One(e)[e] - 1 ELSE One(e)[x]) = 0
  BY DEF One
<1> QED
  BY <1>1, <1>2 DEF None

LEMMA EventThere ==
  ASSUME NEW e \in Event, NEW d \in Event
  PROVE  /\ One(e)[d] > 0 <=> d = e
         /\ None[d] = 0 /\ ~(None[d] > 0)
         /\ One(e) # None
<1>1. One(e)[d] = (IF d = e THEN 1 ELSE 0) /\ None[d] = 0 /\ One(e)[e] = 1 /\ None[e] = 0
  BY DEF None, One
<1> QED
  BY <1>1

LEMMA GuiHandshake == ASSUME IInv, Gui PROVE Handshake'
<1>1. Types /\ Handshake /\ "GO_IDLE" \in Event /\ "GO_PROC" \in Event /\ state' = state
  BY GuiLeaves DEF IInv, Event
<1>2. ASSUME gpc \notin {"waitIdle", "waitProc"}, gpc' \notin {"waitIdle", "waitProc"},
             UNCHANGED <<upd, toJack, toMain>>,
             gpc' \in Changing => gpc \in Changing,
             gpc' = "goIdle" => gpc = "goIdle",
             gpc' \in {"report", "idle", "delete", "end"} =>
               gpc \in {"report", "idle", "delete", "end"}
      PROVE  Handshake'
  BY <1>1, <1>2 DEF Handshake, NeedsIdle
<1>3. CASE Send("GO_IDLE", "goIdle", "waitIdle", "lfeq")
  <2>1. toJack = None /\ toMain = None /\ gpc = "goIdle" /\ (~NeedsIdle => state = "PROC")
    BY <1>1, <1>3 DEF Handshake, Send
  <2>2. UNCHANGED <<upd, toMain>> /\ NeedsIdle' = NeedsIdle
    BY <1>3 DEF Send, NeedsIdle
  <2>3. CASE NeedsIdle
    BY <1>1, <1>3, <2>1, <2>2, <2>3, EventSent DEF Handshake, Send, Changing
  <2>4. CASE ~NeedsIdle
    BY <1>1, <1>3, <2>1, <2>2, <2>4 DEF Handshake, Send, Changing
  <2> QED
    BY <2>3, <2>4
<1>4. CASE Await("GO_IDLE", "waitIdle", "lfeq")
  <2>1. NeedsIdle /\ toJack = None /\ toMain = One("GO_IDLE") /\ state = "IDLE"
    BY <1>1, <1>4, EventThere DEF Handshake, Await
  <2>2. gpc' = "lfeq" /\ UNCHANGED <<upd, toJack>> /\ NeedsIdle' = NeedsIdle /\ toMain' = None
    BY <1>1, <1>4, <2>1, EventTaken DEF Await, NeedsIdle
  <2> QED
    BY <1>1, <2>1, <2>2 DEF Handshake, Changing
<1>5. CASE Send("GO_PROC", "goProc", "waitProc", "report")
  <2>1. /\ toJack = None /\ toMain = None /\ gpc = "goProc"
        /\ state = IF NeedsIdle THEN "IDLE" ELSE "PROC"
    BY <1>1, <1>5 DEF Handshake, Send, Changing
  <2>2. UNCHANGED <<upd, toMain>> /\ NeedsIdle' = NeedsIdle
    BY <1>5 DEF Send, NeedsIdle
  <2>3. CASE NeedsIdle
    BY <1>1, <1>5, <2>1, <2>2, <2>3, EventSent DEF Handshake, Send, Changing
  <2>4. CASE ~NeedsIdle
    BY <1>1, <1>5, <2>1, <2>2, <2>4 DEF Handshake, Send, Changing
  <2> QED
    BY <2>3, <2>4
<1>6. CASE Await("GO_PROC", "waitProc", "report")
  <2>1. NeedsIdle /\ toJack = None /\ toMain = One("GO_PROC") /\ state = "PROC"
    BY <1>1, <1>6, EventThere DEF Handshake, Await
  <2>2. gpc' = "report" /\ UNCHANGED <<upd, toJack>> /\ NeedsIdle' = NeedsIdle /\ toMain' = None
    BY <1>1, <1>6, <2>1, EventTaken DEF Await, NeedsIdle
  <2> QED
    BY <1>1, <2>1, <2>2 DEF Handshake, Changing
<1>7. CASE \/ SetFlag("LFEQ", "lfeq", "lfData", "matr") \/ SetData("LFEQ", "lfData", "matr")
           \/ SetFlag("MATR", "matr", "matrData", "conv") \/ SetData("MATR", "matrData", "conv")
           \/ SetFlag("PMEQ", "pmeq", "pmData", "goProc") \/ SetData("PMEQ", "pmData", "goProc")
  BY <1>2, <1>7 DEF SetFlag, SetData, events, Changing
<1>8. CASE DropConvol \/ ConvolFlag \/ ConvolFile \/ ConvolData
  BY <1>2, <1>8 DEF DropConvol, ConvolFlag, ConvolFile, ConvolData, events, Changing
<1>9. CASE Apply \/ Report
  BY <1>1, <1>9 DEF Handshake, Apply, Report, events, Changing
<1>10. CASE Deactivate \/ Delete
  BY <1>2, <1>10 DEF Deactivate, Delete, events, Changing
<1> QED
  BY <1>3, <1>4, <1>5, <1>6, <1>7, <1>8, <1>9, <1>10 DEF Gui, Configure

LEMMA GuiCalm == ASSUME IInv, Gui PROVE Calm'
<1>1. Calm
  BY DEF IInv
<1>2. UNCHANGED <<rpc, state>> /\ (rpc \in Processing => cerror' = cerror)
  BY GuiLeaves
<1>3. gpc' \in {"delete", "end"} => rpc = "off" /\ ~active'
  BY <1>1 DEF Gui, Calm, Apply, Configure, Deactivate, Delete, Send, Await, SetFlag, SetData,
     DropConvol, ConvolFlag, ConvolFile, ConvolData, Report
<1> QED
  BY <1>1, <1>2, <1>3 DEF Calm

LEMMA GuiComplete == ASSUME IInv, Gui PROVE Complete'
<1>1. Types /\ Complete
  BY DEF IInv
<1>2. ASSUME UNCHANGED <<upd, abproc>>,
             gpc \notin {"lfData", "matrData", "convFlag", "convFile", "convData", "pmData", "end"},
             gpc' \notin {"lfData", "matrData", "convFlag", "convFile", "convData", "pmData", "end"}
      PROVE  Complete'
  BY <1>1, <1>2 DEF Complete, abproc
<1>3. CASE \/ Send("GO_IDLE", "goIdle", "waitIdle", "lfeq") \/ Await("GO_IDLE", "waitIdle", "lfeq")
           \/ Send("GO_PROC", "goProc", "waitProc", "report")
           \/ Await("GO_PROC", "waitProc", "report")
  BY <1>2, <1>3 DEF Send, Await
<1>4. CASE SetFlag("LFEQ", "lfeq", "lfData", "matr") \/ SetData("LFEQ", "lfData", "matr")
  BY <1>1, <1>4 DEF SetFlag, SetData, Complete
<1>5. CASE SetFlag("MATR", "matr", "matrData", "conv") \/ SetData("MATR", "matrData", "conv")
  BY <1>1, <1>5 DEF SetFlag, SetData, Complete
<1>6. CASE SetFlag("PMEQ", "pmeq", "pmData", "goProc") \/ SetData("PMEQ", "pmData", "goProc")
  BY <1>1, <1>6 DEF SetFlag, SetData, Complete
<1>7. CASE DropConvol \/ ConvolFlag
  BY <1>1, <1>7 DEF DropConvol, ConvolFlag, Complete
<1>8. CASE ConvolFile \/ ConvolData
  BY <1>1, <1>8 DEF ConvolFile, ConvolData, Complete
<1>9. CASE Apply \/ Report \/ Deactivate
  BY <1>1, <1>9 DEF Apply, Report, Deactivate, abproc, Complete
<1>10. CASE Delete
  BY <1>10 DEF Delete, Complete
<1> QED
  BY <1>3, <1>4, <1>5, <1>6, <1>7, <1>8, <1>9, <1>10 DEF Gui, Configure

\* Setting an equaliser marks the block, before and after.
LEMMA GuiMarked == ASSUME IInv, Gui PROVE Marked'
<1>1. Types /\ Marked /\ (EqOnly <=> ~NeedsIdle)
  BY EqualisersOnly DEF IInv
<1>2. rpc' = rpc /\ (dirty => dirty')
  BY GuiLeaves
<1>3. gpc' \notin {"lfData", "pmData"} => Marked'
  BY DEF Marked
<1>4. ASSUME NEW x, NEW from, NEW write, NEW next, SetFlag(x, from, write, next), x \in upd,
             EqOnly
      PROVE  Marked'
  BY <1>4 DEF SetFlag, Marked
<1>5. ASSUME ~EqOnly, upd' = upd PROVE Marked'
  BY <1>5 DEF EqOnly, Marked
<1>6. gpc' \in {"lfData", "pmData"} =>
        /\ upd' = upd
        /\ \E x, from, write, next : SetFlag(x, from, write, next) /\ x \in upd
  BY DEF Gui, Apply, Configure, Deactivate, Delete, Send, Await, SetFlag, SetData,
     DropConvol, ConvolFlag, ConvolFile, ConvolData, Report
<1> QED
  BY <1>3, <1>4, <1>5, <1>6

LEMMA GuiBlock == ASSUME IInv, Gui PROVE Branch' /\ Passed'
<1>1. Branch /\ Passed /\ Types
  BY DEF IInv
<1>2. UNCHANGED <<rpc, q, w>> /\ (dirty => dirty')
  BY GuiLeaves
<1>3. CASE rpc \notin Processing
  BY <1>1, <1>2, <1>3 DEF Types, Branch, Passed, Processing, Convolving
<1>4. CASE rpc \in Processing
  <2>1. /\ "CONV" \in enable' <=> "CONV" \in enable
        /\ "MATR" \in enable' <=> "MATR" \in enable
        /\ dirty' \/ enable' = enable
    BY <1>4, GuiLeaves
  <2>2. Branch'
    BY <1>1, <1>2, <2>1 DEF Branch
  <2>3. Passed'
    BY <1>1, <1>2, <2>1 DEF Passed, Before, Chain
  <2> QED
    BY <2>2, <2>3
<1> QED
  BY <1>3, <1>4
-----------------------------------------------------------------------------
\* A step of the callback, of the JACK server, or none.
LEMMA StageSamples ==
  ASSUME NEW x \in Flag, NEW samples \in Samples PROVE Through(x, samples) \in Samples
BY DEF Through, Samples

LEMMA RealTimeTypes == ASSUME IInv, RealTime \/ Shutdown \/ UNCHANGED vars PROVE Types'
<1>1. Types
  BY DEF IInv
<1>2. CASE UNCHANGED vars
  BY <1>1, <1>2 DEF vars, gui, jack, abproc, events, Types
<1>3. CASE Shutdown
  BY <1>1, <1>3 DEF Shutdown, gui, jack, abproc, Types
<1>4. CASE Callback
  <2>1. dirty' \in BOOLEAN
    BY <1>4 DEF Callback
  <2>2. /\ rpc' \in Processing \cup {"off", "gate"} /\ state' \in {"IDLE", "PROC"}
        /\ UNCHANGED <<gui, q, w, abproc, active>>
    BY <1>1, <1>4 DEF Callback, Types
  <2> QED
    BY <1>1, <2>1, <2>2 DEF gui, abproc, Types
<1>5. CASE Gate
  BY <1>1, <1>5 DEF Gate, gui, abproc, Types, Processing
<1>6. CASE Finish
  BY <1>1, <1>6 DEF Finish, gui, abproc, Types, Samples
<1>7. ASSUME NEW x, NEW from, NEW yes \in Processing, NEW no \in Processing, Test(x, from, yes, no)
      PROVE  Types'
  BY <1>1, <1>7 DEF Test, gui, abproc, Types
<1>8. ASSUME NEW samples \in Samples, NEW from, NEW to \in Processing,
             Output(from, to, samples) \/ Convolver(from, to, samples)
      PROVE  Types'
  BY <1>1, <1>8 DEF Output, Convolver, gui, abproc, Types
<1>9. CASE Process
  <2>1. q \in Samples /\ w \in Samples
    BY <1>1 DEF Types
  <2>2. \A x \in Flag : Through(x, q) \in Samples /\ Through(x, w) \in Samples
    BY <2>1, StageSamples
  <2> QED
    BY <1>7, <1>8, <1>9, <2>1, <2>2 DEF Process, Flag, Processing, Convolving
<1> QED
  BY <1>2, <1>3, <1>4, <1>5, <1>6, <1>9 DEF RealTime

\* What process() leaves alone.
LEMMA ProcessLeaves ==
  ASSUME Gate \/ Process \/ Finish
  PROVE  UNCHANGED <<gpc, want, upd, state, enable, cerror, ready, toJack, toMain, active, dirty>>
BY DEF Gate, Process, Finish, Test, Output, Convolver, gui, abproc, events

LEMMA RealTimeHandshake ==
  ASSUME IInv, RealTime \/ Shutdown \/ UNCHANGED vars PROVE Handshake'
<1>1. Types /\ Handshake /\ "GO_IDLE" \in Event /\ "GO_PROC" \in Event
  BY DEF IInv, Event
<1>2. ASSUME UNCHANGED <<gpc, upd, state, toJack, toMain>> PROVE Handshake'
  BY <1>1, <1>2 DEF Handshake, NeedsIdle
<1>3. CASE Callback
  <2>1. UNCHANGED <<gpc, upd>> /\ NeedsIdle' = NeedsIdle
    BY <1>3 DEF Callback, gui, NeedsIdle
  <2>2. CASE UNCHANGED <<toJack, toMain, state>>
    BY <1>2, <2>1, <2>2
  <2>3. ASSUME NEW e \in Event, toJack[e] > 0,
               toJack' = [toJack EXCEPT ![e] = @ - 1],
               toMain' = [toMain EXCEPT ![e] = @ + 1],
               state' = IF e = "GO_IDLE" THEN "IDLE" ELSE "PROC"
        PROVE  Handshake'
    <3>1. toJack # None
      BY <2>3, EventThere
    <3>2. CASE gpc = "waitIdle" /\ toJack = One("GO_IDLE") /\ toMain = None
      <4>1. e = "GO_IDLE"
        BY <1>1, <2>3, <3>2, EventThere
      <4>2. toJack' = None /\ toMain' = One("GO_IDLE") /\ state' = "IDLE"
        BY <2>3, <3>2, <4>1, EventSent, EventTaken
      <4> QED
        BY <1>1, <2>1, <3>2, <4>2 DEF Handshake, Changing
    <3>3. CASE gpc = "waitProc" /\ toJack = One("GO_PROC") /\ toMain = None
      <4>1. e = "GO_PROC"
        BY <1>1, <2>3, <3>3, EventThere
      <4>2. toJack' = None /\ toMain' = One("GO_PROC") /\ state' = "PROC"
        BY <2>3, <3>3, <4>1, EventSent, EventTaken
      <4> QED
        BY <1>1, <2>1, <3>3, <4>2 DEF Handshake, Changing
    <3> QED
      BY <1>1, <3>1, <3>2, <3>3 DEF Handshake
  <2> QED
    BY <1>3, <2>2, <2>3 DEF Callback
<1>4. CASE Gate \/ Process \/ Finish
  BY <1>2, <1>4, ProcessLeaves
<1>5. CASE Shutdown \/ UNCHANGED vars
  BY <1>2, <1>5 DEF Shutdown, vars, gui, jack, events
<1> QED
  BY <1>3, <1>4, <1>5 DEF RealTime

\* process() runs only in the state S_PROC and without an error.
LEMMA RealTimeCalm == ASSUME IInv, RealTime \/ Shutdown \/ UNCHANGED vars PROVE Calm'
<1>1. Types /\ Calm /\ Handshake
  BY DEF IInv
<1>2. CASE Callback
  <2>1. rpc' \in {"off", "gate"} /\ gpc' = gpc /\ active /\ gpc \notin {"delete", "end"}
    BY <1>1, <1>2 DEF Callback, Calm, gui
  <2> QED
    BY <2>1 DEF Calm, Processing, Convolving
<1>3. CASE Gate
  BY <1>1, <1>3, ProcessLeaves DEF Gate, Types, Calm, Processing, Convolving
<1>4. CASE Process
  <2>1. rpc \in Processing /\ rpc' \in Processing
    BY <1>4 DEF Process, Test, Output, Convolver, Processing, Convolving
  <2>2. state = "PROC" /\ ~cerror /\ gpc \notin {"delete", "end"}
    BY <1>1, <2>1 DEF Types, Calm, Processing, Convolving
  <2> QED
    BY <1>4, <2>2, ProcessLeaves DEF Calm
<1>5. CASE Finish
  <2>1. rpc' = "off"
    BY <1>5 DEF Finish
  <2> QED
    BY <1>1, <1>5, <2>1, ProcessLeaves DEF Finish, Calm, Processing, Convolving
<1>6. CASE Shutdown \/ UNCHANGED vars
  BY <1>1, <1>6 DEF Shutdown, vars, gui, jack, abproc, Calm
<1> QED
  BY <1>2, <1>3, <1>4, <1>5, <1>6 DEF RealTime

LEMMA RealTimeComplete ==
  ASSUME IInv, RealTime \/ Shutdown \/ UNCHANGED vars PROVE Complete'
<1>1. UNCHANGED <<gpc, upd, enable, ready, cerror>>
  BY ProcessLeaves DEF RealTime, Callback, Shutdown, vars, gui, abproc
<1> QED
  BY <1>1 DEF IInv, Complete

LEMMA RealTimeMarked == ASSUME IInv, RealTime \/ Shutdown \/ UNCHANGED vars PROVE Marked'
<1>1. Marked
  BY DEF IInv
<1>2. CASE Callback
  <2>1. /\ UNCHANGED <<gpc, upd>> /\ EqOnly' = EqOnly
        /\ dirty' = (gpc \in {"lfData", "pmData"} /\ EqOnly)
    BY <1>2 DEF Callback, gui, EqOnly
  <2> QED
    BY <2>1 DEF Marked
<1>3. CASE Gate \/ Process
  <2>1. rpc \in Processing \cup {"gate"}
    BY <1>3 DEF Gate, Process, Test, Output, Convolver, Processing, Convolving
  <2>2. UNCHANGED <<gpc, upd, dirty>> /\ EqOnly' = EqOnly
    BY <1>3, ProcessLeaves DEF EqOnly
  <2> QED
    BY <1>1, <2>1, <2>2 DEF Marked
<1>4. CASE Finish
  BY <1>4 DEF Finish, Marked, Processing, Convolving
<1>5. CASE Shutdown \/ UNCHANGED vars
  BY <1>1, <1>5 DEF Shutdown, vars, gui, jack, EqOnly, Marked
<1> QED
  BY <1>2, <1>3, <1>4, <1>5 DEF RealTime

\* An undisturbed block meets complete data only.
LEMMA DataComplete ==
  ASSUME IInv, rpc \in Processing
  PROVE  /\ "CONV" \in enable => "CONV" \in ready
         /\ ~dirty => enable \subseteq ready
<1>1. state = "PROC" /\ ~cerror /\ gpc # "end"
  BY DEF IInv, Types, Calm, Processing, Convolving
<1>2. gpc \in Changing => ~NeedsIdle
  BY NotRunning
<1>3. gpc \notin {"matrData", "convFlag", "convFile", "convData"}
  BY <1>2, Updated DEF Changing
<1>4. "CONV" \in enable => "CONV" \in ready
  BY <1>1, <1>3 DEF IInv, Complete
<1>5. ASSUME ~dirty PROVE enable \subseteq ready
  <2>1. gpc \notin {"lfData", "pmData"} \/ ~EqOnly
    BY <1>5 DEF IInv, Marked
  <2>2. gpc \in Changing => EqOnly
    BY <1>2, EqualisersOnly DEF IInv
  <2>3. gpc \notin {"lfData", "pmData"}
    BY <2>1, <2>2 DEF Changing
  <2>4. enable \subseteq Flag
    BY DEF IInv, Types
  <2> QED
    BY <1>1, <1>3, <1>4, <2>3, <2>4 DEF IInv, Complete, Flag
<1> QED
  BY <1>4, <1>5

\* Samples that go through a stage whose data are there.
LEMMA CleanStage == ASSUME NEW x \in ready, NEW samples PROVE Through(x, samples) = samples \cup {x}
BY DEF Through

\* The stages of a whole block, from those before the equaliser of the channels.
LEMMA WholeChain ==
  ASSUME enable \subseteq Flag
  PROVE  LET stages == Before({"LFEQ", IF "CONV" \in enable THEN "CONV" ELSE "MATR"})
         IN  Chain(enable) = IF "PMEQ" \in enable THEN stages \cup {"PMEQ"} ELSE stages
<1>1. CASE "CONV" \in enable
  BY <1>1 DEF Before, Chain, Flag
<1>2. CASE "CONV" \notin enable
  BY <1>2 DEF Before, Chain, Flag
<1> QED
  BY <1>1, <1>2

\* A test of process() keeps what is known of the block, and adds its outcome.
LEMMA TestBlock ==
  ASSUME IInv,
         \/ Test("LFEQ", "lf", "lfDest", "conv")
         \/ Test("CONV", "lfDest", "lfToConv", "lfInPlace")
         \/ Test("CONV", "conv", "in", "matr")
         \/ Test("LFEQ", "in", "run", "copyIn")
         \/ Test("PMEQ", "out", "pm", "copyOut")
         \/ Test("MATR", "matr", "mult", "pm")
         \/ Test("PMEQ", "pm", "pmSource", "done")
         \/ Test("CONV", "pmSource", "pmFromConv", "pmInPlace")
  PROVE  Branch' /\ Passed'
<1>1. Branch /\ Passed /\ enable \subseteq Flag
  BY DEF IInv, Types
<1>2. UNCHANGED <<enable, dirty, q, w>>
  BY DEF Test, abproc
<1>3. CASE Test("LFEQ", "lf", "lfDest", "conv")
  BY <1>1, <1>2, <1>3 DEF Test, Branch, Passed, Before
<1>4. CASE Test("CONV", "lfDest", "lfToConv", "lfInPlace")
  BY <1>1, <1>2, <1>4 DEF Test, Branch, Passed, Before
<1>5. CASE Test("CONV", "conv", "in", "matr")
  BY <1>1, <1>2, <1>5 DEF Test, Branch, Passed, Before
<1>6. CASE Test("LFEQ", "in", "run", "copyIn")
  BY <1>1, <1>2, <1>6 DEF Test, Branch, Passed, Before
<1>7. CASE Test("PMEQ", "out", "pm", "copyOut")
  BY <1>1, <1>2, <1>7 DEF Test, Branch, Passed, Before
<1>8. CASE Test("MATR", "matr", "mult", "pm")
  BY <1>1, <1>2, <1>8 DEF Test, Branch, Passed, Before
<1>9. CASE Test("PMEQ", "pm", "pmSource", "done")
  <2>1. ASSUME ~dirty, "PMEQ" \notin enable PROVE q = Chain(enable)
    BY <1>1, <1>9, <2>1, WholeChain DEF Test, Passed
  <2> QED
    BY <1>1, <1>2, <1>9, <2>1 DEF Test, Branch, Passed, Before, Chain
<1>10. CASE Test("CONV", "pmSource", "pmFromConv", "pmInPlace")
  BY <1>1, <1>2, <1>10 DEF Test, Branch, Passed, Before
<1> QED
  BY <1>3, <1>4, <1>5, <1>6, <1>7, <1>8, <1>9, <1>10

\* A stage adds itself to what the samples have passed.
LEMMA StageBlock ==
  ASSUME IInv,
         \/ Convolver("lfToConv", "conv", Through("LFEQ", q))
         \/ Output("lfInPlace", "conv", Through("LFEQ", q))
         \/ Convolver("copyIn", "run", q)
         \/ Convolver("run", "out", Through("CONV", w))
         \/ Output("copyOut", "pm", w)
         \/ Output("mult", "pm", Through("MATR", q))
         \/ Output("pmFromConv", "done", Through("PMEQ", w))
         \/ Output("pmInPlace", "done", Through("PMEQ", q))
  PROVE  Branch' /\ Passed'
<1>1. Branch /\ Passed /\ enable \subseteq Flag
  BY DEF IInv, Types
<1>2. UNCHANGED <<enable, dirty>>
  BY DEF Output, Convolver, abproc
<1>3. rpc \in Processing
  BY DEF Output, Convolver, Processing, Convolving
<1>4. \A x \in enable : ~dirty => x \in ready
  BY <1>3, DataComplete
<1>5. \A x, samples : x \in ready => Through(x, samples) = samples \cup {x}
  BY CleanStage
<1> DEFINE Clean(x, samples) == x \in enable /\ ~dirty => Through(x, samples) = samples \cup {x}
<1>6. /\ Clean("LFEQ", q) /\ Clean("CONV", w) /\ Clean("MATR", q)
      /\ Clean("PMEQ", w) /\ Clean("PMEQ", q)
  BY <1>4, <1>5
<1>7. CASE Convolver("lfToConv", "conv", Through("LFEQ", q))
  BY <1>1, <1>2, <1>6, <1>7 DEF Convolver, Branch, Passed, Before
<1>8. CASE Output("lfInPlace", "conv", Through("LFEQ", q))
  BY <1>1, <1>2, <1>6, <1>8 DEF Output, Branch, Passed, Before
<1>9. CASE Convolver("copyIn", "run", q)
  BY <1>1, <1>2, <1>9 DEF Convolver, Branch, Passed, Before
<1>10. CASE Convolver("run", "out", Through("CONV", w))
  BY <1>1, <1>2, <1>6, <1>10 DEF Convolver, Branch, Passed, Before
<1>11. CASE Output("copyOut", "pm", w)
  BY <1>1, <1>2, <1>11 DEF Output, Branch, Passed, Before
<1>12. CASE Output("mult", "pm", Through("MATR", q))
  BY <1>1, <1>2, <1>6, <1>12 DEF Output, Branch, Passed, Before
<1>13. CASE Output("pmFromConv", "done", Through("PMEQ", w))
  <2>1. ASSUME ~dirty PROVE Through("PMEQ", w) = Chain(enable)
    BY <1>1, <1>6, <1>13, <2>1, WholeChain DEF Output, Branch, Passed
  <2>2. rpc' = "done" /\ q' = Through("PMEQ", w)
    BY <1>13 DEF Output
  <2> QED
    BY <1>2, <2>1, <2>2 DEF Branch, Passed, Chain
<1>14. CASE Output("pmInPlace", "done", Through("PMEQ", q))
  <2>1. ASSUME ~dirty PROVE Through("PMEQ", q) = Chain(enable)
    BY <1>1, <1>6, <1>14, <2>1, WholeChain DEF Output, Branch, Passed
  <2>2. rpc' = "done" /\ q' = Through("PMEQ", q)
    BY <1>14 DEF Output
  <2> QED
    BY <1>2, <2>1, <2>2 DEF Branch, Passed, Chain
<1> QED
  BY <1>7, <1>8, <1>9, <1>10, <1>11, <1>12, <1>13, <1>14

LEMMA RealTimeBlock ==
  ASSUME IInv, RealTime \/ Shutdown \/ UNCHANGED vars PROVE Branch' /\ Passed'
<1>1. Branch /\ Passed
  BY DEF IInv
<1>2. CASE Callback
  BY <1>1, <1>2 DEF Callback, abproc, Branch, Passed
<1>3. CASE Gate
  BY <1>1, <1>3 DEF Gate, abproc, Branch, Passed
<1>4. CASE Process
  BY <1>4, TestBlock, StageBlock DEF Process
<1>5. CASE Finish
  BY <1>5 DEF Finish, Branch, Passed
<1>6. CASE Shutdown \/ UNCHANGED vars
  BY <1>1, <1>6 DEF Shutdown, vars, jack, abproc, Branch, Passed, Before, Chain
<1> QED
  BY <1>2, <1>3, <1>4, <1>5, <1>6 DEF RealTime
-----------------------------------------------------------------------------
LEMMA Init_IInv == Init => IInv
<1> SUFFICES ASSUME Init PROVE IInv
  OBVIOUS
<1>1. Types
  BY DEF Init, Types, GuiPlace, Samples, Flag
<1>2. Handshake
  BY DEF Init, Handshake, None, Changing, NeedsIdle, Flag
<1>3. Calm /\ Complete /\ Branch /\ Passed
  BY DEF Init, Calm, Complete, Branch, Passed, Processing, Convolving
<1>4. Marked
  BY DEF Init, Marked
<1> QED
  BY <1>1, <1>2, <1>3, <1>4 DEF IInv

LEMMA IInvStep == IInv /\ [Next]_vars => IInv'
<1> SUFFICES ASSUME IInv, [Next]_vars PROVE IInv'
  OBVIOUS
<1>1. CASE Gui
  BY <1>1, GuiTypes, GuiHandshake, GuiCalm, GuiComplete, GuiMarked, GuiBlock DEF IInv
<1>2. CASE RealTime \/ Shutdown \/ UNCHANGED vars
  BY <1>2, RealTimeTypes, RealTimeHandshake, RealTimeCalm, RealTimeComplete, RealTimeMarked,
     RealTimeBlock DEF IInv
<1> QED
  BY <1>1, <1>2 DEF Next, Gui

LEMMA SpecIInv == Spec => []IInv
BY Init_IInv, IInvStep, PTL DEF Spec

\* No event is sent a second time before it is taken: an answer is the one to
\* the last request of syncaudio().
THEOREM SyncTypeCorrect == Spec => []TypeOK
<1>1. ASSUME IInv PROVE TypeOK
  <2>1. Types /\ Handshake
    BY <1>1 DEF IInv
  <2>2. /\ None \in [Event -> {0, 1}]
        /\ \A e \in Event : One(e) \in [Event -> {0, 1}]
    BY DEF None, One
  <2>3. toJack \in [Event -> {0, 1}] /\ toMain \in [Event -> {0, 1}]
    BY <2>1, <2>2 DEF Handshake, Event
  <2> QED
    BY <2>1, <2>3 DEF Types, TypeOK
<1> QED
  BY <1>1, SpecIInv, PTL

\* Where process() uses the convolver there is a complete one.
THEOREM ConvolverLive == Spec => []ConvolLive
<1>1. ASSUME IInv PROVE ConvolLive
  <2>1. rpc \in Convolving => rpc \in Processing /\ "CONV" \in enable
    BY <1>1 DEF IInv, Branch, Processing, Convolving
  <2> QED
    BY <1>1, <2>1, DataComplete DEF ConvolLive
<1> QED
  BY <1>1, SpecIInv, PTL

\* The matrix and the convolver are changed only while process() is not running.
THEOREM ChangesExclusive == Spec => []Exclusive
<1>1. ASSUME IInv PROVE Exclusive
  BY <1>1, NotRunning, EqualisersOnly DEF IInv, Exclusive, Changing
<1> QED
  BY <1>1, SpecIInv, PTL

\* An undisturbed block leaves process() having passed each enabled stage once.
THEOREM BlocksSound == Spec => []BlockSound
<1>1. ASSUME IInv PROVE BlockSound
  BY <1>1 DEF IInv, Passed, BlockSound
<1> QED
  BY <1>1, SpecIInv, PTL

\* When applconf() has returned, the audio runs and no event is left over.
THEOREM AudioResumed == Spec => []Resumed
<1>1. ASSUME IInv PROVE Resumed
  BY <1>1, EventThere DEF IInv, Handshake, Resumed
<1> QED
  BY <1>1, SpecIInv, PTL
-----------------------------------------------------------------------------
\* What the two threads share without a handshake: the controls (module Ramps)
\* are followed as they should for every range, step and tolerance.

\* The signed way between two values is as long as their distance.
LEMMA WayDistance ==
  ASSUME NEW x \in Value, NEW y \in Value
  PROVE  /\ Way(x, y) \in Int
         /\ Abs(Way(x, y)) = Distance(x, y)
<1>1. CASE kind = "azimuth"
  BY <1>1, RampAssumption DEF Value, Way, Wrapped, Abs, Distance
<1>2. CASE kind # "azimuth"
  BY <1>2, RampAssumption DEF Value, Way, Abs, Distance
<1>3. QED BY <1>1, <1>2

\* A step towards y stays among the values and comes nearer to y.
LEMMA MovedLine ==
  ASSUME NEW x \in Value, NEW y \in Value, kind # "azimuth",
         Distance(x, y) > Step
  PROVE  /\ Moved(x, Limited(Way(x, y))) \in Value
         /\ Distance(Moved(x, Limited(Way(x, y))), y) < Distance(x, y)
BY RampAssumption DEF Value, Way, Abs, Moved, Limited, Distance

LEMMA MovedCircle ==
  ASSUME NEW x \in Value, NEW y \in Value, kind = "azimuth",
         Distance(x, y) > Step
  PROVE  /\ Moved(x, Limited(Way(x, y))) \in Value
         /\ Distance(Moved(x, Limited(Way(x, y))), y) < Distance(x, y)
<1> DEFINE d == Wrapped(y - x)
<1>1. d \in Int /\ (d = y - x \/ d = y - x - Last \/ d = y - x + Last)
  BY RampAssumption DEF Value, Wrapped
<1>2. 2 * d < Last /\ -Last <= 2 * d
  BY RampAssumption DEF Value, Wrapped
<1>3. (d > Step \/ d < -Step)
  BY WayDistance, RampAssumption DEF Way, Abs, Value
<1>4. CASE d > Step
  <2>1. Moved(x, Limited(Way(x, y))) = IF x + Step > Last THEN x + Step - Last ELSE x + Step
    BY <1>1, <1>4, RampAssumption DEF Value, Way, Moved, Limited
  <2>2. QED
    BY <1>1, <1>2, <1>4, <2>1, RampAssumption DEF Value, Abs, Distance
<1>5. CASE d < -Step
  <2>1. Moved(x, Limited(Way(x, y))) = IF x - Step < 1 THEN x - Step + Last ELSE x - Step
    BY <1>1, <1>5, RampAssumption DEF Value, Way, Moved, Limited
  <2>2. QED
    BY <1>1, <1>2, <1>5, <2>1, RampAssumption DEF Value, Abs, Distance
<1>6. QED BY <1>3, <1>4, <1>5

\* So does one on a line that is limited only if it is longer than a step.
LEMMA LimitedValue ==
  ASSUME NEW x \in Value, NEW y \in Value, NEW z, z = x + Limited(y - x)
  PROVE  /\ z \in Value
         /\ Abs(z - x) <= Step
         /\ x # y => Abs(z - y) < Abs(x - y)
BY RampAssumption DEF Value, Abs, Limited

\* What a control has for a target: a value, unless the control was never set.
LEMMA TargetValue ==
  ASSUME RTypeOK, cur # 0
  PROVE  cur \in Value /\ tgt \in Value
BY DEF RTypeOK

LEMMA FollowType ==
  ASSUME RTypeOK, Follow
  PROVE  RTypeOK'
<1> USE DEF RTypeOK
<1>1. CASE Frequency \/ FrequencyFirst
  BY <1>1 DEF Frequency, FrequencyFirst, Value
<1>7. CASE FrequencyUp \/ FrequencyDown
  <2>1. cur \in Value /\ tgt \in Value /\ kind = "frequency"
    BY <1>7 DEF FrequencyUp, FrequencyDown
  <2>2. cur' \in Value
    BY <1>7, <2>1, RampAssumption DEF FrequencyUp, FrequencyDown, Value
  <2>3. cur' # 0
    BY <2>2 DEF Value
  <2>4. QED BY <1>7, <2>1, <2>2, <2>3 DEF FrequencyUp, FrequencyDown
<1>2. CASE FrequencyCopy
  BY <1>2 DEF FrequencyCopy
<1>3. CASE Volume
  <2>1. cur \in Value /\ tgt \in Value
    BY <1>3 DEF Volume
  <2>2. cur' \in Value
    BY <1>3, <2>1, LimitedValue DEF Volume
  <2>3. QED BY <1>3, <2>1, <2>2 DEF Volume, Value
<1>4. CASE Virtmic
  <2>1. cur \in Value /\ tgt \in Value
    BY <1>4 DEF Virtmic
  <2>2. cur' \in Value
    <3>1. CASE cur' = cur
      BY <2>1, <3>1
    <3>2. CASE cur' # cur
      <4>1. Abs(Way(cur, tgt)) > Step /\ cur' = Moved(cur, Limited(Way(cur, tgt)))
        BY <1>4, <3>2 DEF Virtmic
      <4>2. Distance(cur, tgt) > Step
        BY <2>1, <4>1, WayDistance
      <4>3. QED BY <2>1, <4>1, <4>2, MovedLine, MovedCircle
    <3>3. QED BY <3>1, <3>2
  <2>3. QED BY <1>4, <2>1, <2>2 DEF Virtmic, Value
<1>5. CASE VirtmicCopy
  BY <1>5 DEF VirtmicCopy, Value
<1>6. QED BY <1>1, <1>2, <1>3, <1>4, <1>5, <1>7 DEF Follow, Frequencies

\* Every control and every target is one of the values that can be asked for,
\* whatever the range, the step and the tolerance: an azimuth that is turned
\* past the end of the circle continues at its beginning.
THEOREM RampTypeCorrect == RSpec => []RTypeOK
<1>1. RInit => RTypeOK
  BY RampAssumption DEF RInit, RTypeOK, Value
<1>2. RTypeOK /\ [RNext]_rvars => RTypeOK'
  <2> SUFFICES ASSUME RTypeOK, [RNext]_rvars
               PROVE  RTypeOK'
    OBVIOUS
  <2>1. CASE Follow
    BY <2>1, FollowType
  <2>2. ASSUME NEW v \in Value, Set(v)
        PROVE  RTypeOK'
    BY <2>2 DEF Set, RTypeOK, Value
  <2>3. CASE UNCHANGED rvars
    BY <2>3 DEF rvars, RTypeOK
  <2>4. QED BY <2>1, <2>2, <2>3 DEF RNext
<1>3. QED BY <1>1, <1>2, PTL DEF RSpec

\* A step of the callback that moves a control that was set before.
LEMMA FollowMoves ==
  ASSUME RTypeOK, Follow, cur # 0, cur' # cur
  PROVE  /\ Distance(cur', tgt) < Distance(cur, tgt)
         /\ kind \in {"frequency", "volume"} => Abs(cur' - cur) <= Step
<1>1. cur \in Value /\ tgt \in Value
  BY TargetValue
<1>2. CASE kind \in {"frequency", "volume"}
  <2>1. cur' = cur + Limited(tgt - cur) /\ tgt # cur
    <3>1. CASE FrequencyUp \/ FrequencyDown
      BY <1>1, <3>1, RampAssumption DEF FrequencyUp, FrequencyDown, Limited, Value
    <3>2. CASE Volume
      <4>1. Abs(tgt - cur) > Tol /\ cur' = cur + Limited(tgt - cur)
        BY <3>2 DEF Volume
      <4>2. QED BY <1>1, <4>1, RampAssumption DEF Abs, Value
    <3>3. QED
      BY <1>2, <3>1, <3>2
         DEF Follow, Frequencies, Frequency, FrequencyFirst, FrequencyCopy, Virtmic, VirtmicCopy,
             RTypeOK
  <2>2. Distance(cur', tgt) = Abs(cur' - tgt) /\ Distance(cur, tgt) = Abs(cur - tgt)
    BY <1>2 DEF Distance
  <2>3. Abs(cur' - cur) <= Step /\ Abs(cur' - tgt) < Abs(cur - tgt)
    BY <1>1, <2>1, LimitedValue
  <2>4. QED BY <2>2, <2>3
<1>3. CASE kind \in {"width", "azimuth"}
  <2>1. CASE Virtmic
    <3>1. Abs(Way(cur, tgt)) > Step /\ cur' = Moved(cur, Limited(Way(cur, tgt)))
      BY <2>1 DEF Virtmic
    <3>2. Distance(cur, tgt) > Step
      BY <1>1, <3>1, WayDistance
    <3>3. QED BY <1>1, <1>3, <3>1, <3>2, MovedLine, MovedCircle
  <2>2. CASE VirtmicCopy
    <3>1. cur' = tgt
      BY <2>2 DEF VirtmicCopy
    <3>2. Distance(tgt, tgt) = 0 /\ Distance(cur, tgt) > 0
      BY <1>1, <3>1, RampAssumption DEF Distance, Abs, Value
    <3>3. QED BY <1>3, <3>1, <3>2
  <2>3. QED BY <1>3, <2>1, <2>2 DEF Follow, Frequencies, Frequency, FrequencyFirst, FrequencyUp,
     FrequencyDown, FrequencyCopy, Volume
<1>4. QED BY <1>2, <1>3 DEF RTypeOK, Kind

\* For every range, step and tolerance: each step of the callback brings a
\* control nearer to its target, wherever the GUI thread has moved the target.
THEOREM RampsApproach == RSpec => Approaches
<1>1. RTypeOK /\ [RNext]_rvars
      => [cur' # cur /\ cur # 0 => Distance(cur', tgt) < Distance(cur, tgt)]_rvars
  BY FollowMoves DEF RNext, Set
<1>2. QED BY <1>1, RampTypeCorrect, PTL DEF RSpec, Approaches

\* For every range, step and tolerance: a frequency and a volume never jump.
THEOREM RampsSmooth == RSpec => Smooth
<1>1. RTypeOK /\ [RNext]_rvars
      => [cur # 0 /\ kind \in {"frequency", "volume"} => Abs(cur' - cur) <= Step]_rvars
  <2> SUFFICES ASSUME RTypeOK, RNext, cur # 0, kind \in {"frequency", "volume"}
               PROVE  Abs(cur' - cur) <= Step
    OBVIOUS
  <2>1. CASE cur' = cur
    BY <2>1, TargetValue, RampAssumption DEF Value, Abs
  <2>2. CASE cur' # cur
    BY <2>2, FollowMoves DEF RNext, Set
  <2>3. QED BY <2>1, <2>2
<1>2. QED BY <1>1, RampTypeCorrect, PTL DEF RSpec, Smooth

=============================================================================
