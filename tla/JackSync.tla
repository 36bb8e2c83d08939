------------------------------ MODULE JackSync ------------------------------
(***************************************************************************)
(* How tetraproc changes the configuration of running audio: the GUI       *)
(* thread in Mainwin::applconf(), the thread of JACK in                    *)
(* Jclient::jack_process(), and the ABprocess object that both touch       *)
(* without a lock (upstream/tetraproc-0.8.6/source).                       *)
(*                                                                         *)
(* Before it changes the matrix or the convolution, the GUI thread asks    *)
(* the other one to go idle and waits for the answer; it changes the two   *)
(* equalisers while they run.  gpc and rpc are the places of the threads.  *)
(* Every test of _enable is a step of its own.                             *)
(*                                                                         *)
(* A block of samples is abstracted to the set of stages it went through:  *)
(* q is what the output buffers hold, w what the convolver holds.  "OLD"   *)
(* marks samples of an earlier block, "BAD" those that a stage produced    *)
(* from data that were not (or only in part) set.                          *)
(***************************************************************************)
EXTENDS Integers

\* The bits of ABconfig::_enable and _update (EN_FORM is never tested).
Flag == {"LFEQ", "MATR", "CONV", "PMEQ"}

Event == {"GO_IDLE", "GO_PROC"}

VARIABLES
  gpc, want, upd,              \* the GUI thread: place, _config._enable, _update
  rpc, state, q, w,            \* the thread of JACK; Jclient::_state
  enable, cerror, ready,       \* ABprocess; the stages whose data are set
  toJack, toMain,              \* events sent and not yet taken
  active,                      \* does JACK call the callback?
  dirty                        \* was an equaliser being set during this block?

gui == <<gpc, want, upd>>
jack == <<rpc, state, q, w>>
abproc == <<enable, cerror, ready>>
events == <<toJack, toMain>>
vars == <<gui, jack, abproc, events, active, dirty>>

\* loadconf() applies everything; the callback runs since the constructor of
\* Jclient, in the state S_IDLE.
Init ==
  /\ gpc = "goIdle"
  /\ want \in SUBSET Flag
  /\ upd = Flag
  /\ rpc = "off" /\ state = "IDLE" /\ q = {} /\ w = {"OLD"}
  /\ enable = {} /\ cerror = FALSE /\ ready = {}
  /\ toJack = [e \in Event |-> 0]
  /\ toMain = [e \in Event |-> 0]
  /\ active = TRUE
  /\ dirty = FALSE

\* Mutant of NeedsIdle: the matrix is changed while it is in use.
NeedsIdleConv == "CONV" \in upd

\* upd != 0 in applconf()
NeedsIdle == upd \cap {"CONV", "MATR"} # {}

\* Only the equalisers are set, under running audio.
EqOnly == upd \subseteq {"LFEQ", "PMEQ"}
-----------------------------------------------------------------------------
\* The GUI thread

\* A configuration is applied; of its _enable only the bits in _update count.
Apply ==
  /\ gpc = "idle"
  /\ upd' \in SUBSET Flag \ {{}}
  /\ want' \in SUBSET upd'
  /\ gpc' = "goIdle"
  /\ UNCHANGED <<jack, abproc, events, active, dirty>>

\* syncaudio(e), from the place in which it sends to the one where it waits;
\* applconf() calls it only if NeedsIdle.
Send(e, from, wait, skip) ==
  /\ gpc = from
  /\ IF NeedsIdle
     THEN /\ toJack' = [toJack EXCEPT ![e] = @ + 1]
          /\ gpc' = wait
     ELSE /\ gpc' = skip
          /\ UNCHANGED toJack
  /\ UNCHANGED <<want, upd, jack, abproc, toMain, active, dirty>>

\* Mutant of Await: it does not wait for the answer.
AwaitNot(e, wait, to) ==
  /\ gpc = wait
  /\ toMain' = [toMain EXCEPT ![e] = 0]
  /\ gpc' = to
  /\ UNCHANGED <<want, upd, jack, abproc, toJack, active, dirty>>

Await(e, wait, to) ==
  /\ gpc = wait
  /\ toMain[e] > 0
  /\ toMain' = [toMain EXCEPT ![e] = @ - 1]
  /\ gpc' = to
  /\ UNCHANGED <<want, upd, jack, abproc, toJack, active, dirty>>

\* set_lffilt(), set_matrix(), set_hffilt(): the bit is set first and the data
\* after it, or it is cleared and the data remain.
SetFlag(x, from, write, next) ==
  /\ gpc = from
  /\ IF x \in upd
     THEN /\ dirty' = (dirty \/ EqOnly)
          /\ IF x \in want
             THEN /\ enable' = enable \cup {x}
                  /\ ready' = ready \ {x}
                  /\ gpc' = write
             ELSE /\ enable' = enable \ {x}
                  /\ gpc' = next
                  /\ UNCHANGED ready
     ELSE /\ gpc' = next
          /\ UNCHANGED <<enable, ready, dirty>>
  /\ UNCHANGED <<want, upd, jack, cerror, events, active>>

SetData(x, write, next) ==
  /\ gpc = write
  /\ ready' = ready \cup {x}
  /\ dirty' = (dirty \/ EqOnly)
  /\ gpc' = next
  /\ UNCHANGED <<want, upd, jack, enable, cerror, events, active>>

\* set_convol(): the old convolver is deleted; the bit; the error flag, and the
\* file, which may fail to open; the new convolver.
DropConvol ==
  /\ gpc = "conv"
  /\ IF "CONV" \in upd
     THEN /\ ready' = ready \ {"CONV"}
          /\ gpc' = "convFlag"
     ELSE /\ gpc' = "pmeq"
          /\ UNCHANGED ready
  /\ UNCHANGED <<want, upd, jack, enable, cerror, events, active, dirty>>

ConvolFlag ==
  /\ gpc = "convFlag"
  /\ IF "CONV" \in want
     THEN /\ enable' = enable \cup {"CONV"}
          /\ gpc' = "convFile"
          /\ UNCHANGED cerror
     ELSE /\ enable' = enable \ {"CONV"}
          /\ cerror' = FALSE
          /\ gpc' = "pmeq"
  /\ UNCHANGED <<want, upd, jack, ready, events, active, dirty>>

\* Mutant of ConvolFile: after an error applconf() returns at once.
ConvolFileReturn ==
  /\ gpc = "convFile"
  /\ cerror' = TRUE
  /\ gpc' \in {"convData", "report"}
  /\ UNCHANGED <<want, upd, jack, enable, ready, events, active, dirty>>

\* The file opens or not.  One that opens has at least four frames here; Tetrafile
\* has what becomes of one that has fewer.
ConvolFile ==
  /\ gpc = "convFile"
  /\ cerror' = TRUE
  /\ gpc' \in {"convData", "pmeq"}
  /\ UNCHANGED <<want, upd, jack, enable, ready, events, active, dirty>>

ConvolData ==
  /\ gpc = "convData"
  /\ ready' = ready \cup {"CONV"}
  /\ cerror' = FALSE
  /\ gpc' = "pmeq"
  /\ UNCHANGED <<want, upd, jack, enable, events, active, dirty>>

\* applyrep() shows the result, and applconf() returns: the configuration is of
\* no further interest here.
Report ==
  /\ gpc = "report"
  /\ gpc' = "idle"
  /\ upd' = {}
  /\ want' = {}
  /\ UNCHANGED <<jack, abproc, events, active, dirty>>

\* main() leaves its loop and deletes the Jclient: close_jack() returns when no
\* callback runs any more; then the destructor of ABprocess.
Deactivate ==
  /\ gpc = "idle"
  /\ rpc = "off"
  /\ active' = FALSE
  /\ gpc' = "delete"
  /\ UNCHANGED <<want, upd, jack, abproc, events, dirty>>

Delete ==
  /\ gpc = "delete"
  /\ ready' = {}
  /\ gpc' = "end"
  /\ UNCHANGED <<want, upd, jack, enable, cerror, events, active, dirty>>

Configure ==
  \/ Send("GO_IDLE", "goIdle", "waitIdle", "lfeq")
  \/ Await("GO_IDLE", "waitIdle", "lfeq")
  \/ SetFlag("LFEQ", "lfeq", "lfData", "matr")
  \/ SetData("LFEQ", "lfData", "matr")
  \/ SetFlag("MATR", "matr", "matrData", "conv")
  \/ SetData("MATR", "matrData", "conv")
  \/ DropConvol \/ ConvolFlag \/ ConvolFile \/ ConvolData
  \/ SetFlag("PMEQ", "pmeq", "pmData", "goProc")
  \/ SetData("PMEQ", "pmData", "goProc")
  \/ Send("GO_PROC", "goProc", "waitProc", "report")
  \/ Await("GO_PROC", "waitProc", "report")
  \/ Report
-----------------------------------------------------------------------------
\* The thread of JACK

\* Mutant of Callback: only EV_GO_IDLE is answered.
CallbackSilent ==
  /\ rpc = "off"
  /\ active
  /\ \/ \E e \in Event :
          /\ toJack[e] > 0
          /\ toJack' = [toJack EXCEPT ![e] = @ - 1]
          /\ toMain' = [toMain EXCEPT !["GO_IDLE"] = IF e = "GO_IDLE" THEN @ + 1 ELSE @]
          /\ state' = IF e = "GO_IDLE" THEN "IDLE" ELSE "PROC"
     \/ /\ \A e \in Event : toJack[e] = 0
        /\ UNCHANGED <<toJack, toMain, state>>
  /\ rpc' \in {"gate", "off"}
  /\ dirty' = (gpc \in {"lfData", "pmData"} /\ EqOnly)
  /\ UNCHANGED <<gui, q, w, abproc, active>>

\* An event is taken and answered, if there is one.  If the period is not the
\* one of the start (nframes != _fsize) that is all.
Callback ==
  /\ rpc = "off"
  /\ active
  /\ \/ \E e \in Event :
          /\ toJack[e] > 0
          /\ toJack' = [toJack EXCEPT ![e] = @ - 1]
          /\ toMain' = [toMain EXCEPT ![e] = @ + 1]
          /\ state' = IF e = "GO_IDLE" THEN "IDLE" ELSE "PROC"
     \/ /\ \A e \in Event : toJack[e] = 0
        /\ UNCHANGED <<toJack, toMain, state>>
  /\ rpc' \in {"gate", "off"}
  /\ dirty' = (gpc \in {"lfData", "pmData"} /\ EqOnly)
  /\ UNCHANGED <<gui, q, w, abproc, active>>

\* Mutant of Gate: the error flag is not tested.
GateState ==
  /\ rpc = "gate"
  /\ IF state = "IDLE"
     THEN rpc' = "off" ELSE rpc' = "lf"
  /\ UNCHANGED <<gui, state, q, w, abproc, events, active, dirty>>

\* Silence, or ABprocess::process() up to its first test.
Gate ==
  /\ rpc = "gate"
  /\ IF state = "IDLE" \/ cerror
     THEN rpc' = "off" ELSE rpc' = "lf"
  /\ UNCHANGED <<gui, state, q, w, abproc, events, active, dirty>>

Test(x, from, yes, no) ==
  /\ rpc = from
  /\ rpc' = IF x \in enable THEN yes ELSE no
  /\ UNCHANGED <<gui, state, q, w, abproc, events, active, dirty>>

\* Samples through stage x.
Through(x, samples) == samples \cup {IF x \in ready THEN x ELSE "BAD"}

\* A step that leaves new samples in the output buffers.
Output(from, to, samples) ==
  /\ rpc = from
  /\ rpc' = to
  /\ q' = samples
  /\ UNCHANGED <<gui, state, w, abproc, events, active, dirty>>

\* A step that leaves new samples in the convolver.
Convolver(from, to, samples) ==
  /\ rpc = from
  /\ rpc' = to
  /\ w' = samples
  /\ UNCHANGED <<gui, state, q, abproc, events, active, dirty>>

\* The block is played.
Finish ==
  /\ rpc = "done"
  /\ rpc' = "off"
  /\ q' = {} /\ w' = {"OLD"}
  /\ UNCHANGED <<gui, state, abproc, events, active, dirty>>

Process ==
  \/ Test("LFEQ", "lf", "lfDest", "conv")
  \/ Test("CONV", "lfDest", "lfToConv", "lfInPlace")
  \/ Convolver("lfToConv", "conv", Through("LFEQ", q))
  \/ Output("lfInPlace", "conv", Through("LFEQ", q))
  \/ Test("CONV", "conv", "in", "matr")
  \/ Test("LFEQ", "in", "run", "copyIn")
  \/ Convolver("copyIn", "run", q)
  \/ Convolver("run", "out", Through("CONV", w))
  \/ Test("PMEQ", "out", "pm", "copyOut")
  \/ Output("copyOut", "pm", w)
  \/ Test("MATR", "matr", "mult", "pm")
  \/ Output("mult", "pm", Through("MATR", q))
  \/ Test("PMEQ", "pm", "pmSource", "done")
  \/ Test("CONV", "pmSource", "pmFromConv", "pmInPlace")
  \/ Output("pmFromConv", "done", Through("PMEQ", w))
  \/ Output("pmInPlace", "done", Through("PMEQ", q))

\* The JACK server goes away.
Shutdown ==
  /\ active
  /\ rpc = "off"
  /\ active' = FALSE
  /\ UNCHANGED <<gui, jack, abproc, events, dirty>>

RealTime == Callback \/ Gate \/ Process \/ Finish

Next == Apply \/ Configure \/ Deactivate \/ Delete \/ RealTime \/ Shutdown

Spec == Init /\ [][Next]_vars

\* The GUI thread is scheduled when it can run, JACK calls the callback in
\* every period, and the callback never blocks.
FairSpec == Spec /\ WF_vars(Configure) /\ WF_vars(RealTime)
-----------------------------------------------------------------------------
GuiPlace == {"idle", "goIdle", "waitIdle", "lfeq", "lfData", "matr", "matrData",
             "conv", "convFlag", "convFile", "convData", "pmeq", "pmData",
             "goProc", "waitProc", "report", "delete", "end"}

\* The places in ABprocess::process(), and those where it uses the convolver.
Convolving == {"lfToConv", "copyIn", "run", "copyOut", "pmFromConv"}
Processing == Convolving \cup
  {"lf", "lfDest", "lfInPlace", "conv", "in", "out", "matr", "mult", "pm",
   "pmSource", "pmInPlace", "done"}

Samples == SUBSET (Flag \cup {"OLD", "BAD"})

\* Every variable has its type; no event is sent again before it is taken.
TypeOK ==
  /\ gpc \in GuiPlace
  /\ want \subseteq Flag /\ upd \subseteq Flag
  /\ rpc \in Processing \cup {"off", "gate"}
  /\ state \in {"IDLE", "PROC"}
  /\ q \in Samples /\ w \in Samples
  /\ enable \subseteq Flag /\ ready \subseteq Flag
  /\ cerror \in BOOLEAN
  /\ toJack \in [Event -> {0, 1}] /\ toMain \in [Event -> {0, 1}]
  /\ active \in BOOLEAN /\ dirty \in BOOLEAN

\* Where the callback uses the convolver, there is one and it is complete: it
\* is neither being replaced, nor left out after a file that failed to open,
\* nor deleted at the end.
ConvolLive == rpc \in Convolving => "CONV" \in ready

\* The matrix and the convolver are never changed under a running process().
Exclusive ==
  gpc \in {"matr", "matrData", "conv", "convFlag", "convFile", "convData"} /\ ~EqOnly
    => rpc \notin Processing

Chain(e) == IF "CONV" \in e THEN e \ {"MATR"} ELSE e

\* A block during which no equaliser was being set leaves process() having passed
\* each enabled stage once, with complete data, and no other.
BlockSound == rpc = "done" /\ ~dirty => q = Chain(enable)

\* When applconf() has returned, failed or not, the audio runs again and no
\* event is left over that a later syncaudio() would take for its answer.
Resumed ==
  gpc = "idle" =>
    /\ state = "PROC"
    /\ \A e \in Event : toJack[e] = 0 /\ toMain[e] = 0

\* applconf() returns, unless the JACK server goes away.
ApplyReturns == gpc = "goIdle" ~> (gpc = "idle" \/ ~active)
=============================================================================
