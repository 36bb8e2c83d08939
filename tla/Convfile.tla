------------------------------ MODULE Convfile ------------------------------
(***************************************************************************)
(* How the convolver of tetraproc gets its impulse responses:              *)
(* ABprocess::set_convol(), which builds a new convolver from the file     *)
(* that the configuration names, ABconfig::openconvfile(), and the reading *)
(* side of class Impdata, in which both kinds of files end up as four      *)
(* sections of four channels.                                              *)
(*                                                                         *)
(* The GUI calls set_convol() again and again, with one file after the     *)
(* other, each time with the configuration of the main window and the      *)
(* object of class Impdata that is part of it.  Whole configurations are   *)
(* copied between the windows, that object included, but only between two  *)
(* calls, when it is closed, holds no data, and has nothing else that the  *)
(* next opening uses: so one object stands for all the copies.             *)
(*                                                                         *)
(* A frame of a file is abstracted to its number, from 1; 0 stands for the *)
(* zeros of alloc().  The convolver is here what its partitions are made   *)
(* from: for every section the frames of _data at the time (its four       *)
(* channels are taken from there with a stride).                           *)
(***************************************************************************)
EXTENDS Integers

CONSTANTS
  ConvFiles,   \* the files there may be
  NoFile,      \* for a configuration without convolution
  MaxFrames    \* of a section: 0x1000

\* A file exists or not; has a name that ends in .ald or .wav; has a header that
\* is right or not, which says how many channels, sections (of a .wav file: one)
\* and frames there are; good is how many frames in all can be read.
ASSUME ConvfileAssumption ==
  /\ MaxFrames \in Nat
  /\ ConvFiles \subseteq
       [exists : BOOLEAN, ext : {"ald", "wav", "other"}, header : BOOLEAN,
        chan : Nat, sect : Nat, fram : Nat, good : Nat]
  /\ NoFile \notin ConvFiles

VARIABLES
  pc,       \* where set_convol() is; "idle": it does not run
  wanted,   \* the file of the last call, or NoFile if the convolution was off
  mode,     \* Impdata: _mode
  fram,     \* Impdata: _n_fram
  data,     \* Impdata: _data, as long as _size says
  i,        \* the section
  coeff,    \* the partitions of the convolver
  convol    \* _convol: "null", "built" when it is not complete, or "live"

impdata == <<mode, fram, data>>
vars == <<pc, wanted, impdata, i, coeff, convol>>

Sections == 0 .. 3

Init ==
  /\ pc = "idle" /\ wanted = NoFile
  /\ mode = "NONE" /\ fram = 0 /\ data = <<>>
  /\ i = 0
  /\ coeff = [s \in Sections |-> <<>>]
  /\ convol = "null"

\* set_convol() first deletes the convolver.
SetConvol(f) ==
  /\ pc = "idle"
  /\ wanted' = f
  /\ convol' = "null"
  /\ coeff' = [s \in Sections |-> <<>>]
  /\ pc' = IF f = NoFile THEN "idle" ELSE "open"
  /\ UNCHANGED <<impdata, i>>

Fail == pc' = "idle" /\ UNCHANGED <<wanted, i, coeff, convol>>

\* openconvfile(): such a file is there, and open_read(), sf_open_read(): the
\* object is not in use.
Openable == wanted.exists /\ wanted.ext # "other" /\ mode = "NONE"

NotOpenable == pc = "open" /\ ~Openable /\ Fail /\ UNCHANGED impdata

\* Mutant of HeaderRight: no test of the number of frames.
HeaderAny == wanted.header /\ (wanted.ext = "ald" => wanted.chan # 0 /\ wanted.sect # 0)

HeaderRight ==
  wanted.header /\ wanted.fram # 0 /\ (wanted.ext = "ald" => wanted.chan # 0 /\ wanted.sect # 0)

\* The memory is gone also when the header is not right.
WrongHeader ==
  /\ pc = "open" /\ Openable /\ ~HeaderRight
  /\ data' = <<>>
  /\ fram' = IF wanted.header THEN wanted.fram ELSE 0
  /\ Fail
  /\ UNCHANGED mode

\* What openconvfile() demands of the two kinds.
Suitable ==
  /\ wanted.chan = 4
  /\ IF wanted.ext = "ald"
     THEN wanted.sect = 4 /\ wanted.fram <= MaxFrames
     ELSE wanted.fram <= 4 * MaxFrames

\* Mutant of Closing: close() does not set the mode back.
ClosingFile == mode' = "READ"

Closing == mode' = "NONE"

Unsuitable ==
  /\ pc = "open" /\ Openable /\ HeaderRight /\ ~Suitable
  /\ data' = <<>>
  /\ fram' = wanted.fram
  /\ Closing
  /\ Fail

\* A .wav file is divided into four sections.  alloc() takes cleared memory, and
\* the new convolver is made.
Opened ==
  /\ pc = "open" /\ Openable /\ HeaderRight /\ Suitable
  /\ mode' = "READ"
  /\ fram' = IF wanted.ext = "ald" THEN wanted.fram ELSE wanted.fram \div 4
  /\ data' = [n \in 1 .. fram' |-> 0]
  /\ pc' = "sect" /\ i' = 0
  /\ convol' = "built"
  /\ UNCHANGED <<wanted, coeff>>

\* Mutant of From: one frame too far.
FromNext == fram * i + 1

\* seek_sect(): a section begins after those before it.
From == fram * i

\* read_sect() does not touch what the file is too short for; its result is not
\* looked at, and the partitions of the section are made.
ReadSect ==
  /\ pc = "sect" /\ i < 4
  /\ data' = [n \in 1 .. fram |-> IF From + n <= wanted.good THEN From + n ELSE data[n]]
  /\ coeff' = [coeff EXCEPT ![i] = data']
  /\ i' = i + 1
  /\ UNCHANGED <<pc, wanted, mode, fram, convol>>

\* closeconvfile(), and the convolver is ready.
CloseConvfile ==
  /\ pc = "sect" /\ i = 4
  /\ data' = <<>>
  /\ Closing
  /\ convol' = "live"
  /\ pc' = "idle"
  /\ UNCHANGED <<wanted, fram, i, coeff>>

Next ==
  \/ SetConvol(NoFile) \/ \E f \in ConvFiles : SetConvol(f)
  \/ NotOpenable \/ WrongHeader \/ Unsuitable \/ Opened
  \/ ReadSect \/ CloseConvfile

Spec == Init /\ [][Next]_vars
-----------------------------------------------------------------------------
\* The frames of a section of a file of either kind.
Length(f) == IF f.ext = "ald" THEN f.fram ELSE f.fram \div 4

\* Four channels, and four sections that are not too long.  Those of a .wav file of
\* one to three frames are empty, and it is accepted all the same (Tetrafile has
\* what comes of it).
Proper(f) ==
  /\ f.exists /\ f.header /\ f.chan = 4 /\ f.fram > 0
  /\ \/ f.ext = "ald" /\ f.sect = 4 /\ f.fram <= MaxFrames
     \/ f.ext = "wav" /\ f.fram <= 4 * MaxFrames

\* Whatever was loaded before, and whatever failed: when set_convol() returns
\* there is a convolver if, and only if, it is switched on and the file is a
\* proper one.
Accepted ==
  pc = "idle" => (convol = "live" <=> wanted # NoFile /\ Proper(wanted))

\* A convolver that is ready has at frame n of section s the same frame of the file
\* that was asked for, as far as the file goes, and nothing of the files before:
\* zeros or an earlier section of the same file where it is too short.
Loaded ==
  convol = "live" =>
    \A s \in Sections : \A n \in 1 .. Length(wanted) :
      LET place == Length(wanted) * s + n
      IN  /\ DOMAIN coeff[s] = 1 .. Length(wanted)
          /\ place <= wanted.good => coeff[s][n] = place
          /\ coeff[s][n] <= wanted.good
=============================================================================
