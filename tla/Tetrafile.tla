----------------------------- MODULE Tetrafile -----------------------------
(***************************************************************************)
(* The program tetrafile of tetraproc (tetrafile.cc), with the sound files *)
(* that it reads and writes (class Audiofile) and the dither of its output *)
(* (module Dither; one channel stands for the four, which have an object   *)
(* each and are converted with the same arguments).                        *)
(*                                                                         *)
(* A block goes from the buffer into the four inputs, with a stereo pair   *)
(* from each of two files or all channels from one, through process(), and *)
(* back into the same buffer, from which it is written.  A frame is        *)
(* abstracted to where it comes from, <<file, number>>; a frame of the     *)
(* output to where its two pairs of channels come from and whether it has  *)
(* been through the convolver.                                             *)
(*                                                                         *)
(* The four-fold slots of the buffer are indexed by frame: nothing is read *)
(* from it beyond the frames that Ainp1 has just delivered.                *)
(***************************************************************************)
EXTENDS Dither, Sequences

CONSTANTS
  BUFFSIZE,   \* frames per block
  Jobs,       \* command lines, and what becomes of the files they name
  Files,      \* what the input files can be: channels, rate, size in frames,
              \* and good, the frames that can be read before an error
  NoFile      \* one that cannot be opened

ASSUME TetrafileAssumption ==
  /\ BUFFSIZE \in 1 .. MaxBlock    \* one call of Dither per block
  /\ \A j \in Jobs :
       /\ {j.stin, j.config, j.conv, j.output} \subseteq BOOLEAN
       /\ j.impulse \in {"good", "short", "missing"}
       /\ j.room \in Nat
  /\ \A f \in Files :
       f # NoFile => f.size \in 0 .. MaxSamples /\ f.good \in 0 .. f.size

VARIABLES
  pc,        \* where main() is
  job,       \* stin: two stereo files; config, conv: whether the configuration
             \* loads and has a convolution; impulse: whether the file of that
             \* is good, has fewer frames than sections, or does not open;
             \* output: whether the file can be opened; room: the frames that
             \* fit on the disk; form: of its samples; dith: the option
  file,      \* what the input files are
  mode,      \* of Ainp1, Ainp2, Aout
  pos,       \* frames read from each input file
  convol,    \* of abproc: "off", "null", "empty" (no partitions) or "live"
  k,         \* frames of the block
  buff, inp, out,
  written,   \* the frames of the output file
  created,   \* whether there is one
  code       \* what main() returns

program == <<pc, job, file, mode, pos, convol, k, buff, inp, out, written, created, code>>
vars == <<program, dither>>

Least(a, b) == IF a < b THEN a ELSE b

Closed == [Ainp1 |-> "NONE", Ainp2 |-> "NONE", Aout |-> "NONE"]

\* set_dither() refuses another format than 16 bits; the result is ignored.
Init ==
  /\ pc = "load"
  /\ job \in Jobs
  /\ file \in [1 .. 2 -> Files]
  /\ mode = Closed
  /\ pos = <<0, 0>>
  /\ convol = "off"
  /\ k = 0
  /\ buff = <<>> /\ inp = <<>> /\ out = <<>>
  /\ written = <<>>
  /\ created = FALSE
  /\ code = 0
  /\ Reset
  /\ kind = IF job.form = "16bit" THEN job.dith ELSE "none"

\* main() closes the files that are open and returns.
Return(c) ==
  /\ pc' = "exit"
  /\ code' = c
  /\ mode' = Closed
  /\ UNCHANGED <<job, file, pos, convol, k, buff, inp, out, written, created, dither>>

Goto(label) == pc' = label /\ UNCHANGED <<job, file, created, code>>

Load ==
  /\ pc = "load"
  /\ \/ job.config /\ Goto("open1")
        /\ UNCHANGED <<mode, pos, convol, k, buff, inp, out, written, dither>>
     \/ ~job.config /\ Return(1)

Channels == IF job.stin THEN 2 ELSE 4

\* open_read() succeeds, and the file has the channels that are expected.
Usable(f) == file[f] # NoFile /\ file[f].chan = Channels

OpenFirst ==
  /\ pc = "open1"
  /\ \/ /\ Usable(1)
        /\ Goto(IF job.stin THEN "open2" ELSE "output")
        /\ mode' = [mode EXCEPT !.Ainp1 = "READ"]
        /\ UNCHANGED <<pos, convol, k, buff, inp, out, written, dither>>
     \/ ~Usable(1) /\ Return(1)

\* Mutant of Matches: the sizes are not compared.
MatchesRate == file[1].rate = file[2].rate

Matches == file[1].size = file[2].size /\ file[1].rate = file[2].rate

OpenSecond ==
  /\ pc = "open2"
  /\ \/ /\ Usable(2) /\ Matches
        /\ Goto("output")
        /\ mode' = [mode EXCEPT !.Ainp2 = "READ"]
        /\ UNCHANGED <<pos, convol, k, buff, inp, out, written, dither>>
     \/ ~(Usable(2) /\ Matches) /\ Return(1)

\* What set_convol(), whose result is ignored, makes of the file: if that does not
\* open, no convolver; of a .wav file of up to three frames, which does open, one
\* without partitions, because each of the four sections is left with no frame.
Convolver ==
  IF ~job.conv THEN "off"
  ELSE IF job.impulse = "missing" THEN "null"
  ELSE IF job.impulse = "short" THEN "empty" ELSE "live"

\* open_write(), then init() and the settings.
OpenOutput ==
  /\ pc = "output"
  /\ \/ /\ job.output
        /\ pc' = "read" /\ UNCHANGED <<job, file, code>>
        /\ mode' = [mode EXCEPT !.Aout = "WRITE"]
        /\ created' = TRUE
        /\ convol' = Convolver
        /\ UNCHANGED <<pos, k, buff, inp, out, written, dither>>
     \/ ~job.output /\ Return(1)

\* read() of BUFFSIZE frames delivers what is left; the rest of the buffer stays.
Delivered(f) == Least(BUFFSIZE, file[f].good - pos[f])

Filled(f) ==
  [s \in 1 .. BUFFSIZE |->
    IF s <= Delivered(f) THEN <<f, pos[f] + s>>
    ELSE IF s \in DOMAIN buff THEN buff[s] ELSE <<0, 0>>]

Read ==
  /\ pc = "read"
  /\ \/ /\ Delivered(1) > 0
        /\ Goto(IF job.stin THEN "read2" ELSE "process")
        /\ k' = Delivered(1)
        /\ pos' = [pos EXCEPT ![1] = @ + Delivered(1)]
        /\ buff' = Filled(1)
        /\ inp' = [s \in 1 .. Delivered(1) |-> [ab |-> Filled(1)[s], cd |-> Filled(1)[s]]]
        /\ UNCHANGED <<mode, convol, out, written, dither>>
     \/ Delivered(1) = 0 /\ Return(0)

\* Mutant of Second: the pair is taken one frame late.
SecondLate(s) == Filled(2)[IF s = 1 THEN 1 ELSE s - 1]

Second(s) == Filled(2)[s]

\* How many frames Ainp2.read() delivers is not looked at.
ReadSecond ==
  /\ pc = "read2"
  /\ Goto("process")
  /\ pos' = [pos EXCEPT ![2] = @ + Delivered(2)]
  /\ buff' = Filled(2)
  /\ inp' = [s \in 1 .. k |-> [inp[s] EXCEPT !.cd = Second(s)]]
  /\ UNCHANGED <<mode, convol, k, out, written, dither>>

\* process(k, inp, out), and the copy of its output into the buffer.  Without a
\* convolver it copies to the null pointer.  In one without partitions _ipart wraps
\* around to 2^32 - 1, and fwdfft() writes to what it reads there from _fwd_buff,
\* which has no elements: far outside of memory, or, where addresses have 32 bits,
\* just before it, the size that the allocator keeps.
Process ==
  /\ pc = "process"
  /\ \/ /\ convol \in {"off", "live"}
        /\ Goto("write")
        /\ out' = [s \in 1 .. k |-> [ab |-> inp[s].ab, cd |-> inp[s].cd, conv |-> convol = "live"]]
        /\ buff' = [s \in 1 .. BUFFSIZE |-> IF s <= k THEN out'[s] ELSE buff[s]]
        /\ UNCHANGED <<mode, pos, convol, k, inp, written, dither>>
     \/ /\ convol \in {"null", "empty"}
        /\ Goto("crashed")
        /\ UNCHANGED <<mode, pos, convol, k, buff, inp, out, written, dither>>

\* write() with dither first converts the block to 16 bits.
Convert ==
  /\ \/ pc = "write" /\ Begin(k) /\ Goto("dither")
     \/ pc = "dither" /\ Sample /\ Goto("dither")
  /\ UNCHANGED <<mode, pos, convol, k, buff, inp, out, written>>

\* What fits is appended to the file; how much that is is not looked at.
Write ==
  /\ \/ pc = "write" /\ kind = "none"
     \/ pc = "dither" /\ nsam = 0
  /\ Goto("read")
  /\ written' = written \o SubSeq(buff, 1, Least(k, job.room - Len(written)))
  /\ UNCHANGED <<mode, pos, convol, k, buff, inp, out, dither>>

Stopped == pc \in {"exit", "crashed"} /\ UNCHANGED vars

Next ==
  \/ Load \/ OpenFirst \/ OpenSecond \/ OpenOutput
  \/ Read \/ ReadSecond \/ Process \/ Convert \/ Write
  \/ Stopped

Spec == Init /\ [][Next]_vars
-----------------------------------------------------------------------------
\* What the command line asks for can be done: all files open, and the input
\* files have the channels that are expected and belong together.
Acceptable ==
  /\ job.config /\ job.output
  /\ IF job.stin
     THEN /\ \A f \in 1 .. 2 : file[f] # NoFile /\ file[f].chan = 2
          /\ file[1].rate = file[2].rate /\ file[1].size = file[2].size
     ELSE file[1] # NoFile /\ file[1].chan = 4

\* There is a convolution, but no file for it that it can be done with.
Unconvolvable == job.conv /\ job.impulse # "good"

\* How tetrafile ends.  If it returns 1, the output file is as it was, and what was
\* asked for could not be done.  If it returns 0, all frames that can be read have
\* been written, or as many as fit on the disk: that it is full is not reported.
\* It crashes exactly when there is a frame to convolve and the convolution file
\* does not open or has fewer frames than sections.
Outcome ==
  /\ pc = "exit" /\ code # 0 => ~created /\ ~Acceptable
  /\ pc = "exit" /\ code = 0 =>
       /\ Acceptable /\ Len(written) = Least(file[1].good, job.room)
       /\ Unconvolvable => file[1].good = 0
  /\ pc = "crashed" => Acceptable /\ Unconvolvable /\ file[1].good > 0

\* Frame i of the output is frame i of the input, with both pairs of channels of
\* the same moment, and converted as the configuration says, over the ends of the
\* blocks.  Once the second file cannot be read any more, although its header
\* says that it is as long as the first, the first takes its place: frame i then
\* has the pair of the first file in all its channels.
Aligned ==
  \A i \in 1 .. Len(written) :
    LET second == IF job.stin /\ i <= file[2].good THEN 2 ELSE 1
    IN  written[i] = [ab |-> <<1, i>>, cd |-> <<second, i>>, conv |-> job.conv]
=============================================================================
