---------------------------- MODULE MCTetrafile ----------------------------
(* An instance of Tetrafile for TLC. *)
EXTENDS Tetrafile

AllKinds == {"none", "rectangular", "triangular", "lipschitz"}

Plain ==
  [stin |-> TRUE, config |-> TRUE, conv |-> FALSE, impulse |-> "good", output |-> TRUE,
   room |-> 20, form |-> "24bit", dith |-> "none"]

\* Every way to dither, a full disk, and everything else that can go wrong.
SomeJobs ==
  LET Dithered == {[Plain EXCEPT !.stin = s, !.form = f, !.dith = d] :
                     s \in BOOLEAN, f \in {"16bit", "24bit"}, d \in AllKinds}
      Wrong == {[Plain EXCEPT !.config = FALSE], [Plain EXCEPT !.output = FALSE]}
      Convolved == {[Plain EXCEPT !.conv = TRUE, !.impulse = f] :
                      f \in {"good", "short", "missing"}}
  IN  Dithered \cup Wrong \cup Convolved \cup {[j EXCEPT !.room = 6] : j \in Dithered}

File(chan, rate, size, good) == [chan |-> chan, rate |-> rate, size |-> size, good |-> good]

SomeFiles ==
  { NoFile, File(2, 1, 14, 14), File(2, 1, 14, 9), File(2, 1, 12, 12), File(2, 2, 14, 14),
    File(2, 1, 0, 0), File(4, 1, 14, 14), File(4, 1, 14, 5) }
=============================================================================
