----------------------------- MODULE MCConvfile -----------------------------
(* An instance of Convfile for TLC. *)
EXTENDS Convfile

File(ext, channels, sections, frames, good) ==
  [exists |-> TRUE, ext |-> ext, header |-> TRUE,
   chan |-> channels, sect |-> sections, fram |-> frames, good |-> good]

\* Proper files of both kinds, one that is too short by some frames and one by a
\* section and more; and one file for every way to be refused.
SomeFiles ==
  { File("ald", 4, 4, 3, 12), File("ald", 4, 4, 2, 8), File("ald", 4, 4, 3, 11),
    File("ald", 4, 4, 3, 7), File("wav", 4, 1, 9, 9), File("wav", 4, 1, 2, 2),
    File("wav", 4, 1, 12, 10),
    File("ald", 2, 4, 3, 12), File("ald", 4, 2, 3, 6), File("ald", 4, 4, 4, 16),
    File("ald", 4, 4, 0, 0), File("wav", 2, 1, 8, 8), File("wav", 4, 1, 13, 13),
    File("wav", 4, 1, 0, 0), File("other", 4, 4, 3, 12),
    [File("ald", 4, 4, 3, 12) EXCEPT !.header = FALSE],
    [File("wav", 4, 1, 9, 9) EXCEPT !.exists = FALSE] }
=============================================================================
