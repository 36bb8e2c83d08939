SPECIFICATION Spec
CONSTANTS
  Section <- MCSection
  Value <- MCValue
  BAD = "bad"
  NULL = NULL
INVARIANTS PendingFlagged MainFlagged DarkIsMain
PROPERTIES MainAccepted
\* The program may crash, and then stops.
CHECK_DEADLOCK FALSE
