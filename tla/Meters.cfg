SPECIFICATION Spec
CONSTANTS
  MaxLevel <- MCMaxLevel
  Hold <- MCHold
INVARIANTS TypeOK RmsFresh SelectedShown
PROPERTIES ReadCovers PeakHeld Falls
