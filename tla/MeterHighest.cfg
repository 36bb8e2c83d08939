SPECIFICATION Spec
CONSTANTS
  MaxLevel <- MCMaxLevel
  Hold <- MCHold
PROPERTY Highest
