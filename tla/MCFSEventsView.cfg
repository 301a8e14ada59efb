CONSTANTS
  Inodes = {1, 2, 3}
  Places <- ThreePlaces
  Top = "top"
  Options <- Plain
  MaxOps = 5
SPECIFICATION Spec
INVARIANTS ViewIsTree OneMove
CHECK_DEADLOCK FALSE
