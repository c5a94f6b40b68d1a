SPECIFICATION Spec
CONSTANTS
  Labels = {w1, w2}
  OldLabels = {}
  Roots = {r1, r2}
  None = None
  Absent = Absent
  MaxOps = 1
  MaxLoose = 1
  Apart = TRUE
SYMMETRY WindowSymmetry
INVARIANTS RootOpenOnce SlotHasSnapshot
PROPERTIES NothingKnownIsLost
CHECK_DEADLOCK FALSE
