SPECIFICATION ShellSpec
CONSTANTS
  Sizes <- TwoSizes
  Guests = {g1}
  Shared = {g1}
  Resizes = {r1, r2}
  MaxExternal = 1
  Calls = {c1, c2}
  MaxProcs = 2
  MaxEnsures = 2
  MaxFacts = 1
INVARIANTS ResizeIsSound BridgeIsSound
PROPERTIES EveryResizeSettles EveryCallSettles
CHECK_DEADLOCK FALSE
