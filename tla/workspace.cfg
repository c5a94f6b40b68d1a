SPECIFICATION Spec
CONSTANTS
  Width = 5040
  NoKey = NoKey
  Roots = {r1, r2}
  Programs = {term}
  Unregistered = Unregistered
  Keys <- MCKeys
  Stations = {2520}
  Flow = Flow
  NoId = NoId
  Sides = {"left", "bottom"}
  MaxSize = 6
  MaxWeight = 3
  HistoryCap = 3
CONSTRAINTS OneTreeAtATime OneStart ResizedOnce
CHECK_DEADLOCK FALSE
SYMMETRY RootSymmetry
INVARIANTS IdsResolve RailIsTrue
PROPERTIES TabsSurvive FocusFollowsHistory
