SPECIFICATION ViewsSpec
CONSTANTS
  Views = {v1, v2}
  NoView = NoView
  Hookless = {v2}
  Gens = 2
  RetryLimit = 2
  Callers = {c1}
  SlotPlaces <- TwoPlaces
  MaxChanges = 2
  MaxResizes = 2
  MaxAsks = 2
  MaxMoves = 1
  MaxDetaches = 1
  MaxEvents = 3
INVARIANTS FocusIsSound SurfaceIsTrue
PROPERTIES IntentSettles ShownWhereItBelongs ComesToRest
CHECK_DEADLOCK FALSE
