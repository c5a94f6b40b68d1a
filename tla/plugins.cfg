SPECIFICATION PluginSpec
CONSTANTS
  base = base
  lib = lib
  app = app
  Ids <- MCIds
  Deps <- MCDeps
  Services = {lib}
  Workspaces = {lib}
  Nil = Nil
  Flights = {f1}
  MaxVersion = 2
  MaxAsks = 2
  MaxEvents = 1
CHECK_DEADLOCK FALSE
INVARIANTS RunningIsSound
PROPERTIES RepliesAreTrue
