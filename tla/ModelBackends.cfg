SPECIFICATION MCSpec
CONSTANTS
  Parts = {"backends", "session", "children", "series", "bulk"}
  Source <- InOrder
  MaxTicks = 6
  Workers = {w1, w2}
  Nothing = Nothing
SYMMETRY Symmetry
INVARIANTS
  BackendsAgree
  HistoriesAligned
  OncePerTick
  CallsIndependent
  SessionMeansPast
  GeneratedMeansPast
  AdapterMeansPast
PROPERTIES
  PromisesKept
  ImplementsPopulation
CHECK_DEADLOCK FALSE
