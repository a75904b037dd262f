SPECIFICATION MCSpec
CONSTANTS
  Parts = {"backends"}
  Source <- Forward
  MaxTicks = 6
  Workers = {w1, w2}
  Nothing = Nothing
INVARIANT BackendsAgree
