SPECIFICATION MCSpec
CONSTANTS
    Parts = {"params"}
    price = price
    cross = cross
    score = score
    NaN = NaN
    Garbage = Garbage
    low = low
    Values = {low}
    True = True
    False = False
    Sources = {price}
    MaxLookback <- MCMaxLookback
    Exprs <- MCExprs
    MaxDepth <- MCMaxDepth
    Watches <- MCWatches
    ResultsOf <- BoolWatch
    Indices = {0, 2}
    MaxTicks = 4
    Params = {fast, slow}
    External = {fast}
    ParamValues = {v1, v2}
    None = None
    MaxSteps = 4
    EvalTicks = 4
    Entries = {a, b, c}
SYMMETRY Symmetry
CHECK_DEADLOCK FALSE
PROPERTY
    ParamsAreFixed
