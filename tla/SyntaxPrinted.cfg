SPECIFICATION Spec
CONSTANTS
    Names = {"a", "b", "f", "max", "window", "roc", "contains", "nan", "__cxpr_window_highest", "__cxpr_window_roc"}
    Uses = {"logic"}
    MaxSteps = 2
    DeepUses = {"logic"}
CHECK_DEADLOCK FALSE
INVARIANT
    OutputParsesBack
