CONSTANTS
    b1 = b1
    b2 = b2
    b3 = b3
    c1 = c1
    i1 = i1
    None = None
    Batches <- TwoBatches
    Singles = {}
    Imports = {}
    Size = 2
    Serial = FALSE
SPECIFICATION Spec
INVARIANT RejectedBatchLeavesNothing
