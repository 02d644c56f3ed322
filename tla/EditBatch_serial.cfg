CONSTANTS
    b1 = b1
    b2 = b2
    b3 = b3
    c1 = c1
    i1 = i1
    None = None
    Batches <- TwoBatches
    Singles <- OneSingle
    Imports <- OneImport
    Size = 2
    Serial = TRUE
SPECIFICATION Spec
PROPERTY AtomicSpec
