CONSTANTS
    a = a
    b = b
    p1 = p1
    i1 = i1
    e1 = e1
    None = None
    Tables <- MCTables
    Pollers <- MCPollers
    Importers <- MCImporters
    Editors = {}
    MaxRows = 1
    MaxChanges = 2
    SchemaChanges = TRUE
SPECIFICATION Spec
INVARIANTS
    SweepExclusion NoSpuriousRefresh NoSpuriousActivity CountsMatchSignature
    NothingSwallowed
