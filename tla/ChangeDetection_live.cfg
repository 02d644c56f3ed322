CONSTANTS
    a = a
    b = b
    p1 = p1
    i1 = i1
    e1 = e1
    None = None
    Tables = {a}
    Pollers <- MCPollers
    Importers = {}
    Editors = {e1}
    MaxRows = 1
    MaxChanges = 3
    SchemaChanges = TRUE
SPECIFICATION LiveSpec
PROPERTIES ChangesAreDetected
