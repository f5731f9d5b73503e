SPECIFICATION Spec
CONSTANTS
    Groups = {g1, g2}
    Archives = {1}
    Uploaded = {}
    Exporters = {t1}
    Importers = {q1, q2}
    MaxMembers = 1
    MaxContents = 2
    MaxExports = 2
    MaxChanges = 2
SYMMETRY Interchangeable
INVARIANTS TypeOK CalmExportsAddUp ImportedOnce
CHECK_DEADLOCK FALSE
