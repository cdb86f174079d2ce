SPECIFICATION Spec
CONSTANTS
    Keys = {1, 2, 3}
    Cols = {id, a}
    KeyCol = id
    Idents = {i1, i2}
    Olds <- OldValues
    News <- NewValues
    Snapshots = {o1, o2}
    None = None
    MaxRevision = 2
    Rows = {r1, r2}
    r1 = r1
    r2 = r2
    FirstKeys <- TwoRows
    MaxForeign = 0
    MaxLoads = 1
SYMMETRY Symmetry
INVARIANTS
    EditsBound
    StagedOnSettledBaseline
CHECK_DEADLOCK FALSE
