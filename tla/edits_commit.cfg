SPECIFICATION Spec
CONSTANTS
    Keys = {1, 2}
    Cols = {id, a, b}
    KeyCol = id
    Idents = {i1}
    Olds <- OldValues
    News <- NewValues
    Snapshots = {o1}
    None = None
    MaxRevision = 3
    Rows = {r1}
    r1 = r1
    r2 = r2
    FirstKeys <- OneRow
    MaxForeign = 2
    MaxLoads = 0
SYMMETRY Symmetry
INVARIANTS
    EditsHeld
    AppliedOnce
PROPERTIES
    NothingLost
    SetSpec
CHECK_DEADLOCK FALSE
