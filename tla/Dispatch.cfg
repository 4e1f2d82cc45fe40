CONSTANTS
    m1 = m1
    m2 = m2
    m3 = m3
    p1 = p1
    p2 = p2
    Row = {m1, m2, m3}
    Asked = {m1}
    Pass = {p1, p2}
    NoRow = NoRow
    RetryAttempts = 2
    Ladders <- SmallLadders
    Credits = 1
    Segments = 1
SPECIFICATION Spec
SYMMETRY Symmetry
CHECK_DEADLOCK FALSE
INVARIANTS TypeOK DispatchInv HandedBounded  FallbackOnce ChargedBounded
