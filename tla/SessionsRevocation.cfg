\* A password change and replays, on a clock that may be set back, whose
\* stamps are written out of order.
SPECIFICATION Spec
CONSTANTS
    p1 = p1
    p2 = p2
    p3 = p3
    q1 = q1
    q2 = q2
    None = None
    Pairs = {p1, p2}
    Requests = {q1, q2}
    AccessTTL = 2
    RefreshTTL = 4
    MaxNow = 5
    MaxBack = 1
    MaxLag = 1
    MaxChanges = 1
INVARIANTS TypeOK RevocationLasts
SYMMETRY SessionSymmetry
