\* Two requests at a time present the tokens of three pairs, across their
\* expiry and the garbage collector's visit; the clock may be set back.
SPECIFICATION Spec
CONSTANTS
    p1 = p1
    p2 = p2
    p3 = p3
    q1 = q1
    q2 = q2
    None = None
    Pairs = {p1, p2, p3}
    Requests = {q1, q2}
    AccessTTL = 1
    RefreshTTL = 1
    MaxNow = 3
    MaxBack = 1
    MaxLag = 0
    MaxChanges = 0
INVARIANTS RotatedOnce
PROPERTIES SpentStaysSpent
SYMMETRY SessionSymmetry
