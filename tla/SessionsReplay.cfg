\* The winner of two presentations signs a pair that outlives the loser's alarm.
SPECIFICATION Spec
CONSTANTS
    p1 = p1
    p2 = p2
    p3 = p3
    q1 = q1
    q2 = q2
    None = None
    Pairs = {p1, p2}
    Requests = {q1, q2}
    AccessTTL = 1
    RefreshTTL = 3
    MaxNow = 3
    MaxBack = 0
    MaxLag = 0
    MaxChanges = 0
PROPERTY DeadTokenYieldsDeadPair
