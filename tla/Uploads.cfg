\* Two uploads for one slot, three names, one row, and days enough for files
\* to become old and be swept.
SPECIFICATION Spec
CONSTANTS
    u1 = u1
    u2 = u2
    f1 = f1
    f2 = f2
    f3 = f3
    car = car
    Absent = Absent
    Removed = Removed
    Uploads = {u1, u2}
    Files = {f1, f2, f3}
    Rows = {car}
    Slots = 1
    Sizes = {1}
    MaxStored = 2
    Quota = 2
    Grace = 2
    SweepLag = 1
    LastDay = 3
INVARIANTS TypeOK OvershootBounded AttachedInTimeKept
PROPERTIES EveryUploadEnds OrphansSwept
