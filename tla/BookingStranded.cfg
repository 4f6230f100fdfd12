\* The seller role is revoked and the owner's car is booked afterwards.
SPECIFICATION Spec
CONSTANTS
    ada = ada
    sam = sam
    bob = bob
    c1 = c1
    c2 = c2
    r1 = r1
    r2 = r2
    r3 = r3
    NoRow = NoRow
    Deleted = Deleted
    Users = {ada, sam, bob}
    Admins = {ada}
    InitSellers = {sam}
    Reachable = {sam}
    Cars = {c1}
    Ids = {r1}
    LastDay = 0
    MaxRentalDays = 2
    MaxInflight = 1
    MaxRounds = 0
INVARIANT NoStrandedReservation
