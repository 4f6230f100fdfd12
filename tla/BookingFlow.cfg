\* One reservation through the whole flow: every account may book, the
\* administrator may own the car, corrections go round twice.
SPECIFICATION Spec
CONSTANTS
    ada = ada
    sam = sam
    bob = bob
    c1 = c1
    c2 = c2
    r1 = r1
    r2 = r2
    r3 = r3
    NoRow = NoRow
    Deleted = Deleted
    Users = {ada, sam, bob}
    Admins = {ada}
    InitSellers = {sam}
    Reachable = {ada, sam}
    Cars = {c1}
    Ids = {r1}
    LastDay = 0
    MaxRentalDays = 2
    MaxInflight = 2
    MaxRounds = 2
INVARIANTS TypeOK PaymentMatchesStatus DecisionsAudited AnnouncedOnce CorrectionsAnswered
PROPERTIES LegalTransitions
