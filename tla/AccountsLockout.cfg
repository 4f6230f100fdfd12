\* A fixed list of two administrators who suspend each other.
SPECIFICATION Spec
CONSTANTS
    ada = ada
    sam = sam
    Users = {ada, sam}
    Lists <- FixedList
    MaxInflight = 2
    MaxAudit = 2
INVARIANTS SomebodyCanAdminister
