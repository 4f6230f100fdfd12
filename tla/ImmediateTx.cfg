\* Two transactions and a plain write share two connections.
SPECIFICATION Spec
CONSTANTS
    r1 = r1
    r2 = r2
    r3 = r3
    c1 = c1
    c2 = c2
    Free = Free
    NoConn = NoConn
    Requests = {r1, r2, r3}
    Plain = {r3}
    Conns = {c1, c2}
INVARIANTS TypeOK OpenTxOwned
PROPERTIES ImplementsAtomicUpdates EveryRequestEnds
