\* Two clients; a bucket of two tokens that fills in four ticks.
SPECIFICATION Spec
CONSTANTS
    ann = ann
    bea = bea
    proxy = proxy
    Blank = Blank
    Clients = {ann, bea}
    Proxies = {proxy}
    Injected <- Chains
    Hops <- ShortHops
    Cost = 2
    Capacity = 4
    TTL = 4
    GCEvery = 1
    MaxPending = 2
    MaxRefused = 1
    MaxNow = 6
INVARIANTS TypeOK WindowBound
PROPERTIES ImplementsBudget
