\* A document whose save failed is still cited from the vector store.
SPECIFICATION Spec
CONSTANTS
    t1 = t1  t2 = t2  m1 = m1  m2 = m2
    server = server  cli = cli
    u1 = u1  u2 = u2  c1 = c1
    Unset = Unset  NoRequest = NoRequest  Free = Free
    Tenants = {t1}
    Matters = {m1}
    Procs = {server, cli}
    Requests = {u1, u2, c1}
    Menu <- MatterMenu
    Length <- MCLength
    Poisoned <- MCPoisoned
    Stores = {server, cli}
    StoreOf <- MemoryStoreOf
    Durable = {}
    Collections <- DistinctNames
    CollectionOf <- DistinctNameOf
    Suspends <- ShippedSuspends
    Faults <- SaveFaults
    CandidateK = 2
    RerankInputK = 2
    TopK = 2
INVARIANTS
    CitationsOpen
CHECK_DEADLOCK FALSE
