\* The vector search of one matter returns chunks of another whose collection
\* name is the same.
SPECIFICATION Spec
CONSTANTS
    t1 = t1  t2 = t2  m1 = m1  m2 = m2
    server = server  cli = cli
    u1 = u1  u2 = u2  c1 = c1
    Unset = Unset  NoRequest = NoRequest  Free = Free
    Tenants = {t1, t2}
    Matters = {m1, m2}
    Procs = {server, cli}
    Requests = {u1, u2, c1}
    Menu <- WallMenu
    Length <- MCLength
    Poisoned <- MCPoisoned
    Stores <- QdrantStores
    StoreOf <- QdrantStoreOf
    Durable <- QdrantStores
    Collections <- CollidingNames
    CollectionOf <- CollidingNameOf
    Suspends <- ShippedSuspends
    Faults <- NoFaults
    CandidateK = 2
    RerankInputK = 2
    TopK = 2
INVARIANTS
    SearchScoped
CHECK_DEADLOCK FALSE
