\* The shipped stack: each process has its own vector store in memory and only
\* provider.generate suspends; documents and questions of one matter, to the
\* server and to the CLI beside it; audit failures, and processes that die.
SPECIFICATION FairSpec
CONSTANTS
    t1 = t1  t2 = t2  m1 = m1  m2 = m2
    server = server  cli = cli
    u1 = u1  u2 = u2  c1 = c1
    Unset = Unset  NoRequest = NoRequest  Free = Free
    Tenants = {t1}
    Matters = {m1}
    Procs = {server, cli}
    Requests = {u1, u2, c1}
    Menu <- MatterMenu
    Length <- OneChunk
    Poisoned <- MCPoisoned
    Stores = {server, cli}
    StoreOf <- MemoryStoreOf
    Durable = {}
    Collections <- DistinctNames
    CollectionOf <- DistinctNameOf
    Suspends <- ShippedSuspends
    Faults <- ShippedFaults
    CandidateK = 2
    RerankInputK = 2
    TopK = 2
INVARIANTS
    ReadYourUploads
    SentFromLibrary
PROPERTIES
    EveryRequestEnds
CHECK_DEADLOCK FALSE
